----------------------- MODULE CppIntKaratsubaProofs ------------------------
(***************************************************************************)
(* Products by parts (Karatsuba), for limbs of every width, factors of     *)
(* every length, results of every type, and every cut-off from 20 limbs    *)
(* on.  (The code's is 40.)                                                *)
(*                                                                         *)
(* First the places: the scratch memory of a multiplication suffices,      *)
(* and none of its parts is used twice (ScratchIsPrivate).  The memory     *)
(* in which the parts lie matters for one thing only here, that a number   *)
(* is not longer than the part that it is read from.  Everything else is   *)
(* about where the parts are: the invocations stand on the scratch         *)
(* memory one on the other, what an invocation reads and writes is below   *)
(* the place where it stands, and above it there is room for five times    *)
(* the limbs of its longer operand, or it is too short to be split.        *)
(*                                                                         *)
(* Then the numbers: the product is the product (ProductExact).  Each      *)
(* invocation multiplies what the one that it serves wants multiplied,     *)
(* and since the places are apart, what has been multiplied stays what     *)
(* it is until the three products are combined.                            *)
(***************************************************************************)
EXTENDS CppIntKaratsuba, LimbNumbersProofs, SequenceTheorems

----------------------------------------------------------------------------
(* The memory.                                                             *)

\* m limbs, the first of them zero
Memory(c, m) == c \in [0 .. m - 1 -> 0 .. Base - 1] /\ c[0] = 0

\* The numbers of the first limbs of a view, from the top, up to the n'th
IsHorner(h, c, v, n) ==
  h[0] = 0 /\ \A k \in 1 .. n : h[k] = Base * h[k - 1] + c[v.at + v.size - k]

\* A limb more
LEMMA HornerStep ==
  ASSUME NEW x \in Nat, NEW y \in Nat, NEW k \in Nat, x < Power(k), y \in 0 .. Base - 1
  PROVE  Base * x + y \in Nat /\ Base * x + y < Power(k + 1)
<1> DEFINE p == Power(k)
           bx == Base * x
           bp == Base * p
<1>1. p \in Nat /\ Power(k + 1) = bp
  BY PowerFacts
<1>2. Base * (x + 1) <= Base * p
  <2> HIDE DEF p
  <2> QED BY <1>1, BaseAssumption, Monotone DEF p
<1>3. Base * (x + 1) = bx + Base /\ bx \in Nat /\ bp \in Nat
  BY <1>1, BaseAssumption, Products
<1> HIDE DEF bx, bp, p
<1>4. bx + y \in Nat /\ bx + y < bp
  BY <1>2, <1>3, BaseAssumption DEF bp
<1> QED BY <1>1, <1>4 DEF bx

\* There is a function of the first limbs' numbers.
LEMMA HornerExists ==
  ASSUME NEW m \in Nat, NEW c, Memory(c, m), NEW v \in Views, v.at + v.size <= m,
         NEW n \in 0 .. v.size
  PROVE  \E h \in [0 .. v.size -> Nat] : IsHorner(h, c, v, n)
<1> DEFINE S == {k \in 0 .. v.size : \A h \in [0 .. v.size -> Nat] : ~IsHorner(h, c, v, k)}
<1>0. v.at \in Nat /\ v.size \in Nat
  BY DEF Views
<1>1. SUFFICES ASSUME S # {} PROVE FALSE
  OBVIOUS
<1>2. PICK k \in S : \A l \in S : k <= l
  <2>1. S \in SUBSET Nat
    BY <1>0
  <2> QED BY <1>1, <2>1, LeastNatural
<1>3. k # 0
  <2>1. [l \in 0 .. v.size |-> 0] \in [0 .. v.size -> Nat]
    OBVIOUS
  <2>2. IsHorner([l \in 0 .. v.size |-> 0], c, v, 0)
    BY <1>0 DEF IsHorner
  <2> QED BY <2>1, <2>2, <1>2
<1>4. k - 1 \in 0 .. v.size /\ k \in 1 .. v.size
  BY <1>0, <1>2, <1>3
<1>5. PICK h \in [0 .. v.size -> Nat] : IsHorner(h, c, v, k - 1)
  <2>1. k - 1 \notin S
    BY <1>0, <1>2, <1>4
  <2> QED BY <1>4, <2>1
<1> DEFINE next == Base * h[k - 1] + c[v.at + v.size - k]
           g == [l \in 0 .. v.size |-> IF l = k THEN next ELSE h[l]]
<1>6. next \in Nat
  <2>1. Base * h[k - 1] \in Nat
    BY <1>4, BaseAssumption, Products
  <2>2. c[v.at + v.size - k] \in 0 .. Base - 1
    <3>1. v.at + v.size - k \in 0 .. m - 1
      BY <1>0, <1>4
    <3> QED BY <3>1 DEF Memory
  <2> QED BY <2>1, <2>2, BaseAssumption
<1> HIDE DEF next
<1>7. g \in [0 .. v.size -> Nat]
  BY <1>6
<1>8. g[0] = 0
  BY <1>0, <1>3, <1>5 DEF IsHorner
<1>9. ASSUME NEW l \in 1 .. k PROVE g[l] = Base * g[l - 1] + c[v.at + v.size - l]
  <2>1. CASE l = k
    <3>1. k - 1 # k /\ k \in 0 .. v.size
      BY <1>0, <1>4
    <3>2. g[k] = next /\ g[k - 1] = h[k - 1]
      BY <1>4, <3>1
    <3> QED BY <2>1, <3>2 DEF next
  <2>2. CASE l # k
    <3>1. l \in 1 .. k - 1 /\ l \in 0 .. v.size /\ l - 1 \in 0 .. v.size /\ l - 1 # k
      BY <1>0, <1>4, <2>2
    <3>2. g[l] = h[l] /\ g[l - 1] = h[l - 1]
      BY <2>2, <3>1
    <3>3. h[l] = Base * h[l - 1] + c[v.at + v.size - l]
      BY <1>5, <3>1 DEF IsHorner
    <3> QED BY <3>2, <3>3
  <2> QED BY <2>1, <2>2
<1> HIDE DEF g
<1>10. IsHorner(g, c, v, k)
  BY <1>8, <1>9 DEF IsHorner
<1> QED BY <1>2, <1>7, <1>10

\* A number is not longer than the view that it is read from; one limb is its own
\* number.
LEMMA ValueBounded ==
  ASSUME NEW m \in Nat, NEW c, Memory(c, m), NEW v \in Views, v.at + v.size <= m
  PROVE  /\ ValueIn(c, v) \in Nat
         /\ ValueIn(c, v) < Power(v.size)
         /\ v.size = 1 => ValueIn(c, v) = c[v.at]
<1> DEFINE step(g) == [k \in 0 .. v.size |->
                         IF k = 0 THEN 0 ELSE Base * g[k - 1] + c[v.at + v.size - k]]
           above == CHOOSE g : g = step(g)
<1>0. v.at \in Nat /\ v.size \in Nat
  BY DEF Views
<1>1. above = step(above)
  <2>1. PICK h \in [0 .. v.size -> Nat] : IsHorner(h, c, v, v.size)
    BY <1>0, HornerExists
  <2>2. h = step(h)
    <3>1. ASSUME NEW k \in 0 .. v.size PROVE h[k] = step(h)[k]
      <4>1. CASE k = 0
        BY <2>1, <4>1 DEF IsHorner
      <4>2. CASE k # 0
        <5>1. k \in 1 .. v.size
          BY <1>0, <4>2
        <5>2. h[k] = Base * h[k - 1] + c[v.at + v.size - k]
          BY <2>1, <5>1 DEF IsHorner
        <5> QED BY <4>2, <5>2
      <4> QED BY <4>1, <4>2
    <3> QED BY <2>1, <3>1
  <2> QED BY <2>2
<1>2. ValueIn(c, v) = above[v.size]
  BY Zenon DEF ValueIn
<1> HIDE DEF above
<1>3. above[0] = 0
  BY <1>0, <1>1
<1>4. ASSUME NEW k \in 1 .. v.size
      PROVE  above[k] = Base * above[k - 1] + c[v.at + v.size - k]
  <2>1. k \in 0 .. v.size /\ k # 0
    BY <1>0
  <2>2. above[k] = step(above)[k]
    BY <1>1, Zenon
  <2> QED BY <2>1, <2>2
<1> DEFINE Fits(k) == above[k] \in Nat /\ above[k] < Power(k)
           S == {k \in 0 .. v.size : ~Fits(k)}
<1>5. S = {}
  <2>1. SUFFICES ASSUME S # {} PROVE FALSE
    OBVIOUS
  <2>2. PICK k \in S : \A l \in S : k <= l
    <3>1. S \in SUBSET Nat
      BY <1>0
    <3> HIDE DEF S
    <3> QED BY <2>1, <3>1, LeastNatural
  <2>3. k # 0
    <3>1. Fits(0)
      BY <1>3, PowerFacts
    <3> QED BY <2>2, <3>1
  <2>4. k \in 1 .. v.size /\ k - 1 \in 0 .. v.size /\ k - 1 \in Nat /\ (k - 1) + 1 = k
    BY <1>0, <2>2, <2>3
  <2>5. Fits(k - 1)
    <3>1. k - 1 \notin S
      BY <1>0, <2>2, <2>4
    <3> QED BY <2>4, <3>1
  <2> DEFINE x == above[k - 1]
             y == c[v.at + v.size - k]
  <2>6. y \in 0 .. Base - 1
    <3>1. v.at + v.size - k \in 0 .. m - 1
      BY <1>0, <2>4
    <3> QED BY <3>1 DEF Memory
  <2>7. x \in Nat /\ x < Power(k - 1) /\ y \in Nat
    BY <2>5, <2>6, BaseAssumption
  <2>8. above[k] = Base * x + y
    BY <1>4, <2>4
  <2> HIDE DEF x, y
  <2>9. Base * x + y \in Nat /\ Base * x + y < Power((k - 1) + 1)
    BY <2>4, <2>6, <2>7, HornerStep
  <2>10. Fits(k)
    BY <2>4, <2>8, <2>9
  <2> QED BY <2>2, <2>10
<1>6. Fits(v.size)
  BY <1>0, <1>5
<1>7. ASSUME v.size = 1 PROVE above[v.size] = c[v.at]
  <2>1. 1 \in 1 .. v.size /\ v.at + v.size - 1 = v.at /\ 1 - 1 = 0
    BY <1>0, <1>7
  <2>2. above[1] = Base * above[0] + c[v.at]
    BY <1>4, <2>1
  <2>3. v.at \in 0 .. m - 1
    BY <1>0, <1>7
  <2>4. c[v.at] \in 0 .. Base - 1
    BY <2>3 DEF Memory
  <2> QED BY <1>3, <1>7, <2>2, <2>4, BaseAssumption
<1> QED BY <1>2, <1>6, <1>7

\* Whatever is written, the memory remains one of limbs; its first limb, to which
\* nothing is written, remains zero.
LEMMA WrittenMemory ==
  ASSUME NEW m \in Nat \ {0}, NEW c, Memory(c, m), NEW at \in Nat \ {0}, NEW n \in Int,
         NEW size \in Int
  PROVE  Memory(Written(c, at, n, size), m)
<1>1. ASSUME NEW j \in Nat PROVE Limb(n, j) \in 0 .. Base - 1
  <2> DEFINE d == Power(j)
             q == n \div d
  <2>1. d \in Nat \ {0}
    BY PowerFacts
  <2> HIDE DEF d
  <2>2. q \in Int
    BY <2>1, Division
  <2> HIDE DEF q
  <2>3. q % Base \in 0 .. Base - 1
    <3>1. Base \in Nat \ {0}
      BY BaseAssumption
    <3> QED BY <2>2, <3>1, Division, Zenon
  <2> QED BY <2>3 DEF Limb, q, d
<1>2. DOMAIN c = 0 .. m - 1
  BY DEF Memory
<1>3. ASSUME NEW k \in 0 .. m - 1
      PROVE  (IF k \in at .. at + size - 1 THEN Limb(n, k - at) ELSE c[k]) \in 0 .. Base - 1
  <2>1. CASE k \in at .. at + size - 1
    <3>1. k - at \in Nat
      BY <2>1
    <3> QED BY <1>1, <2>1, <3>1
  <2>2. CASE k \notin at .. at + size - 1
    BY <2>2 DEF Memory
  <2> QED BY <2>1, <2>2
<1>4. 0 \notin at .. at + size - 1 /\ 0 \in 0 .. m - 1
  OBVIOUS
<1>5. Written(c, at, n, size)
        = [k \in 0 .. m - 1 |-> IF k \in at .. at + size - 1 THEN Limb(n, k - at) ELSE c[k]]
  BY <1>2 DEF Written
<1> QED BY <1>3, <1>4, <1>5 DEF Memory

----------------------------------------------------------------------------
(* One invocation: where its result, its operands and its temporaries are. *)

Frames ==
  [res : Views, a : Views, b : Views, step : {"enter", "low", "high", "middle"},
   n : Nat, t : Nat, low : Nat, high : Nat]

zero == View(0, 1)
Apart(v, w) == v.at + v.cap <= w.at \/ w.at + w.cap <= v.at
Longer(f) == Larger(f.a.size, f.b.size)

\* Where the scratch memory is free after an invocation has taken its temporaries
Above(f) == f.t + Taken(f.n)

\* An operand has limbs, lies below the place where the invocation stands, and
\* apart from the result.
Operand(v, res, level) ==
  v.size \in 1 .. v.cap /\ v.at + v.cap <= level /\ Apart(res, v)

\* Before it has split its operands, an invocation knows that their product has
\* room in the result, if they are not the zero of an empty part, and that they
\* are short or there is scratch memory enough.
Entered(f, level, limit) ==
  /\ f.a.size + f.b.size <= f.res.cap \/ (f.res.cap >= 2 /\ (f.a = zero \/ f.b = zero))
  /\ Longer(f) < karatsuba_cutoff \/ level + 5 * Longer(f) <= limit

\* Afterwards, that the parts are half as long, not both high parts are empty, the
\* parts and their sums are short or there is scratch memory enough, and the products
\* so far are not longer than their parts of the result.
Halved(f, limit) ==
  /\ f.a.size \in 20 .. 2 * f.n /\ f.b.size \in 20 .. 2 * f.n
  /\ f.n < f.a.size \/ f.n < f.b.size
  /\ 2 * f.n + 2 <= f.a.size + f.b.size /\ f.a.size + f.b.size <= f.res.cap
  /\ Above(f) <= limit
  /\ f.n + 1 < karatsuba_cutoff \/ Above(f) + 5 * (f.n + 1) <= limit
  /\ f.step \in {"high", "middle"} => f.low <= 2 * f.n
  /\ f.step = "middle" => f.high <= f.res.cap - 2 * f.n

\* Where the product goes that an invocation waits for
Part(f) ==
  CASE f.step = "low" -> result_low(f)
    [] f.step = "high" -> result_high(f)
    [] f.step = "middle" -> t1(f)

Placed(f, level, limit) ==
  /\ f \in Frames /\ level \in Nat /\ limit \in Nat /\ level <= limit
  /\ f.res.at >= 1 /\ f.res.size = f.res.cap /\ f.res.at + f.res.cap <= level
  /\ Operand(f.a, f.res, level) /\ Operand(f.b, f.res, level)
  /\ ~Splits(f) => Entered(f, level, limit)
  /\ Splits(f) => f.t = level /\ Halved(f, limit)

\* What an invocation takes of the scratch memory
LEMMA TakenLimbs ==
  \A n \in Nat : /\ temporaries(n)[1] = 2 * n + 2
                 /\ temporaries(n)[2] = n + 1 /\ temporaries(n)[3] = n + 1
                 /\ Taken(n) = 4 * n + 4 /\ Taken(n) \in Nat
BY DEF Taken, temporaries

\* Of five limbs for each limb of an operand, the temporaries leave five for each
\* limb of the sum of its parts, if that is not too short to be split.
LEMMA HalfIsEnough ==
  ASSUME NEW s \in Nat, NEW n \in Nat, n = (s \div 2) + 1, s >= 20, karatsuba_cutoff \in Nat,
         karatsuba_cutoff >= 20
  PROVE  /\ s <= 2 * n /\ n < s /\ 2 * n <= s + 2
         /\ 4 * n + 4 <= 5 * s
         /\ n + 1 < karatsuba_cutoff \/ 4 * n + 4 + 5 * (n + 1) <= 5 * s
<1>1. s <= 2 * n /\ 2 * n <= s + 2
  OBVIOUS
<1>2. CASE s <= 35
  BY <1>1, <1>2
<1>3. CASE s >= 36
  BY <1>1, <1>3
<1> QED BY <1>1, <1>2, <1>3

\* An invocation that is to split its operands has the room for it.
LEMMA SplitPlaced ==
  ASSUME karatsuba_cutoff \in Nat, karatsuba_cutoff >= 20,
         NEW f, NEW level, NEW limit, Placed(f, level, limit), ~Splits(f),
         f.a.size >= karatsuba_cutoff, f.b.size >= karatsuba_cutoff,
         NEW g, g = [f EXCEPT !.step = "low", !.n = (Longer(f) \div 2) + 1, !.t = level]
  PROVE  Placed(g, level, limit) /\ Splits(g)
<1> DEFINE s == Longer(f)
           n == (s \div 2) + 1
<1>1. f \in Frames /\ level \in Nat /\ limit \in Nat
  BY DEF Placed
<1>2. f.a.size \in Nat /\ f.b.size \in Nat /\ f.a.size >= 20 /\ f.b.size >= 20
  BY <1>1 DEF Frames, Views
<1>3. /\ s \in Nat /\ s >= 20 /\ n \in Nat
      /\ f.a.size <= s /\ f.b.size <= s /\ (s = f.a.size \/ s = f.b.size)
      /\ ~(s < karatsuba_cutoff)
  BY <1>2 DEF Longer, Larger
<1> HIDE DEF s
<1>4. /\ s <= 2 * n /\ n < s /\ 2 * n <= s + 2 /\ 4 * n + 4 <= 5 * s
      /\ n + 1 < karatsuba_cutoff \/ 4 * n + 4 + 5 * (n + 1) <= 5 * s
  BY <1>3, HalfIsEnough
<1> HIDE DEF n
<1>5. /\ g \in Frames /\ g.step = "low" /\ g.n = n /\ g.t = level
      /\ g.res = f.res /\ g.a = f.a /\ g.b = f.b
  BY <1>1, <1>3 DEF Frames, n, s
<1>6. Splits(g)
  BY <1>5 DEF Splits
<1>7. level + 5 * s <= limit
  BY <1>3 DEF Placed, Entered, s
<1>8. f.a.size + f.b.size <= f.res.cap
  BY <1>2 DEF Placed, Entered, zero, View
<1>9. Above(g) = level + (4 * n + 4)
  BY <1>3, <1>5, TakenLimbs DEF Above
<1>10. Halved(g, limit)
  BY <1>1, <1>2, <1>3, <1>4, <1>5, <1>7, <1>8, <1>9 DEF Halved
<1> QED BY <1>5, <1>6, <1>10 DEF Placed

\* The parts of the result and the temporaries
LEMMA PartsPlaced ==
  ASSUME NEW f \in Frames, f.res.at + f.res.cap <= f.t, f.res.size = f.res.cap,
         2 * f.n <= f.res.cap
  PROVE  /\ result_low(f) = [at |-> f.res.at, cap |-> 2 * f.n, size |-> 2 * f.n]
         /\ result_high(f) = [at |-> f.res.at + 2 * f.n, cap |-> f.res.cap - 2 * f.n,
                              size |-> f.res.cap - 2 * f.n]
         /\ t1(f) = [at |-> f.t, cap |-> 2 * f.n + 2, size |-> 2 * f.n + 2]
         /\ t2(f) = [at |-> f.t + 2 * f.n + 2, cap |-> f.n + 1, size |-> f.n + 1]
         /\ t3(f) = [at |-> f.t + 3 * f.n + 3, cap |-> f.n + 1, size |-> f.n + 1]
         /\ Above(f) = f.t + 4 * f.n + 4
         /\ result_low(f) \in Views /\ result_high(f) \in Views
         /\ t1(f) \in Views /\ t2(f) \in Views /\ t3(f) \in Views
<1>1. f.n \in Nat /\ f.t \in Nat /\ f.res \in Views
  BY DEF Frames
<1>2. f.res.at \in Nat /\ f.res.cap \in Nat
  BY <1>1 DEF Views
<1>3. /\ temporaries(f.n)[1] = 2 * f.n + 2
      /\ temporaries(f.n)[2] = f.n + 1
      /\ temporaries(f.n)[3] = f.n + 1
      /\ Taken(f.n) = 4 * f.n + 4
  BY <1>1, TakenLimbs
<1>4. /\ result_low(f) = [at |-> f.res.at, cap |-> 2 * f.n, size |-> 2 * f.n]
      /\ result_high(f) = [at |-> f.res.at + 2 * f.n, cap |-> f.res.cap - 2 * f.n,
                           size |-> f.res.cap - 2 * f.n]
  BY DEF result_low, result_high, View
<1>5. /\ t1(f) = [at |-> f.t, cap |-> 2 * f.n + 2, size |-> 2 * f.n + 2]
      /\ t2(f) = [at |-> f.t + 2 * f.n + 2, cap |-> f.n + 1, size |-> f.n + 1]
      /\ t3(f) = [at |-> f.t + 3 * f.n + 3, cap |-> f.n + 1, size |-> f.n + 1]
  BY <1>1, <1>3 DEF t1, t2, t3, View
<1>6. Above(f) = f.t + 4 * f.n + 4
  BY <1>1, <1>3 DEF Above
<1>7. /\ result_low(f) \in Views /\ result_high(f) \in Views
      /\ t1(f) \in Views /\ t2(f) \in Views /\ t3(f) \in Views
  BY <1>1, <1>2, <1>4, <1>5 DEF Views
<1> QED BY <1>4, <1>5, <1>6, <1>7

\* A part of an invocation's work, above which it stands, may begin.
LEMMA PartPlaced ==
  ASSUME karatsuba_cutoff \in Nat,
         NEW f, NEW limit, Placed(f, f.t, limit), Splits(f),
         NEW res \in Views, NEW a \in Views, NEW b \in Views,
         res.at >= 1, res.size = res.cap, res.at + res.cap <= Above(f),
         Operand(a, res, Above(f)), Operand(b, res, Above(f)),
         a.size + b.size <= res.cap \/ (res.cap >= 2 /\ (a = zero \/ b = zero)),
         a.size <= f.n + 1, b.size <= f.n + 1
  PROVE  Placed(Frame(res, a, b), Above(f), limit) /\ ~Splits(Frame(res, a, b))
<1> DEFINE g == Frame(res, a, b)
<1>1. /\ g \in Frames /\ g.res = res /\ g.a = a /\ g.b = b /\ g.step = "enter"
  BY DEF Frame, Frames
<1>2. ~Splits(g)
  BY <1>1 DEF Splits
<1> HIDE DEF g
<1>3. f.n \in Nat /\ f.t \in Nat /\ limit \in Nat /\ Halved(f, limit)
  BY DEF Placed, Frames
<1>4. Above(f) \in Nat /\ Above(f) <= limit
  <2>1. Taken(f.n) \in Nat
    BY <1>3, TakenLimbs
  <2> QED BY <1>3, <2>1 DEF Above, Halved
<1>5. a.size \in Nat /\ b.size \in Nat
  BY DEF Views
<1>6. Longer(g) \in Nat /\ Longer(g) <= f.n + 1
  BY <1>1, <1>5 DEF Longer, Larger
<1>7. Longer(g) < karatsuba_cutoff \/ Above(f) + 5 * Longer(g) <= limit
  BY <1>3, <1>4, <1>6 DEF Halved
<1>8. Entered(g, Above(f), limit)
  BY <1>1, <1>7 DEF Entered
<1>9. Placed(g, Above(f), limit)
  BY <1>1, <1>2, <1>3, <1>4, <1>8 DEF Placed
<1> QED BY <1>2, <1>9 DEF g

\* The low part of an operand, and its high part or zero, as views whose leading
\* zeros are not in use
IsLow(w, v, n) == w \in Views /\ w.at = v.at /\ w.cap = Smaller(v.size, n) /\ w.size \in 1 .. w.cap
IsHigh(w, v, n) ==
  /\ w \in Views
  /\ IF v.size > n THEN w.at = v.at + n /\ w.cap = v.size - n /\ w.size \in 1 .. w.cap
     ELSE w = zero

\* What an invocation that has split its operands knows of them
LEMMA PlacedFacts ==
  ASSUME NEW f, NEW limit, Placed(f, f.t, limit), Splits(f)
  PROVE  /\ f \in Frames /\ f.n \in Nat /\ f.n >= 10 /\ f.t \in Nat /\ limit \in Nat
         /\ f.res \in Views /\ f.res.at \in Nat \ {0} /\ f.res.cap \in Nat
         /\ f.res.size = f.res.cap /\ f.res.at + f.res.cap <= f.t
         /\ f.a.size + f.b.size <= f.res.cap /\ 2 * f.n + 2 <= f.res.cap
         /\ \A v \in {f.a, f.b} :
              /\ v \in Views /\ v.at \in Nat /\ v.cap \in Nat /\ v.size \in 20 .. 2 * f.n
              /\ v.size <= v.cap /\ v.at + v.cap <= f.t /\ Apart(f.res, v)
         /\ Above(f) = f.t + 4 * f.n + 4 /\ Above(f) <= limit
<1>1. f \in Frames /\ limit \in Nat /\ Halved(f, limit)
  BY DEF Placed
<1>2. f.n \in Nat /\ f.t \in Nat /\ f.res \in Views /\ f.a \in Views /\ f.b \in Views
  BY <1>1 DEF Frames
<1>3. /\ f.res.at \in Nat /\ f.res.cap \in Nat
      /\ \A v \in {f.a, f.b} : v.at \in Nat /\ v.cap \in Nat /\ v.size \in Nat
  BY <1>2 DEF Views
<1>4. /\ f.res.at >= 1 /\ f.res.size = f.res.cap /\ f.res.at + f.res.cap <= f.t
      /\ \A v \in {f.a, f.b} : v.size <= v.cap /\ v.at + v.cap <= f.t /\ Apart(f.res, v)
  BY DEF Placed, Operand
<1>5. /\ \A v \in {f.a, f.b} : v.size \in 20 .. 2 * f.n
      /\ f.a.size + f.b.size <= f.res.cap /\ 2 * f.n + 2 <= f.a.size + f.b.size
      /\ Above(f) <= limit
  BY <1>1 DEF Halved
<1>6. f.n >= 10
  BY <1>2, <1>5
<1>7. Above(f) = f.t + 4 * f.n + 4
  <2>1. Taken(f.n) = 4 * f.n + 4
    BY <1>2, TakenLimbs
  <2> QED BY <1>2, <2>1 DEF Above
<1>8. 2 * f.n + 2 <= f.res.cap
  BY <1>2, <1>3, <1>5
<1> QED BY <1>1, <1>2, <1>3, <1>4, <1>5, <1>6, <1>7, <1>8

\* The product of the low parts
LEMMA LowPlaced ==
  ASSUME karatsuba_cutoff \in Nat, NEW f, NEW limit, Placed(f, f.t, limit), Splits(f),
         NEW a, IsLow(a, f.a, f.n), NEW b, IsLow(b, f.b, f.n)
  PROVE  /\ Placed(Frame(result_low(f), a, b), Above(f), limit)
         /\ ~Splits(Frame(result_low(f), a, b))
<1> DEFINE res == result_low(f)
<1>1. /\ f \in Frames /\ f.n \in Nat /\ f.n >= 10 /\ f.t \in Nat
      /\ f.res.at \in Nat \ {0} /\ f.res.cap \in Nat /\ f.res.size = f.res.cap
      /\ f.res.at + f.res.cap <= f.t /\ 2 * f.n + 2 <= f.res.cap
      /\ Above(f) = f.t + 4 * f.n + 4
  BY PlacedFacts
<1>2. res = [at |-> f.res.at, cap |-> 2 * f.n, size |-> 2 * f.n] /\ res \in Views
  BY <1>1, PartsPlaced
<1> HIDE DEF res
<1>3. /\ res.at = f.res.at /\ res.cap = 2 * f.n /\ res.size = res.cap
      /\ res.at >= 1 /\ res.at + res.cap <= Above(f)
  BY <1>1, <1>2
<1>4. ASSUME NEW v, NEW w, v \in {f.a, f.b}, IsLow(w, v, f.n)
      PROVE  w \in Views /\ w.size \in 1 .. f.n /\ Operand(w, res, Above(f))
  <2>1. v \in Views /\ v.at \in Nat /\ v.size \in 20 .. 2 * f.n /\ v.cap \in Nat
        /\ v.size <= v.cap /\ v.at + v.cap <= f.t /\ Apart(f.res, v)
    BY <1>4, PlacedFacts
  <2>2. w \in Views /\ w.at = v.at /\ w.cap = Smaller(v.size, f.n) /\ w.size \in 1 .. w.cap
    BY <1>4 DEF IsLow
  <2>3. w.cap \in Nat /\ w.cap <= v.size /\ w.cap <= f.n
    BY <1>1, <2>1, <2>2 DEF Smaller
  <2>4. w.at + w.cap <= Above(f)
    BY <1>1, <2>1, <2>2, <2>3
  <2>5. Apart(res, w)
    BY <1>1, <1>3, <2>1, <2>2, <2>3 DEF Apart
  <2>6. w.size \in 1 .. f.n
    BY <1>1, <2>2, <2>3
  <2> QED BY <2>2, <2>4, <2>5, <2>6 DEF Operand
<1>5. a \in Views /\ a.size \in 1 .. f.n /\ Operand(a, res, Above(f))
  BY <1>4
<1>6. b \in Views /\ b.size \in 1 .. f.n /\ Operand(b, res, Above(f))
  BY <1>4
<1>7. a.size + b.size <= res.cap /\ a.size <= f.n + 1 /\ b.size <= f.n + 1
  BY <1>1, <1>3, <1>5, <1>6
<1>8. Placed(Frame(res, a, b), Above(f), limit) /\ ~Splits(Frame(res, a, b))
  BY <1>2, <1>3, <1>5, <1>6, <1>7, PartPlaced
<1> QED BY <1>8 DEF res

\* The product of the high parts, one of which may be empty
LEMMA HighPlaced ==
  ASSUME karatsuba_cutoff \in Nat, NEW f, NEW limit, Placed(f, f.t, limit), Splits(f),
         NEW a, IsHigh(a, f.a, f.n), NEW b, IsHigh(b, f.b, f.n)
  PROVE  /\ Placed(Frame(result_high(f), a, b), Above(f), limit)
         /\ ~Splits(Frame(result_high(f), a, b))
<1> DEFINE res == result_high(f)
<1>1. /\ f \in Frames /\ f.n \in Nat /\ f.n >= 10 /\ f.t \in Nat
      /\ f.res.at \in Nat \ {0} /\ f.res.cap \in Nat /\ f.res.size = f.res.cap
      /\ f.res.at + f.res.cap <= f.t /\ 2 * f.n + 2 <= f.res.cap
      /\ f.a.size + f.b.size <= f.res.cap
      /\ Above(f) = f.t + 4 * f.n + 4
  BY PlacedFacts
<1>2. /\ res = [at |-> f.res.at + 2 * f.n, cap |-> f.res.cap - 2 * f.n,
                size |-> f.res.cap - 2 * f.n]
      /\ res \in Views
  BY <1>1, PartsPlaced
<1> HIDE DEF res
<1>3. /\ res.at = f.res.at + 2 * f.n /\ res.cap = f.res.cap - 2 * f.n
      /\ res.size = res.cap /\ res.at >= 1 /\ res.at + res.cap <= Above(f) /\ res.cap >= 2
  BY <1>1, <1>2
<1>4. ASSUME NEW v, NEW w, v \in {f.a, f.b}, IsHigh(w, v, f.n)
      PROVE  /\ w \in Views /\ w.size \in 1 .. f.n /\ Operand(w, res, Above(f))
             /\ w = zero \/ w.size <= v.size - f.n
             /\ v.size > f.n => w.size <= v.size - f.n
  <2>1. v \in Views /\ v.at \in Nat /\ v.size \in 20 .. 2 * f.n /\ v.cap \in Nat
        /\ v.size <= v.cap /\ v.at + v.cap <= f.t /\ Apart(f.res, v)
    BY <1>4, PlacedFacts
  <2>2. CASE v.size > f.n
    <3>1. /\ w \in Views /\ w.at = v.at + f.n /\ w.cap = v.size - f.n
          /\ w.size \in 1 .. w.cap
      BY <1>4, <2>2 DEF IsHigh
    <3>2. w.at + w.cap <= Above(f) /\ w.size \in 1 .. f.n /\ w.size <= v.size - f.n
      BY <1>1, <2>1, <3>1
    <3>3. Apart(res, w)
      BY <1>1, <1>3, <2>1, <2>2, <3>1 DEF Apart
    <3> QED BY <2>2, <3>1, <3>2, <3>3 DEF Operand
  <2>3. CASE ~(v.size > f.n)
    <3>1. w = zero /\ w \in Views /\ w.at = 0 /\ w.cap = 1 /\ w.size = 1
      BY <1>4, <2>3 DEF IsHigh, zero, View
    <3>2. w.at + w.cap <= Above(f) /\ w.size \in 1 .. f.n
      BY <1>1, <3>1
    <3>3. Apart(res, w)
      BY <1>3, <3>1 DEF Apart
    <3> QED BY <2>3, <3>1, <3>2, <3>3 DEF Operand
  <2> QED BY <2>2, <2>3
<1>5. /\ a \in Views /\ a.size \in 1 .. f.n /\ Operand(a, res, Above(f))
      /\ a = zero \/ a.size <= f.a.size - f.n
  BY <1>4
<1>6. /\ b \in Views /\ b.size \in 1 .. f.n /\ Operand(b, res, Above(f))
      /\ b = zero \/ b.size <= f.b.size - f.n
  BY <1>4
<1>7. f.a.size \in Nat /\ f.b.size \in Nat
  <2>1. \A v \in {f.a, f.b} : v.size \in 20 .. 2 * f.n
    BY PlacedFacts
  <2> QED BY <1>1, <2>1
<1>8. a.size + b.size <= res.cap \/ (res.cap >= 2 /\ (a = zero \/ b = zero))
  BY <1>1, <1>3, <1>5, <1>6, <1>7
<1>9. a.size <= f.n + 1 /\ b.size <= f.n + 1
  BY <1>1, <1>5, <1>6
<1>10. Placed(Frame(res, a, b), Above(f), limit) /\ ~Splits(Frame(res, a, b))
  BY <1>2, <1>3, <1>5, <1>6, <1>8, <1>9, PartPlaced
<1> QED BY <1>10 DEF res

\* The product of the sums of the parts
LEMMA MiddlePlaced ==
  ASSUME karatsuba_cutoff \in Nat, NEW f, NEW limit, Placed(f, f.t, limit), Splits(f),
         NEW k \in 1 .. f.n + 1, NEW l \in 1 .. f.n + 1,
         NEW a, a = [t2(f) EXCEPT !.size = k], NEW b, b = [t3(f) EXCEPT !.size = l]
  PROVE  /\ Placed(Frame(t1(f), a, b), Above(f), limit)
         /\ ~Splits(Frame(t1(f), a, b))
<1> DEFINE res == t1(f)
<1>1. /\ f \in Frames /\ f.n \in Nat /\ f.n >= 10 /\ f.t \in Nat
      /\ f.res.at \in Nat \ {0} /\ f.res.cap \in Nat /\ f.res.size = f.res.cap
      /\ f.res.at + f.res.cap <= f.t /\ 2 * f.n + 2 <= f.res.cap
      /\ Above(f) = f.t + 4 * f.n + 4
  BY PlacedFacts
<1>2. /\ res = [at |-> f.t, cap |-> 2 * f.n + 2, size |-> 2 * f.n + 2]
      /\ t2(f) = [at |-> f.t + 2 * f.n + 2, cap |-> f.n + 1, size |-> f.n + 1]
      /\ t3(f) = [at |-> f.t + 3 * f.n + 3, cap |-> f.n + 1, size |-> f.n + 1]
      /\ res \in Views
  BY <1>1, PartsPlaced
<1> HIDE DEF res
<1>3. /\ a = [at |-> f.t + 2 * f.n + 2, cap |-> f.n + 1, size |-> k]
      /\ b = [at |-> f.t + 3 * f.n + 3, cap |-> f.n + 1, size |-> l]
  BY <1>2
<1>4. a \in Views /\ b \in Views
  <2>1. /\ k \in Nat /\ l \in Nat /\ f.n + 1 \in Nat
        /\ f.t + 2 * f.n + 2 \in Nat /\ f.t + 3 * f.n + 3 \in Nat
    BY <1>1
  <2>2. \A x, y, z \in Nat : [at |-> x, cap |-> y, size |-> z] \in Views
    BY DEF Views
  <2>3. /\ [at |-> f.t + 2 * f.n + 2, cap |-> f.n + 1, size |-> k] \in Views
        /\ [at |-> f.t + 3 * f.n + 3, cap |-> f.n + 1, size |-> l] \in Views
    BY <2>1, <2>2, Zenon
  <2> QED BY <1>3, <2>3, Zenon
<1>5. /\ res.at = f.t /\ res.cap = 2 * f.n + 2 /\ res.size = res.cap
      /\ res.at >= 1 /\ res.at + res.cap <= Above(f)
  BY <1>1, <1>2
<1>6. Operand(a, res, Above(f)) /\ Operand(b, res, Above(f))
  BY <1>1, <1>3, <1>5 DEF Operand, Apart
<1>7. a.size + b.size <= res.cap /\ a.size <= f.n + 1 /\ b.size <= f.n + 1
  BY <1>1, <1>3, <1>5
<1>8. Placed(Frame(res, a, b), Above(f), limit) /\ ~Splits(Frame(res, a, b))
  BY <1>2, <1>4, <1>5, <1>6, <1>7, PartPlaced
<1> QED BY <1>8 DEF res

----------------------------------------------------------------------------
(* The invocations, one on the other.                                      *)

LastOf(s) == s[Len(s)]

\* Where an invocation stands, if so much of the scratch memory is taken
Level(f, taken) == IF Splits(f) THEN f.t ELSE taken

\* All but the innermost invocation have split their operands, each writes to the part
\* that the one that it serves gave it, and stands where the temporaries of that one
\* end, and on those of all that it serves.
Stacked(s, taken, floor, limit) ==
  /\ s \in Seq(Frames) /\ taken \in Nat /\ floor \in Nat /\ limit \in Nat
  /\ \A i \in 1 .. Len(s) : Placed(s[i], Level(s[i], taken), limit)
  /\ \A i \in 1 .. Len(s) - 1 : Splits(s[i]) /\ s[i + 1].res = Part(s[i])
  /\ \A i \in 1 .. Len(s) :
       Level(s[i], taken) = IF i = 1 THEN floor ELSE Above(s[i - 1])
  /\ \A i, j \in 1 .. Len(s) : i < j => Above(s[i]) <= Level(s[j], taken)
  /\ taken = IF s = <<>> THEN floor
             ELSE IF Splits(s[Len(s)]) THEN Above(s[Len(s)]) ELSE taken
  /\ s = <<>> => floor <= limit

\* An invocation begins on the temporaries of the one that it serves.
LEMMA Pushed ==
  ASSUME NEW s, NEW taken, NEW floor, NEW limit, Stacked(s, taken, floor, limit), s # <<>>,
         NEW f, Placed(f, f.t, limit), Splits(f), f.t = Level(s[Len(s)], taken),
         f.res = s[Len(s)].res,
         NEW g, Placed(g, Above(f), limit), ~Splits(g), g.res = Part(f)
  PROVE  /\ Stacked(Append([s EXCEPT ![Len(s)] = f], g), Above(f), floor, limit)
         /\ LastOf(Append([s EXCEPT ![Len(s)] = f], g)) = g
<1> DEFINE m == Len(s)
           r == [s EXCEPT ![m] = f]
           u == Append(r, g)
           top2 == Above(f)
<1>1. /\ s \in Seq(Frames) /\ m \in Nat \ {0} /\ f \in Frames /\ g \in Frames
      /\ floor \in Nat /\ limit \in Nat /\ taken \in Nat
  BY DEF Stacked, Placed
<1>2. r \in Seq(Frames) /\ Len(r) = m /\ \A i \in 1 .. m : r[i] = IF i = m THEN f ELSE s[i]
  BY <1>1, ExceptSeq
<1> HIDE DEF r
<1>3. /\ u \in Seq(Frames) /\ Len(u) = m + 1 /\ u # <<>>
      /\ \A i \in 1 .. m : u[i] = r[i]
      /\ u[m + 1] = g
  BY <1>1, <1>2, AppendProperties
<1>4. \A i \in 1 .. m - 1 : u[i] = s[i]
  BY <1>1, <1>2, <1>3
<1>5. u[m] = f
  BY <1>1, <1>2, <1>3
<1> HIDE DEF u, m
<1>6. \A i \in 1 .. m - 1 : Splits(s[i]) /\ s[i + 1].res = Part(s[i])
  BY DEF Stacked, m
<1>7. /\ Level(f, taken) = f.t /\ Level(f, top2) = f.t /\ Level(g, top2) = top2
      /\ \A i \in 1 .. m - 1 : Level(s[i], top2) = Level(s[i], taken)
  BY <1>6 DEF Level
<1>8. top2 \in Nat /\ top2 <= limit
  BY <1>1 DEF Placed
<1> HIDE DEF top2
<1>9. f.t = Level(s[m], taken) /\ f.t <= top2
  <2>1. f.n \in Nat /\ f.t \in Nat
    BY <1>1 DEF Frames
  <2>2. Taken(f.n) \in Nat
    BY <2>1, TakenLimbs
  <2> QED BY <2>1, <2>2 DEF top2, Above, m
<1>10. ASSUME NEW i \in 1 .. m + 1
       PROVE  /\ Placed(u[i], Level(u[i], top2), limit)
              /\ i < m + 1 => Splits(u[i])
              /\ Level(u[i], top2) = IF i = 1 THEN floor ELSE Above(u[i - 1])
              /\ i <= m => Level(u[i], top2) = Level(s[i], taken)
  <2>1. CASE i = m + 1
    <3>1. u[i - 1] = f /\ i # 1
      BY <1>1, <1>5, <2>1
    <3> QED BY <1>1, <1>3, <1>7, <2>1, <3>1 DEF top2
  <2>2. CASE i \in 1 .. m
    <3>1. Level(s[i], taken) = IF i = 1 THEN floor ELSE Above(s[i - 1])
      BY <2>2 DEF Stacked, m
    <3>2. i # 1 => u[i - 1] = s[i - 1]
      BY <1>1, <1>4, <2>2
    <3>3. Level(u[i], top2) = Level(s[i], taken)
      BY <1>1, <1>4, <1>5, <1>7, <1>9, <2>2
    <3>4. Splits(u[i])
      BY <1>1, <1>4, <1>5, <1>6, <2>2
    <3>5. Placed(u[i], Level(u[i], top2), limit)
      <4>1. CASE i = m
        BY <1>5, <1>7, <4>1
      <4>2. CASE i \in 1 .. m - 1
        <5>1. Placed(s[i], Level(s[i], taken), limit)
          BY <2>2 DEF Stacked, m
        <5> QED BY <1>4, <3>3, <4>2, <5>1
      <4> QED BY <1>1, <2>2, <4>1, <4>2
    <3> QED BY <3>1, <3>2, <3>3, <3>4, <3>5
  <2> QED BY <1>1, <2>1, <2>2
<1>11. ASSUME NEW i \in 1 .. m + 1, NEW j \in 1 .. m + 1, i < j
       PROVE  Above(u[i]) <= Level(u[j], top2)
  <2>1. CASE i = m
    <3>1. j = m + 1
      BY <1>1, <1>11, <2>1
    <3> QED BY <1>3, <1>5, <1>7, <1>8, <2>1, <3>1 DEF top2
  <2>2. CASE i \in 1 .. m - 1
    <3>1. u[i] = s[i]
      BY <1>4, <2>2
    <3>2. \A l \in 1 .. m : i < l => Above(s[i]) <= Level(s[l], taken)
      <4>1. \A k, l \in 1 .. m : k < l => Above(s[k]) <= Level(s[l], taken)
        BY DEF Stacked, m
      <4>2. i \in 1 .. m
        BY <1>1, <2>2
      <4> QED BY <4>1, <4>2
    <3>3. CASE j \in 1 .. m
      BY <1>10, <1>11, <3>1, <3>2, <3>3
    <3>4. CASE j = m + 1
      <4>1. Above(s[i]) <= f.t
        BY <1>1, <1>9, <2>2, <3>2
      <4>2. Above(s[i]) \in Nat /\ f.t \in Nat
        <5>1. s[i] \in Frames
          BY <1>1, <2>2 DEF m
        <5>2. s[i].t \in Nat /\ s[i].n \in Nat /\ f.t \in Nat
          BY <1>1, <5>1 DEF Frames
        <5>3. Taken(s[i].n) \in Nat
          BY <5>2, TakenLimbs
        <5> QED BY <5>2, <5>3 DEF Above
      <4> QED BY <1>3, <1>7, <1>8, <1>9, <3>1, <3>4, <4>1, <4>2
    <3> QED BY <1>1, <3>3, <3>4
  <2> QED BY <1>1, <1>11, <2>1, <2>2
<1>12. Stacked(u, top2, floor, limit)
  <2>1. \A i \in 1 .. Len(u) : Placed(u[i], Level(u[i], top2), limit)
    BY <1>3, <1>10
  <2>2. \A i \in 1 .. Len(u) - 1 : Splits(u[i]) /\ u[i + 1].res = Part(u[i])
    <3> SUFFICES ASSUME NEW i \in 1 .. m PROVE Splits(u[i]) /\ u[i + 1].res = Part(u[i])
      BY <1>1, <1>3
    <3>1. Splits(u[i])
      BY <1>1, <1>10
    <3>2. CASE i = m
      BY <1>3, <1>5, <3>1, <3>2
    <3>3. CASE i = m - 1
      <4>1. i \in 1 .. m - 1 /\ i + 1 = m
        BY <1>1, <3>3
      <4>2. s[m].res = Part(s[i])
        BY <1>6, <4>1
      <4>3. f.res = s[m].res
        BY DEF m
      <4> QED BY <1>4, <1>5, <3>1, <4>1, <4>2, <4>3
    <3>4. CASE i # m /\ i # m - 1
      <4>1. i \in 1 .. m - 1 /\ i + 1 \in 1 .. m - 1
        BY <1>1, <3>4
      <4> QED BY <1>4, <1>6, <3>1, <4>1
    <3> QED BY <3>2, <3>3, <3>4
  <2>3. \A i \in 1 .. Len(u) :
          Level(u[i], top2) = IF i = 1 THEN floor ELSE Above(u[i - 1])
    BY <1>3, <1>10
  <2>4. \A i, j \in 1 .. Len(u) : i < j => Above(u[i]) <= Level(u[j], top2)
    BY <1>3, <1>11
  <2>5. u # <<>> /\ ~Splits(u[Len(u)])
    BY <1>3
  <2> QED BY <1>1, <1>3, <1>8, <2>1, <2>2, <2>3, <2>4, <2>5 DEF Stacked
<1>13. LastOf(u) = g
  BY <1>3 DEF LastOf
<1> QED BY <1>12, <1>13 DEF u, r, m, top2

\* When an invocation ends, its temporaries given back, as much of the scratch memory
\* is taken as when it began.
LEMMA Popped ==
  ASSUME NEW s, NEW taken, NEW floor, NEW limit, Stacked(s, taken, floor, limit), s # <<>>
  PROVE  /\ Stacked(SubSeq(s, 1, Len(s) - 1), Level(s[Len(s)], taken), floor, limit)
         /\ \/ SubSeq(s, 1, Len(s) - 1) = <<>>
            \/ Part(LastOf(SubSeq(s, 1, Len(s) - 1))) = s[Len(s)].res
<1> DEFINE m == Len(s)
           u == SubSeq(s, 1, m - 1)
           taken2 == Level(s[m], taken)
<1>1. /\ s \in Seq(Frames) /\ m \in Nat \ {0}
      /\ floor \in Nat /\ limit \in Nat /\ taken \in Nat
  BY DEF Stacked
<1>2. u \in Seq(Frames) /\ Len(u) = m - 1 /\ \A i \in 1 .. m - 1 : u[i] = s[i]
  <2> DEFINE k == m - 1
  <2>1. k \in Nat /\ \A i \in 1 .. k : s[i] \in Frames
    BY <1>1
  <2> HIDE DEF k
  <2>2. /\ SubSeq(s, 1, k) \in Seq(Frames)
        /\ Len(SubSeq(s, 1, k)) = IF 1 <= k THEN k - 1 + 1 ELSE 0
        /\ \A i \in 1 .. k - 1 + 1 : SubSeq(s, 1, k)[i] = s[1 + i - 1]
    <3>1. 1 \in Int /\ k \in Int
      BY <2>1
    <3> QED BY <2>1, <3>1, SubSeqProperties
  <2>3. Len(SubSeq(s, 1, k)) = k /\ \A i \in 1 .. k : SubSeq(s, 1, k)[i] = s[i]
    BY <2>1, <2>2
  <2> QED BY <2>2, <2>3 DEF k
<1>3. taken2 \in Nat /\ taken2 <= limit
  <2>1. Placed(s[m], taken2, limit)
    BY <1>1 DEF Stacked
  <2> QED BY <2>1 DEF Placed
<1>4. taken2 = IF m = 1 THEN floor ELSE Above(s[m - 1])
  <2>1. \A i \in 1 .. m : Level(s[i], taken) = IF i = 1 THEN floor ELSE Above(s[i - 1])
    BY DEF Stacked
  <2>2. m \in 1 .. m
    BY <1>1
  <2> QED BY <2>1, <2>2, Zenon
<1> HIDE DEF u, taken2, m
<1>5. \A i \in 1 .. m - 1 : Splits(s[i]) /\ s[i + 1].res = Part(s[i])
  BY DEF Stacked, m
<1>6. \A i \in 1 .. m - 1 : Level(u[i], taken2) = Level(s[i], taken)
  BY <1>2, <1>5 DEF Level
<1>7. \A i \in 1 .. Len(u) : Placed(u[i], Level(u[i], taken2), limit)
  <2> SUFFICES ASSUME NEW i \in 1 .. m - 1 PROVE Placed(u[i], Level(u[i], taken2), limit)
    BY <1>2
  <2>1. Placed(s[i], Level(s[i], taken), limit)
    BY <1>1 DEF Stacked, m
  <2> QED BY <1>2, <1>6, <2>1
<1>8. \A i \in 1 .. Len(u) - 1 : Splits(u[i]) /\ u[i + 1].res = Part(u[i])
  <2> SUFFICES ASSUME NEW i \in 1 .. m - 2 PROVE Splits(u[i]) /\ u[i + 1].res = Part(u[i])
    BY <1>1, <1>2
  <2>1. i \in 1 .. m - 1 /\ i + 1 \in 1 .. m - 1
    BY <1>1
  <2> QED BY <1>2, <1>5, <2>1
<1>9. \A i \in 1 .. Len(u) :
        Level(u[i], taken2) = IF i = 1 THEN floor ELSE Above(u[i - 1])
  <2> SUFFICES ASSUME NEW i \in 1 .. m - 1
               PROVE  Level(u[i], taken2) = IF i = 1 THEN floor ELSE Above(u[i - 1])
    BY <1>2
  <2>1. Level(s[i], taken) = IF i = 1 THEN floor ELSE Above(s[i - 1])
    BY <1>1 DEF Stacked, m
  <2>2. i # 1 => u[i - 1] = s[i - 1]
    BY <1>1, <1>2
  <2> QED BY <1>6, <2>1, <2>2
<1>10. \A i, j \in 1 .. Len(u) : i < j => Above(u[i]) <= Level(u[j], taken2)
  <2> SUFFICES ASSUME NEW i \in 1 .. m - 1, NEW j \in 1 .. m - 1, i < j
               PROVE  Above(u[i]) <= Level(u[j], taken2)
    BY <1>2
  <2>1. Above(s[i]) <= Level(s[j], taken)
    <3>1. \A k, l \in 1 .. m : k < l => Above(s[k]) <= Level(s[l], taken)
      BY DEF Stacked, m
    <3>2. i \in 1 .. m /\ j \in 1 .. m
      BY <1>1
    <3> QED BY <3>1, <3>2
  <2> QED BY <1>2, <1>6, <2>1
<1>11. taken2 = IF u = <<>> THEN floor
                ELSE IF Splits(u[Len(u)]) THEN Above(u[Len(u)]) ELSE taken2
  <2>1. CASE m = 1
    BY <1>2, <1>4, <2>1, EmptySeq
  <2>2. CASE m # 1
    <3>1. Len(u) \in 1 .. m - 1 /\ u[Len(u)] = s[m - 1] /\ u # <<>>
      BY <1>1, <1>2, <2>2
    <3> QED BY <1>4, <2>2, <3>1
  <2> QED BY <2>1, <2>2
<1>12. u = <<>> => floor <= limit
  <2>1. u = <<>> => m = 1
    BY <1>1, <1>2
  <2> QED BY <1>3, <1>4, <2>1
<1>13. Stacked(u, taken2, floor, limit)
  BY <1>1, <1>2, <1>3, <1>7, <1>8, <1>9, <1>10, <1>11, <1>12 DEF Stacked
<1>14. u = <<>> \/ Part(LastOf(u)) = s[m].res
  <2> SUFFICES ASSUME u # <<>> PROVE Part(u[Len(u)]) = s[m].res
    BY DEF LastOf
  <2>1. m - 1 \in 1 .. m - 1 /\ (m - 1) + 1 = m /\ Len(u) = m - 1
    BY <1>1, <1>2
  <2> QED BY <1>2, <1>5, <2>1
<1> QED BY <1>13, <1>14 DEF u, m, taken2

\* Every invocation stands on the scratch memory, and what is taken is within it.
LEMMA StackBounds ==
  ASSUME NEW s, NEW taken, NEW floor, NEW limit, Stacked(s, taken, floor, limit)
  PROVE  /\ \A i \in 1 .. Len(s) : floor <= Level(s[i], taken)
         /\ taken <= limit
<1>1. s \in Seq(Frames) /\ Len(s) \in Nat /\ floor \in Nat /\ taken \in Nat /\ limit \in Nat
  BY DEF Stacked
<1>2. ASSUME NEW i \in 1 .. Len(s) PROVE floor <= Level(s[i], taken)
  <2>1. 1 \in 1 .. Len(s)
    BY <1>1
  <2>2. Level(s[1], taken) = floor
    BY <2>1 DEF Stacked
  <2>3. CASE i = 1
    BY <1>1, <2>2, <2>3
  <2>4. CASE i # 1
    <3>1. 1 \in 1 .. Len(s) - 1 /\ 1 < i
      BY <1>1, <2>4
    <3>2. Splits(s[1])
      BY <3>1 DEF Stacked
    <3>3. s[1].t = floor
      BY <2>2, <3>2 DEF Level
    <3>4. Above(s[1]) <= Level(s[i], taken)
      <4>1. \A k, l \in 1 .. Len(s) : k < l => Above(s[k]) <= Level(s[l], taken)
        BY DEF Stacked
      <4> QED BY <2>1, <3>1, <4>1
    <3>5. Placed(s[i], Level(s[i], taken), limit)
      BY DEF Stacked
    <3>6. Level(s[i], taken) \in Nat
      BY <3>5 DEF Placed
    <3>7. Taken(s[1].n) \in Nat
      <4>1. s[1] \in Frames
        BY <1>1, <2>1
      <4>2. s[1].n \in Nat
        BY <4>1 DEF Frames
      <4> QED BY <4>2, TakenLimbs
    <3> QED BY <1>1, <3>3, <3>4, <3>6, <3>7 DEF Above
  <2> QED BY <2>3, <2>4
<1>3. taken <= limit
  <2>1. CASE s = <<>>
    BY <2>1 DEF Stacked
  <2>2. CASE s # <<>>
    <3> DEFINE f == s[Len(s)]
    <3>1. Len(s) \in 1 .. Len(s)
      BY <1>1, <2>2
    <3>2. Placed(f, Level(f, taken), limit)
      BY <3>1 DEF Stacked
    <3>3. CASE Splits(f)
      <4>1. taken = Above(f)
        BY <2>2, <3>3 DEF Stacked
      <4> QED BY <3>2, <3>3, <4>1 DEF Placed, Halved
    <3>4. CASE ~Splits(f)
      BY <3>2, <3>4 DEF Placed, Level
    <3> QED BY <3>3, <3>4
  <2> QED BY <2>1, <2>2
<1> QED BY <1>2, <1>3

\* The outermost invocation
LEMMA FirstStacked ==
  ASSUME NEW f, NEW floor, NEW limit, Placed(f, floor, limit), ~Splits(f)
  PROVE  Stacked(<<f>>, floor, floor, limit)
<1>1. f \in Frames /\ floor \in Nat /\ limit \in Nat
  BY DEF Placed
<1> DEFINE s == <<f>>
<1>2. s \in Seq(Frames) /\ Len(s) = 1 /\ s # <<>> /\ s[1] = f
  BY <1>1
<1> HIDE DEF s
<1>3. Level(f, floor) = floor
  BY DEF Level
<1>4. \A i \in 1 .. Len(s) : i = 1
  BY <1>2
<1>5. 1 .. Len(s) - 1 = {}
  BY <1>2
<1>6. \A i, j \in 1 .. Len(s) : ~(i < j)
  BY <1>2
<1> QED BY <1>1, <1>2, <1>3, <1>4, <1>5, <1>6 DEF Stacked, s

----------------------------------------------------------------------------
(* What is read from the memory.                                           *)

\* A const view has at least one limb, and no more than there are.
LEMMA ConstViews ==
  ASSUME NEW m \in Nat, Memory(cells, m), NEW at \in Nat, NEW size \in Nat \ {0},
         at + size <= m
  PROVE  /\ ConstView(at, size) \in Views
         /\ ConstView(at, size).at = at /\ ConstView(at, size).cap = size
         /\ ConstView(at, size).size \in 1 .. size
<1> DEFINE v == View(at, size)
           k == Size(Value(v))
<1>1. v \in Views /\ v.at = at /\ v.size = size
  BY DEF View, Views
<1> HIDE DEF v
<1>2. Value(v) \in Nat /\ Value(v) < Power(size)
  BY <1>1, ValueBounded DEF Value
<1>3. k \in Nat \ {0} /\ k <= size
  BY <1>2, Sizes
<1>4. ConstView(at, size) = [at |-> at, cap |-> size, size |-> k]
  BY DEF ConstView, v
<1> HIDE DEF k
<1>5. k \in 1 .. size /\ k \in Nat
  BY <1>3
<1> QED BY <1>4, <1>5 DEF Views

\* The parts of an operand
LEMMA PartsOfOperand ==
  ASSUME NEW m \in Nat \ {0}, Memory(cells, m), NEW v \in Views, NEW n \in Nat \ {0},
         v.size \in 1 .. 2 * n, v.at + v.size <= m
  PROVE  /\ IsLow(Low(v, n), v, n) /\ IsHigh(High(v, n), v, n)
         /\ Value(Low(v, n)) + Value(High(v, n)) \in Nat
         /\ Size(Value(Low(v, n)) + Value(High(v, n))) \in 1 .. n + 1
<1> DEFINE k == Smaller(v.size, n)
           l == Low(v, n)
           h == High(v, n)
<1>1. v.at \in Nat /\ v.size \in Nat
  BY DEF Views
<1>2. k \in Nat \ {0} /\ k <= n /\ k <= v.size
  BY <1>1 DEF Smaller
<1>3. l = ConstView(v.at, k)
  BY DEF Low
<1>4. IsLow(l, v, n)
  <2> HIDE DEF k, l
  <2>1. v.at + k <= m
    BY <1>1, <1>2
  <2>2. l \in Views /\ l.at = v.at /\ l.cap = k /\ l.size \in 1 .. k
    BY <1>1, <1>2, <1>3, <2>1, ConstViews
  <2> QED BY <2>2 DEF IsLow, k
<1>5. IsHigh(h, v, n)
  <2>1. CASE v.size > n
    <3> DEFINE a == v.at + n
               s == v.size - n
    <3>1. a \in Nat /\ s \in Nat \ {0} /\ a + s <= m
      BY <1>1, <2>1
    <3>2. h = ConstView(a, s)
      BY <2>1 DEF High
    <3> HIDE DEF a, s, h
    <3>3. h \in Views /\ h.at = a /\ h.cap = s /\ h.size \in 1 .. s
      BY <3>1, <3>2, ConstViews
    <3> QED BY <2>1, <3>3 DEF IsHigh, a, s
  <2>2. CASE ~(v.size > n)
    <3>1. zero \in Views /\ zero.size = 1 /\ zero.at = 0
      BY DEF zero, View, Views
    <3>2. Value(zero) = 0
      <4>1. zero.at + zero.size <= m /\ m \in Nat
        BY <3>1
      <4>2. Value(zero) = cells[zero.at]
        BY <3>1, <4>1, ValueBounded DEF Value
      <4> QED BY <3>1, <4>2 DEF Memory
    <3>3. ConstView(0, 1) = zero
      BY <3>2, SizeOfZero DEF ConstView, zero, View
    <3>4. h = zero
      BY <2>2, <3>3 DEF High
    <3> HIDE DEF h
    <3> QED BY <2>2, <3>1, <3>4 DEF IsHigh
  <2> QED BY <2>1, <2>2
<1>6. /\ l \in Views /\ l.at \in Nat /\ l.size \in Nat /\ l.size <= n /\ l.at + l.size <= m
      /\ h \in Views /\ h.at \in Nat /\ h.size \in Nat /\ h.size <= n /\ h.at + h.size <= m
  <2> HIDE DEF l, h, k
  <2>1. l \in Views /\ l.at = v.at /\ l.size \in 1 .. k
    BY <1>4 DEF IsLow, k
  <2>2. l.at \in Nat /\ l.size \in Nat /\ l.size <= n /\ l.at + l.size <= m
    BY <1>1, <1>2, <2>1
  <2>3. CASE v.size > n
    <3>1. h \in Views /\ h.at = v.at + n /\ h.cap = v.size - n /\ h.size \in 1 .. h.cap
      BY <1>5, <2>3 DEF IsHigh
    <3> QED BY <1>1, <2>1, <2>2, <3>1
  <2>4. CASE ~(v.size > n)
    <3>1. h \in Views /\ h.at = 0 /\ h.size = 1
      BY <1>5, <2>4 DEF IsHigh, zero, View
    <3> QED BY <2>1, <2>2, <3>1
  <2> QED BY <2>3, <2>4
<1> HIDE DEF l, h, k
<1>7. Value(l) \in Nat /\ Value(l) < Power(n) /\ Value(h) \in Nat /\ Value(h) < Power(n)
  <2>1. /\ Value(l) \in Nat /\ Value(l) < Power(l.size)
        /\ Value(h) \in Nat /\ Value(h) < Power(h.size)
    BY <1>6, ValueBounded DEF Value
  <2>2. Power(l.size) <= Power(n) /\ Power(h.size) <= Power(n)
    BY <1>6, PowersGrow
  <2>3. Power(l.size) \in Nat /\ Power(h.size) \in Nat /\ Power(n) \in Nat
    BY <1>6, PowerFacts
  <2> QED BY <2>1, <2>2, <2>3
<1> DEFINE x == Value(l)
           y == Value(h)
<1>8. x + y \in Nat /\ x + y < Power(n + 1)
  <2> DEFINE p == Power(n)
  <2>1. p \in Nat /\ Power(n + 1) = Base * p
    BY PowerFacts
  <2>2. x \in Nat /\ y \in Nat /\ x < p /\ y < p
    BY <1>7
  <2> HIDE DEF p, x, y
  <2>3. 2 * p <= Base * p
    BY <2>1, BaseAssumption, Monotone
  <2>4. Base * p \in Nat
    BY <2>1, BaseAssumption, Products
  <2> DEFINE bp == Base * p
  <2> HIDE DEF bp
  <2>5. 2 * p <= bp /\ bp \in Nat /\ Power(n + 1) = bp
    BY <2>1, <2>3, <2>4 DEF bp
  <2> QED BY <2>1, <2>2, <2>5
<1>9. Size(x + y) \in 1 .. n + 1
  <2> DEFINE z == x + y
  <2>1. z \in Nat /\ z < Power(n + 1) /\ n + 1 \in Nat \ {0}
    BY <1>8
  <2> HIDE DEF z
  <2>2. Size(z) \in Nat \ {0} /\ Size(z) <= n + 1
    BY <2>1, Sizes
  <2>3. Size(z) \in 1 .. n + 1
    BY <2>2
  <2> QED BY <2>3 DEF z
<1> QED BY <1>4, <1>5, <1>8, <1>9 DEF l, h, x, y

\* The product of two numbers is not longer than they are together.
LEMMA ProductSize ==
  ASSUME NEW k \in Nat \ {0}, NEW l \in Nat \ {0}, NEW x \in Nat, NEW y \in Nat,
         x < Power(k), y < Power(l)
  PROVE  x * y \in Nat /\ Size(x * y) \in Nat /\ Size(x * y) <= k + l
<1> DEFINE p == Power(k)
           q == Power(l)
           z == x * y
<1>1. p \in Nat \ {0} /\ q \in Nat \ {0} /\ Power(k + l) = p * q
  BY PowerFacts, PowerOfSum
<1>2. z \in Nat
  BY Products
<1>3. x < p /\ y < q
  OBVIOUS
<1> HIDE DEF p, q
<1>4. z <= p * y
  BY <1>1, <1>3, Monotone
<1>5. p * y < p * q
  <2>1. p * (y + 1) <= p * q
    BY <1>1, <1>3, Monotone
  <2>2. p * (y + 1) = p * y + p /\ p * y \in Nat /\ p * q \in Nat
    BY <1>1, Products
  <2> QED BY <1>1, <2>1, <2>2
<1>6. p * y \in Nat /\ p * q \in Nat
  BY <1>1, Products
<1> HIDE DEF z
<1>7. z < Power(k + l)
  BY <1>1, <1>2, <1>4, <1>5, <1>6
<1>8. k + l \in Nat \ {0}
  OBVIOUS
<1>9. Size(z) \in Nat /\ Size(z) <= k + l
  BY <1>2, <1>7, <1>8, Sizes
<1> QED BY <1>2, <1>9 DEF z

\* A product of parts that are not split has room in its part of the result.
LEMMA LeafFits ==
  ASSUME NEW level, NEW limit, Placed(top, level, limit), ~Splits(top), Memory(cells, limit)
  PROVE  /\ Value(top.a) * Value(top.b) \in Nat /\ Size(Value(top.a) * Value(top.b)) \in Nat
         /\ Size(Value(top.a) * Value(top.b)) <= top.res.cap
         /\ LeafLimbs \in Nat /\ LeafLimbs <= top.res.cap
         /\ Size(Value(top.a) * Value(top.b)) <= LeafLimbs
<1> DEFINE f == top
           as == f.a.size
           bs == f.b.size
           cap == f.res.cap
           x == Value(f.a)
           y == Value(f.b)
           product == x * y
<1>1. /\ f \in Frames /\ level \in Nat /\ limit \in Nat /\ level <= limit
      /\ Operand(f.a, f.res, level) /\ Operand(f.b, f.res, level)
      /\ as + bs <= cap \/ (cap >= 2 /\ (f.a = zero \/ f.b = zero))
  BY DEF Placed, Entered
<1>2. f.a \in Views /\ f.b \in Views /\ f.res \in Views
  BY <1>1 DEF Frames
<1>3. ASSUME NEW v \in Views, Operand(v, f.res, level)
      PROVE  v.size \in Nat \ {0} /\ Value(v) \in Nat /\ Value(v) < Power(v.size)
  <2>1. v.at \in Nat /\ v.size \in Nat /\ v.cap \in Nat
    BY <1>3 DEF Views
  <2>2. v.size \in 1 .. v.cap /\ v.at + v.cap <= level
    BY <1>3 DEF Operand
  <2>3. v.at + v.size <= limit /\ v.size \in Nat \ {0}
    BY <1>1, <2>1, <2>2
  <2> QED BY <1>1, <2>3, ValueBounded DEF Value
<1>4. as \in Nat \ {0} /\ bs \in Nat \ {0} /\ cap \in Nat
  BY <1>1, <1>2, <1>3 DEF Views
<1>5. x \in Nat /\ x < Power(as) /\ y \in Nat /\ y < Power(bs)
  BY <1>1, <1>2, <1>3
<1> HIDE DEF f, x, y
<1>6. product \in Nat /\ Size(product) \in Nat /\ Size(product) <= as + bs
  BY <1>4, <1>5, ProductSize
<1>7. f.a = zero => x = 0 /\ as = 1
  <2> SUFFICES ASSUME f.a = zero PROVE x = 0 /\ as = 1
    OBVIOUS
  <2>1. as = 1 /\ f.a.at = 0 /\ f.a.cap = 1
    BY DEF zero, View
  <2>2. f.a.at + as <= limit
    BY <1>1, <1>4, <2>1 DEF Operand
  <2>3. x = cells[0]
    BY <1>1, <1>2, <2>1, <2>2, ValueBounded DEF Value, x, f
  <2> QED BY <2>1, <2>3 DEF Memory
<1>8. f.b = zero => y = 0 /\ bs = 1
  <2> SUFFICES ASSUME f.b = zero PROVE y = 0 /\ bs = 1
    OBVIOUS
  <2>1. bs = 1 /\ f.b.at = 0 /\ f.b.cap = 1
    BY DEF zero, View
  <2>2. f.b.at + bs <= limit
    BY <1>1, <1>4, <2>1 DEF Operand
  <2>3. y = cells[0]
    BY <1>1, <1>2, <2>1, <2>2, ValueBounded DEF Value, y, f
  <2> QED BY <2>1, <2>3 DEF Memory
<1>9. LeafLimbs = IF as = 1 /\ bs = 1 THEN 2
                  ELSE IF as = 1 \/ bs = 1 THEN Size(product) ELSE as + bs
  BY DEF LeafLimbs, f, x, y
<1>10. f.a = zero \/ f.b = zero => Size(product) = 1
  <2> SUFFICES ASSUME f.a = zero \/ f.b = zero PROVE Size(product) = 1
    OBVIOUS
  <2>1. product = 0
    BY <1>5, <1>7, <1>8, Products
  <2> QED BY <2>1, SizeOfZero
<1>11. /\ LeafLimbs \in Nat /\ LeafLimbs <= cap /\ Size(product) <= cap
       /\ Size(product) <= LeafLimbs
  <2> DEFINE size == Size(product)
  <2>1. size \in Nat /\ size <= as + bs /\ (f.a = zero \/ f.b = zero => size = 1)
    BY <1>6, <1>10
  <2>2. LeafLimbs = IF as = 1 /\ bs = 1 THEN 2
                    ELSE IF as = 1 \/ bs = 1 THEN size ELSE as + bs
    BY <1>9
  <2> HIDE DEF size
  <2>3. LeafLimbs \in Nat /\ LeafLimbs <= cap /\ size <= cap /\ size <= LeafLimbs
    <3> HIDE DEF product
    <3>1. CASE as + bs <= cap
      BY <1>4, <2>1, <2>2, <3>1
    <3>2. CASE cap >= 2 /\ (f.a = zero \/ f.b = zero)
      BY <1>4, <1>7, <1>8, <2>1, <2>2, <3>2
    <3> QED BY <1>1, <3>1, <3>2
  <2> QED BY <2>3 DEF size
<1> QED BY <1>6, <1>11 DEF f, x, y

----------------------------------------------------------------------------
(* The program.                                                            *)

\* The limbs that the product takes of the scratch memory
own == IF HasRoom THEN 0 ELSE sz

taken == storage.at + storage.allocated
limit == storage.at + storage.capacity

Started ==
  /\ call.type \in Types /\ call.a \in Nat /\ call.b \in Nat
  /\ Size(call.a) >= karatsuba_cutoff /\ Size(call.b) >= karatsuba_cutoff

\* The inductive invariant: while a multiplication runs, its invocations stand on the
\* scratch memory one on the other, each has the room that it needs, and a product is
\* not longer than the part that it was written to.
Placement ==
  /\ pc \in {"idle", "entered", "running"} => ret \in Nat
  /\ pc \in {"entered", "running"} => Started
  /\ pc = "running" =>
       /\ storage \in [at : Nat \ {0}, capacity : Nat, allocated : Nat]
       /\ Memory(cells, limit)
       /\ Stacked(stack, taken, storage.at + own, limit)
       /\ stack # <<>> /\ Splits(top) => ret <= Part(top).cap

Assumptions ==
  /\ CutoffAssumption /\ TypesAssumption /\ FactorsAssumption /\ karatsuba_cutoff >= 20

\* The numbers of limbs of a call
LEMMA StartedFacts ==
  ASSUME Assumptions, Started
  PROVE  /\ Size(call.a) \in Nat /\ Size(call.b) \in Nat /\ sz \in Nat
         /\ Size(call.a) >= 20 /\ Size(call.b) >= 20
         /\ type.limbs \in Nat /\ ResultLimbs \in Nat /\ own \in Nat
         /\ HasRoom => ResultLimbs = sz
         /\ karatsuba_cutoff \in Nat
<1>1. call.type \in [limbs : Nat, checked : BOOLEAN]
  BY DEF Started, Assumptions, TypesAssumption
<1>2. Size(call.a) \in Nat /\ Size(call.b) \in Nat
  BY Sizes DEF Started
<1>3. karatsuba_cutoff \in Nat /\ karatsuba_cutoff >= 20
  BY DEF Assumptions, CutoffAssumption
<1>4. Size(call.a) >= 20 /\ Size(call.b) >= 20 /\ sz \in Nat
  BY <1>2, <1>3 DEF Started, sz
<1>5. type.limbs \in Nat
  BY <1>1 DEF type
<1> QED BY <1>2, <1>3, <1>4, <1>5 DEF ResultLimbs, own

\* The scratch memory is large enough for the outermost invocation.
LEMMA SetupPlaces ==
  ASSUME Assumptions, Placement, Setup
  PROVE  Placement'
<1>1. Started /\ ret \in Nat /\ pc = "entered"
  BY DEF Placement, Setup
<1>2. CASE type.checked /\ ResultLimbs < sz - 1
  <2>1. pc' = "threw"
    BY <1>2 DEF Setup
  <2> QED BY <2>1 DEF Placement
<1>3. CASE ~(type.checked /\ ResultLimbs < sz - 1)
  <2> DEFINE al == Size(call.a)
             bl == Size(call.b)
             scratch == 1 + sz + ResultLimbs
             longer == Larger(al, bl)
             size == own + 5 * longer
             m == scratch + size
             dirty == [k \in 0 .. scratch + size - 1 |-> IF k = 0 THEN 0 ELSE Base - 1]
             res == IF HasRoom THEN resultView ELSE View(scratch, sz)
             f == Frame(res, aView, bView)
             floor == scratch + own
  <2>1. /\ cells' = Written(Written(dirty, aView.at, call.a, aView.cap),
                            bView.at, call.b, bView.cap)
        /\ storage' = [at |-> scratch, capacity |-> size, allocated |-> own]
        /\ stack' = <<f>>
        /\ pc' = "running" /\ call' = call /\ ret' = ret
    BY <1>3 DEF Setup, own, karatsuba_storage_size
  <2>2. /\ al \in Nat /\ bl \in Nat /\ sz \in Nat /\ al >= 20 /\ bl >= 20 /\ sz = al + bl
        /\ ResultLimbs \in Nat /\ own \in Nat /\ karatsuba_cutoff \in Nat
    BY <1>1, StartedFacts DEF sz
  <2>3. aView = [at |-> 1, cap |-> al, size |-> al]
        /\ bView = [at |-> 1 + al, cap |-> bl, size |-> bl]
    BY DEF aView, bView, View
  <2>4. \/ /\ ResultLimbs = sz /\ own = 0
           /\ res = [at |-> 1 + sz, cap |-> sz, size |-> sz]
        \/ own = sz /\ res = [at |-> scratch, cap |-> sz, size |-> sz]
    <3>1. CASE HasRoom
      BY <1>1, <3>1, StartedFacts, Zenon DEF own, resultView, View
    <3>2. CASE ~HasRoom
      BY <3>2, Zenon DEF own, View
    <3> QED BY <3>1, <3>2
  <2> HIDE DEF al, bl, res
  <2>5. longer \in Nat
    BY <2>2 DEF Larger
  <2> HIDE DEF longer
  <2>6. scratch \in Nat \ {0} /\ size \in Nat /\ floor \in Nat /\ m \in Nat \ {0}
        /\ floor <= m /\ floor + 5 * longer = m
    BY <2>2, <2>5
  <2>7. Memory(cells', m)
    <3>1. Memory(dirty, m)
      <4>1. 0 \in 0 .. m - 1
        BY <2>6
      <4>2. 0 \in 0 .. Base - 1 /\ Base - 1 \in 0 .. Base - 1
        BY BaseAssumption
      <4>3. scratch + size - 1 = m - 1
        BY <2>6
      <4> HIDE DEF scratch, size, m
      <4>4. dirty = [k \in 0 .. m - 1 |-> IF k = 0 THEN 0 ELSE Base - 1]
        BY <4>3
      <4> HIDE DEF dirty
      <4> QED BY <4>1, <4>2, <4>4 DEF Memory
    <3>2. /\ aView.at \in Nat \ {0} /\ aView.cap \in Int
          /\ bView.at \in Nat \ {0} /\ bView.cap \in Int
      BY <2>2, <2>3
    <3>3. call.a \in Int /\ call.b \in Int
      BY <1>1 DEF Started
    <3> DEFINE first == Written(dirty, aView.at, call.a, aView.cap)
    <3> HIDE DEF dirty, m
    <3>4. Memory(first, m)
      BY <2>6, <3>1, <3>2, <3>3, WrittenMemory
    <3> HIDE DEF first
    <3>5. Memory(Written(first, bView.at, call.b, bView.cap), m)
      BY <2>6, <3>2, <3>3, <3>4, WrittenMemory
    <3> QED BY <2>1, <3>5 DEF first
  <2>8. aView \in Views /\ bView \in Views /\ res \in Views
    <3>1. \A x, y, z \in Nat : [at |-> x, cap |-> y, size |-> z] \in Views
      BY DEF Views
    <3>2. 1 \in Nat /\ 1 + al \in Nat /\ 1 + sz \in Nat
      BY <2>2
    <3> QED BY <2>2, <2>3, <2>4, <2>6, <3>1, <3>2
  <2>9. /\ f \in Frames /\ f.res = res /\ f.a = aView /\ f.b = bView /\ f.step = "enter"
    BY <2>8 DEF Frame, Frames
  <2>10. ~Splits(f)
    BY <2>9 DEF Splits
  <2>11. /\ res.at \in Nat /\ res.at >= 1 + sz /\ res.size = res.cap /\ res.cap = sz
         /\ res.at + res.cap <= floor
    BY <2>2, <2>4, <2>6
  <2>12. Operand(aView, res, floor) /\ Operand(bView, res, floor)
    BY <2>2, <2>3, <2>6, <2>11 DEF Operand, Apart
  <2> HIDE DEF f
  <2>13. Longer(f) = longer
    BY <2>3, <2>9 DEF Longer, longer
  <2>14. f.a.size + f.b.size <= f.res.cap
    BY <2>2, <2>3, <2>9, <2>11
  <2>15. Entered(f, floor, m)
    <3> HIDE DEF floor, m
    <3> QED BY <2>6, <2>13, <2>14 DEF Entered
  <2>16. Placed(f, floor, m)
    <3> HIDE DEF floor, m
    <3> QED BY <2>2, <2>6, <2>9, <2>10, <2>11, <2>12, <2>15 DEF Placed
  <2>17. Stacked(stack', floor, floor, m)
    BY <2>1, <2>10, <2>16, FirstStacked
  <2>18. storage'.at = scratch /\ limit' = m /\ taken' = floor
    BY <2>1 DEF limit, taken
  <2>19. own' = own /\ Started'
    BY <1>1, <2>1 DEF own, HasRoom, sz, type, Started
  <2>20. storage' \in [at : Nat \ {0}, capacity : Nat, allocated : Nat]
    <3> HIDE DEF scratch, size
    <3> QED BY <2>1, <2>2, <2>6
  <2>21. (storage.at + own)' = floor
    BY <2>18, <2>19
  <2>22. ~Splits(top')
    <3>1. top' = f
      <4>1. stack' = <<f>>
        BY <2>1
      <4> QED BY <4>1 DEF top
    <3> QED BY <2>10, <3>1
  <2> HIDE DEF floor, m
  <2> QED BY <1>1, <2>1, <2>7, <2>17, <2>18, <2>19, <2>20, <2>21, <2>22 DEF Placement
<1> QED BY <1>2, <1>3

\* What runs, seen from the invocation that is about to take a step
LEMMA RunningFacts ==
  ASSUME Assumptions, Placement, pc = "running", stack # <<>>
  PROVE  /\ Started /\ ret \in Nat /\ karatsuba_cutoff \in Nat /\ own \in Nat
         /\ storage \in [at : Nat \ {0}, capacity : Nat, allocated : Nat]
         /\ storage.at \in Nat /\ storage.capacity \in Nat /\ storage.allocated \in Nat
         /\ limit \in Nat \ {0} /\ taken \in Nat /\ Memory(cells, limit)
         /\ Stacked(stack, taken, storage.at + own, limit)
         /\ stack \in Seq(Frames) /\ Len(stack) \in Nat \ {0}
         /\ top \in Frames /\ Placed(top, Level(top, taken), limit)
         /\ Splits(top) => taken = Above(top) /\ ret <= Part(top).cap
<1>1. /\ Started /\ ret \in Nat /\ Memory(cells, limit)
      /\ storage \in [at : Nat \ {0}, capacity : Nat, allocated : Nat]
      /\ Stacked(stack, taken, storage.at + own, limit)
  BY DEF Placement
<1>2. /\ storage.at \in Nat /\ storage.capacity \in Nat /\ storage.allocated \in Nat
      /\ storage.at # 0
  BY <1>1
<1>3. limit \in Nat \ {0} /\ taken \in Nat
  BY <1>2 DEF limit, taken
<1>4. stack \in Seq(Frames)
  BY <1>1 DEF Stacked
<1>5. Len(stack) \in Nat \ {0}
  BY <1>4
<1>6. Len(stack) \in 1 .. Len(stack)
  BY <1>5
<1>7. Placed(top, Level(top, taken), limit)
  BY <1>1, <1>6 DEF Stacked, top
<1>8. top \in Frames
  BY <1>7 DEF Placed
<1>9. Splits(top) => taken = Above(top) /\ ret <= Part(top).cap
  <2>1. Splits(top) => taken = Above(top)
    BY <1>1 DEF Stacked, top
  <2> QED BY <2>1 DEF Placement
<1>10. karatsuba_cutoff \in Nat /\ own \in Nat
  BY <1>1, StartedFacts
<1> QED BY <1>1, <1>2, <1>3, <1>4, <1>5, <1>7, <1>8, <1>9, <1>10

\* A step within the recursion keeps the placement if the memory and the invocations
\* remain in order.
LEMMA StepPlaces ==
  ASSUME Assumptions, Placement, pc = "running", stack # <<>>,
         pc' = pc, call' = call, ret' \in Nat,
         storage' \in [at : {storage.at}, capacity : {storage.capacity}, allocated : Nat],
         Memory(cells', limit),
         Stacked(stack', taken', storage.at + own, limit),
         stack' # <<>> /\ Splits(top') => ret' <= Part(top').cap
  PROVE  Placement'
<1>1. Started /\ storage.at \in Nat \ {0} /\ storage.capacity \in Nat
  BY RunningFacts
<1>2. storage'.at = storage.at /\ storage'.capacity = storage.capacity
  OBVIOUS
<1>3. limit' = limit
  BY <1>2 DEF limit
<1>4. own' = own /\ Started'
  BY <1>1 DEF own, HasRoom, sz, type, Started
<1>5. storage' \in [at : Nat \ {0}, capacity : Nat, allocated : Nat]
  BY <1>1
<1>6. Stacked(stack', taken', (storage.at + own)', limit')
  BY <1>2, <1>3, <1>4
<1>7. (stack # <<>> /\ Splits(top) => ret <= Part(top).cap)'
  OBVIOUS
<1> QED BY <1>3, <1>4, <1>5, <1>6, <1>7 DEF Placement

\* A part is multiplied, and the scratch memory is as it was.
LEMMA LeafPlaces ==
  ASSUME Assumptions, Placement, Leaf
  PROVE  Placement'
<1> DEFINE product == Value(top.a) * Value(top.b)
<1>1. /\ pc = "running" /\ stack # <<>> /\ top.step = "enter"
      /\ cells' = Written(cells, top.res.at, product, LeafLimbs)
      /\ stack' = SubSeq(stack, 1, Len(stack) - 1) /\ ret' = Size(product)
      /\ call' = call /\ storage' = storage /\ pc' = pc
  BY DEF Leaf, Running, Ascend
<1>2. ~Splits(top)
  BY <1>1 DEF Splits
<1>3. Level(top, taken) = taken
  BY <1>2 DEF Level
<1>4. /\ limit \in Nat \ {0} /\ taken \in Nat /\ Memory(cells, limit)
      /\ Placed(top, taken, limit) /\ Stacked(stack, taken, storage.at + own, limit)
      /\ storage \in [at : Nat \ {0}, capacity : Nat, allocated : Nat]
  BY <1>1, <1>3, RunningFacts
<1>5. /\ product \in Nat /\ Size(product) \in Nat /\ LeafLimbs \in Nat
      /\ Size(product) <= top.res.cap
  BY <1>2, <1>4, LeafFits
<1>6. top.res.at \in Nat \ {0}
  <2>1. top.res \in Views /\ top.res.at >= 1
    BY <1>4 DEF Placed, Frames
  <2> QED BY <2>1 DEF Views
<1> HIDE DEF product
<1>7. Memory(cells', limit)
  BY <1>1, <1>4, <1>5, <1>6, WrittenMemory
<1>8. /\ Stacked(stack', taken, storage.at + own, limit)
      /\ stack' # <<>> => Part(top') = top.res
  <2>1. Level(stack[Len(stack)], taken) = taken
    BY <1>3 DEF top
  <2> DEFINE rest == SubSeq(stack, 1, Len(stack) - 1)
  <2>2. /\ Stacked(rest, taken, storage.at + own, limit)
        /\ rest = <<>> \/ Part(LastOf(rest)) = stack[Len(stack)].res
    BY <1>1, <1>4, <2>1, Popped
  <2> HIDE DEF rest
  <2>3. stack' = rest
    BY <1>1 DEF rest
  <2> QED BY <2>2, <2>3 DEF top, LastOf
<1>9. taken' = taken
  BY <1>1 DEF taken
<1>10. storage' \in [at : {storage.at}, capacity : {storage.capacity}, allocated : Nat]
  BY <1>1, <1>4
<1>11. stack' # <<>> /\ Splits(top') => ret' <= Part(top').cap
  BY <1>1, <1>5, <1>8
<1> QED BY <1>1, <1>5, <1>7, <1>8, <1>9, <1>10, <1>11, StepPlaces

\* An invocation takes its temporaries, and the product of the low parts begins.
LEMMA SplitPlaces ==
  ASSUME Assumptions, Placement, Split
  PROVE  Placement'
<1> DEFINE f == [top EXCEPT !.step = "low", !.n = half, !.t = storage.at + storage.allocated]
           g == Frame(result_low(f), Low(f.a, f.n), Low(f.b, f.n))
<1>1. /\ pc = "running" /\ stack # <<>> /\ top.step = "enter"
      /\ storage' = [storage EXCEPT !.allocated = @ + Taken(f.n)]
      /\ stack' = Append([stack EXCEPT ![Len(stack)] = f], g)
      /\ call' = call /\ cells' = cells /\ ret' = ret /\ pc' = pc
      /\ ~(top.a.size < karatsuba_cutoff) /\ ~(top.b.size < karatsuba_cutoff)
  BY DEF Split, Running, Descend, TooShort
<1>2. ~Splits(top)
  BY <1>1 DEF Splits
<1>3. Level(top, taken) = taken
  BY <1>2 DEF Level
<1>4. /\ limit \in Nat \ {0} /\ taken \in Nat /\ Memory(cells, limit) /\ ret \in Nat
      /\ Placed(top, taken, limit) /\ Stacked(stack, taken, storage.at + own, limit)
      /\ storage \in [at : Nat \ {0}, capacity : Nat, allocated : Nat]
      /\ storage.at \in Nat /\ storage.allocated \in Nat
      /\ top \in Frames /\ karatsuba_cutoff \in Nat
  BY <1>1, <1>3, RunningFacts
<1>5. top.a.size >= karatsuba_cutoff /\ top.b.size >= karatsuba_cutoff
      /\ karatsuba_cutoff >= 20
  <2> DEFINE x == top.a.size
             y == top.b.size
  <2>1. x \in Nat /\ y \in Nat
    BY <1>4 DEF Frames, Views
  <2>2. ~(x < karatsuba_cutoff) /\ ~(y < karatsuba_cutoff) /\ karatsuba_cutoff \in Nat
    BY <1>1, <1>4
  <2>3. karatsuba_cutoff >= 20
    BY DEF Assumptions
  <2> HIDE DEF x, y
  <2>4. \A k, l \in Nat : ~(k < l) => k >= l
    OBVIOUS
  <2>5. x >= karatsuba_cutoff /\ y >= karatsuba_cutoff
    BY <2>1, <2>2, <2>4, Zenon
  <2> QED BY <2>3, <2>5 DEF x, y
<1>6. f = [top EXCEPT !.step = "low", !.n = (Longer(top) \div 2) + 1, !.t = taken]
  BY DEF half, Longer, taken
<1>7. f.t = taken
  BY <1>4, <1>6 DEF Frames
<1> HIDE DEF f
<1>8. Placed(f, f.t, limit) /\ Splits(f)
  BY <1>2, <1>4, <1>5, <1>6, <1>7, SplitPlaced
<1>9. /\ f.n \in Nat \ {0} /\ f.t \in Nat /\ Above(f) \in Nat
      /\ \A v \in {f.a, f.b} :
           v \in Views /\ v.size \in 1 .. 2 * f.n /\ v.at + v.size <= limit
  <2>1. f.n \in Nat /\ f.n >= 10 /\ f.t \in Nat /\ Above(f) = f.t + 4 * f.n + 4
        /\ Above(f) <= limit
    BY <1>8, PlacedFacts
  <2>2. ASSUME NEW v \in {f.a, f.b}
        PROVE  v \in Views /\ v.size \in 1 .. 2 * f.n /\ v.at + v.size <= limit
    <3>1. /\ v \in Views /\ v.at \in Nat /\ v.cap \in Nat /\ v.size \in 20 .. 2 * f.n
          /\ v.size <= v.cap /\ v.at + v.cap <= f.t
      BY <1>8, <2>2, PlacedFacts
    <3> QED BY <1>4, <2>1, <3>1
  <2> QED BY <2>1, <2>2
<1>10. IsLow(Low(f.a, f.n), f.a, f.n) /\ IsLow(Low(f.b, f.n), f.b, f.n)
  BY <1>4, <1>9, PartsOfOperand
<1>11. Placed(g, Above(f), limit) /\ ~Splits(g)
  BY <1>4, <1>8, <1>10, LowPlaced
<1> HIDE DEF g
<1>12. f.t = Level(stack[Len(stack)], taken)
  BY <1>3, <1>7 DEF top
<1>13. Stacked(stack', Above(f), storage.at + own, limit) /\ ~Splits(top')
  <2>1. f.step = "low" /\ f.res = top.res
    BY <1>4, <1>6 DEF Frames
  <2>2. g.res = Part(f) /\ f.res = stack[Len(stack)].res
    BY <2>1 DEF Part, g, Frame, top
  <2> DEFINE more == Append([stack EXCEPT ![Len(stack)] = f], g)
  <2>3. Stacked(more, Above(f), storage.at + own, limit) /\ LastOf(more) = g
    BY <1>1, <1>4, <1>8, <1>11, <1>12, <2>2, Pushed
  <2> HIDE DEF more
  <2>4. stack' = more
    BY <1>1 DEF more
  <2> QED BY <1>11, <2>3, <2>4 DEF top, LastOf
<1>14. Taken(f.n) \in Nat
  BY <1>9, TakenLimbs
<1>15. storage' \in [at : {storage.at}, capacity : {storage.capacity}, allocated : Nat]
       /\ storage'.at = storage.at /\ storage'.allocated = storage.allocated + Taken(f.n)
  BY <1>1, <1>4, <1>14
<1>16. taken' = Above(f)
  <2>1. \A x, y, z \in Nat : x + (y + z) = (x + y) + z
    OBVIOUS
  <2>2. storage.at + (storage.allocated + Taken(f.n)) = taken + Taken(f.n)
    BY <1>4, <1>14, <2>1 DEF taken
  <2>3. taken' = storage.at + (storage.allocated + Taken(f.n))
    BY <1>15 DEF taken
  <2> QED BY <1>7, <2>2, <2>3 DEF Above
<1> QED BY <1>1, <1>4, <1>13, <1>15, <1>16, StepPlaces

\* What an invocation that has split its operands knows of them and of the memory
LEMMA SplitFacts ==
  ASSUME Assumptions, Placement, pc = "running", stack # <<>>, Splits(top)
  PROVE  /\ limit \in Nat \ {0} /\ Memory(cells, limit) /\ ret \in Nat /\ taken = Above(top)
         /\ storage \in [at : Nat \ {0}, capacity : Nat, allocated : Nat]
         /\ Stacked(stack, taken, storage.at + own, limit) /\ karatsuba_cutoff \in Nat
         /\ Placed(top, top.t, limit) /\ top.t = Level(stack[Len(stack)], taken)
         /\ top \in Frames /\ top.n \in Nat \ {0} /\ top.t \in Nat \ {0}
         /\ top.res.at \in Nat \ {0} /\ top.res.cap \in Nat /\ top.res \in Views
         /\ top.res.size = top.res.cap /\ top.res.at + top.res.cap <= top.t
         /\ 2 * top.n + 2 <= top.res.cap /\ Above(top) = top.t + 4 * top.n + 4
         /\ Above(top) <= limit /\ ret <= Part(top).cap
         /\ \A v \in {top.a, top.b} :
              v \in Views /\ v.size \in 1 .. 2 * top.n /\ v.at + v.size <= limit
<1>1. /\ limit \in Nat \ {0} /\ Memory(cells, limit) /\ ret \in Nat
      /\ storage \in [at : Nat \ {0}, capacity : Nat, allocated : Nat]
      /\ Stacked(stack, taken, storage.at + own, limit) /\ karatsuba_cutoff \in Nat
      /\ Placed(top, Level(top, taken), limit) /\ taken = Above(top)
      /\ ret <= Part(top).cap
  BY RunningFacts
<1>2. Level(top, taken) = top.t
  BY DEF Level
<1>3. Placed(top, top.t, limit) /\ top.t = Level(stack[Len(stack)], taken)
  BY <1>1, <1>2 DEF top
<1>4. /\ top \in Frames /\ top.n \in Nat /\ top.n >= 10 /\ top.t \in Nat
      /\ top.res.at \in Nat \ {0} /\ top.res.cap \in Nat /\ top.res \in Views
      /\ top.res.size = top.res.cap /\ top.res.at + top.res.cap <= top.t
      /\ 2 * top.n + 2 <= top.res.cap /\ Above(top) = top.t + 4 * top.n + 4
      /\ Above(top) <= limit
  BY <1>3, PlacedFacts
<1>5. ASSUME NEW v \in {top.a, top.b}
      PROVE  v \in Views /\ v.size \in 1 .. 2 * top.n /\ v.at + v.size <= limit
  <2>1. /\ v \in Views /\ v.at \in Nat /\ v.cap \in Nat /\ v.size \in 20 .. 2 * top.n
        /\ v.size <= v.cap /\ v.at + v.cap <= top.t
    BY <1>3, <1>5, PlacedFacts
  <2>2. limit \in Nat /\ top.n \in Nat /\ top.t \in Nat /\ Above(top) = top.t + 4 * top.n + 4
        /\ Above(top) <= limit
    BY <1>1, <1>4
  <2>3. v.size \in 1 .. 2 * top.n
    BY <2>1, <2>2
  <2>4. v.at + v.size <= limit
    <3> DEFINE at == v.at
               size == v.size
               cap == v.cap
               t == top.t
    <3>1. at \in Nat /\ cap \in Nat /\ size \in Nat /\ size <= cap /\ at + cap <= t
      BY <2>1, <2>3
    <3>2. t <= limit /\ t \in Nat /\ limit \in Nat
      BY <2>2
    <3> HIDE DEF at, size, cap, t
    <3>3. at + size <= limit
      BY <3>1, <3>2
    <3> QED BY <3>3 DEF at, size
  <2> QED BY <2>1, <2>3, <2>4
<1>6. top.n \in Nat \ {0} /\ top.t \in Nat \ {0}
  <2>1. /\ top.n \in Nat /\ top.n >= 10 /\ top.t \in Nat /\ top.res.at \in Nat \ {0}
        /\ top.res.cap \in Nat /\ top.res.at + top.res.cap <= top.t
    BY <1>4
  <2> QED BY <2>1
<1> QED BY <1>1, <1>3, <1>4, <1>5, <1>6

\* It does not move.
LEMMA StaysPlaced ==
  ASSUME NEW f, NEW bound, Placed(f, f.t, bound), Splits(f), NEW g \in Frames,
         g.res = f.res, g.a = f.a, g.b = f.b, g.n = f.n, g.t = f.t, Splits(g),
         g.step \in {"high", "middle"} => g.low <= 2 * g.n,
         g.step = "middle" => g.high <= g.res.cap - 2 * g.n
  PROVE  Placed(g, g.t, bound) /\ Above(g) = Above(f)
<1>1. Above(g) = Above(f)
  BY DEF Above
<1>2. Halved(g, bound)
  BY <1>1 DEF Placed, Halved
<1> QED BY <1>1, <1>2 DEF Placed

\* The product of the high parts begins.
LEMMA LowDonePlaces ==
  ASSUME Assumptions, Placement, LowDone
  PROVE  Placement'
<1> DEFINE f == [top EXCEPT !.step = "high", !.low = ret]
           g == Frame(result_high(f), High(f.a, f.n), High(f.b, f.n))
           low == result_low(top)
<1>1. /\ pc = "running" /\ stack # <<>> /\ top.step = "low"
      /\ stack' = Append([stack EXCEPT ![Len(stack)] = f], g)
      /\ cells' = Written(cells, low.at + ret, 0, low.cap - ret)
      /\ call' = call /\ storage' = storage /\ ret' = ret /\ pc' = pc
  BY DEF LowDone, Running, Descend, cleared
<1>2. Splits(top)
  BY <1>1 DEF Splits
<1>3. /\ limit \in Nat \ {0} /\ Memory(cells, limit) /\ ret \in Nat /\ taken = Above(top)
      /\ storage \in [at : Nat \ {0}, capacity : Nat, allocated : Nat]
      /\ Stacked(stack, taken, storage.at + own, limit) /\ karatsuba_cutoff \in Nat
      /\ Placed(top, top.t, limit) /\ top.t = Level(stack[Len(stack)], taken)
      /\ top \in Frames /\ top.n \in Nat \ {0}
      /\ top.res.at \in Nat \ {0} /\ ret <= Part(top).cap
      /\ \A v \in {top.a, top.b} :
           v \in Views /\ v.size \in 1 .. 2 * top.n /\ v.at + v.size <= limit
  BY <1>1, <1>2, SplitFacts
<1>4. /\ f \in Frames /\ f.res = top.res /\ f.a = top.a /\ f.b = top.b /\ f.n = top.n
      /\ f.t = top.t /\ f.step = "high" /\ f.low = ret
  BY <1>3 DEF Frames
<1> HIDE DEF f
<1>5. Splits(f)
  BY <1>4 DEF Splits
<1>6. Placed(f, f.t, limit) /\ Above(f) = Above(top)
  <2>1. f.low <= 2 * f.n
    <3>1. Part(top) = low
      BY <1>1 DEF Part
    <3>2. low.cap = 2 * top.n
      BY DEF result_low, View
    <3> QED BY <1>3, <1>4, <3>1, <3>2
  <2>2. f.step # "middle"
    BY <1>4
  <2> QED BY <1>2, <1>3, <1>4, <1>5, <2>1, <2>2, StaysPlaced
<1>7. IsHigh(High(f.a, f.n), f.a, f.n) /\ IsHigh(High(f.b, f.n), f.b, f.n)
  BY <1>3, <1>4, PartsOfOperand
<1>8. Placed(g, Above(f), limit) /\ ~Splits(g)
  BY <1>3, <1>5, <1>6, <1>7, HighPlaced
<1> HIDE DEF g
<1>9. Stacked(stack', Above(f), storage.at + own, limit) /\ ~Splits(top')
  <2>1. g.res = Part(f) /\ f.res = stack[Len(stack)].res
    BY <1>4 DEF Part, g, Frame, top
  <2> DEFINE more == Append([stack EXCEPT ![Len(stack)] = f], g)
  <2>2. Stacked(more, Above(f), storage.at + own, limit) /\ LastOf(more) = g
    <3>1. f.t = Level(stack[Len(stack)], taken) /\ stack # <<>>
      BY <1>1, <1>3, <1>4
    <3>2. Stacked(stack, taken, storage.at + own, limit)
      BY <1>3
    <3> QED BY <1>5, <1>6, <1>8, <2>1, <3>1, <3>2, Pushed
  <2> HIDE DEF more
  <2>3. stack' = more
    BY <1>1 DEF more
  <2> QED BY <1>8, <2>2, <2>3 DEF top, LastOf
<1>10. taken' = Above(f)
  BY <1>1, <1>3, <1>6 DEF taken
<1>11. Memory(cells', limit)
  <2>1. ret \in Nat /\ top.n \in Nat /\ top.res.at \in Nat \ {0}
    BY <1>3
  <2>2. low.at = top.res.at /\ low.cap = 2 * top.n
    BY DEF result_low, View
  <2> HIDE DEF low
  <2>3. low.at + ret \in Nat \ {0} /\ low.cap - ret \in Int
    BY <2>1, <2>2
  <2>4. Memory(cells, limit) /\ limit \in Nat \ {0} /\ 0 \in Int
    BY <1>3
  <2>5. Memory(Written(cells, low.at + ret, 0, low.cap - ret), limit)
    BY <2>3, <2>4, WrittenMemory
  <2> QED BY <1>1, <2>5
<1>12. storage' \in [at : {storage.at}, capacity : {storage.capacity}, allocated : Nat]
  BY <1>1, <1>3
<1> QED BY <1>1, <1>3, <1>9, <1>10, <1>11, <1>12, StepPlaces

\* The product of the sums begins.
LEMMA HighDonePlaces ==
  ASSUME Assumptions, Placement, HighDone
  PROVE  Placement'
<1> DEFINE f == [top EXCEPT !.step = "middle", !.high = ret]
           x == Value(Low(f.a, f.n)) + Value(High(f.a, f.n))
           y == Value(Low(f.b, f.n)) + Value(High(f.b, f.n))
           k == Size(x)
           l == Size(y)
           a == [t2(f) EXCEPT !.size = k]
           b == [t3(f) EXCEPT !.size = l]
           g == Frame(t1(f), a, b)
           high == result_high(top)
           c1 == Written(cells, high.at + ret, 0, high.cap - ret)
           c2 == Written(c1, t2(f).at, x, k)
           c3 == Written(c2, t3(f).at, y, l)
<1>1. /\ pc = "running" /\ stack # <<>> /\ top.step = "high"
      /\ stack' = Append([stack EXCEPT ![Len(stack)] = f], g)
      /\ cells' = c3
      /\ call' = call /\ storage' = storage /\ ret' = ret /\ pc' = pc
  BY DEF HighDone, Running, Descend, cleared
<1>2. Splits(top)
  BY <1>1 DEF Splits
<1>3. /\ limit \in Nat \ {0} /\ Memory(cells, limit) /\ ret \in Nat /\ taken = Above(top)
      /\ storage \in [at : Nat \ {0}, capacity : Nat, allocated : Nat]
      /\ Stacked(stack, taken, storage.at + own, limit) /\ karatsuba_cutoff \in Nat
      /\ Placed(top, top.t, limit) /\ top.t = Level(stack[Len(stack)], taken)
      /\ top \in Frames /\ top.n \in Nat \ {0} /\ top.t \in Nat \ {0}
      /\ top.res.at \in Nat \ {0} /\ top.res.cap \in Nat /\ top.res.size = top.res.cap
      /\ ret <= Part(top).cap
      /\ \A v \in {top.a, top.b} :
           v \in Views /\ v.size \in 1 .. 2 * top.n /\ v.at + v.size <= limit
  BY <1>1, <1>2, SplitFacts
<1>4. /\ f \in Frames /\ f.res = top.res /\ f.a = top.a /\ f.b = top.b /\ f.n = top.n
      /\ f.t = top.t /\ f.step = "middle" /\ f.high = ret /\ f.low = top.low
  BY <1>3 DEF Frames
<1> HIDE DEF f
<1>5. Splits(f)
  BY <1>4 DEF Splits
<1>6. Placed(f, f.t, limit) /\ Above(f) = Above(top)
  <2>1. f.low <= 2 * f.n
    <3>1. Halved(top, limit)
      BY <1>2, <1>3 DEF Placed
    <3>2. top.low <= 2 * top.n
      BY <1>1, <3>1 DEF Halved
    <3> QED BY <1>4, <3>2
  <2>2. f.high <= f.res.cap - 2 * f.n
    <3>1. Part(top) = high
      BY <1>1 DEF Part
    <3>2. high.cap = top.res.size - 2 * top.n
      BY DEF result_high, View
    <3> QED BY <1>3, <1>4, <3>1, <3>2
  <2> QED BY <1>2, <1>3, <1>4, <1>5, <2>1, <2>2, StaysPlaced
<1>7. x \in Nat /\ y \in Nat /\ k \in 1 .. f.n + 1 /\ l \in 1 .. f.n + 1
  BY <1>3, <1>4, PartsOfOperand
<1> HIDE DEF x, y, k, l
<1>8. Placed(g, Above(f), limit) /\ ~Splits(g)
  BY <1>3, <1>5, <1>6, <1>7, MiddlePlaced
<1> HIDE DEF g
<1>9. Stacked(stack', Above(f), storage.at + own, limit) /\ ~Splits(top')
  <2>1. g.res = Part(f) /\ f.res = stack[Len(stack)].res
    BY <1>4 DEF Part, g, Frame, top
  <2> DEFINE more == Append([stack EXCEPT ![Len(stack)] = f], g)
  <2>2. Stacked(more, Above(f), storage.at + own, limit) /\ LastOf(more) = g
    <3>1. f.t = Level(stack[Len(stack)], taken) /\ stack # <<>>
      BY <1>1, <1>3, <1>4
    <3>2. Stacked(stack, taken, storage.at + own, limit)
      BY <1>3
    <3> QED BY <1>5, <1>6, <1>8, <2>1, <3>1, <3>2, Pushed
  <2> HIDE DEF more
  <2>3. stack' = more
    BY <1>1 DEF more
  <2> QED BY <1>8, <2>2, <2>3 DEF top, LastOf
<1>10. taken' = Above(f)
  BY <1>1, <1>3, <1>6 DEF taken
<1>11. Memory(cells', limit)
  <2>1. /\ ret \in Nat /\ f.n \in Nat /\ f.t \in Nat \ {0} /\ top.n \in Nat
        /\ top.res.at \in Nat \ {0} /\ top.res.size \in Int
    BY <1>3, <1>4
  <2>2. high.at = top.res.at + 2 * top.n /\ high.cap = top.res.size - 2 * top.n
    BY DEF result_high, View
  <2>3. temporaries(f.n)[1] = 2 * f.n + 2 /\ temporaries(f.n)[2] = f.n + 1
    BY <2>1, TakenLimbs
  <2>4. t2(f).at = f.t + (2 * f.n + 2) /\ t3(f).at = f.t + (2 * f.n + 2) + (f.n + 1)
    BY <2>3 DEF t2, t3, View
  <2> HIDE DEF high, c1, c2, c3
  <2>5. high.at + ret \in Nat \ {0} /\ high.cap - ret \in Int
    BY <2>1, <2>2
  <2>6. t2(f).at \in Nat \ {0} /\ t3(f).at \in Nat \ {0}
    BY <2>1, <2>4
  <2>7. k \in Int /\ l \in Int /\ x \in Int /\ y \in Int /\ 0 \in Int
    BY <1>7
  <2>8. Memory(cells, limit) /\ limit \in Nat \ {0}
    BY <1>3
  <2>9. Memory(c1, limit)
    BY <2>5, <2>7, <2>8, WrittenMemory DEF c1
  <2>10. Memory(c2, limit)
    BY <2>6, <2>7, <2>8, <2>9, WrittenMemory DEF c2
  <2>11. Memory(c3, limit)
    BY <2>6, <2>7, <2>8, <2>10, WrittenMemory DEF c3
  <2> QED BY <1>1, <2>11
<1>12. storage' \in [at : {storage.at}, capacity : {storage.capacity}, allocated : Nat]
  BY <1>1, <1>3
<1> QED BY <1>1, <1>3, <1>9, <1>10, <1>11, <1>12, StepPlaces

\* The temporaries are given back, and what the invocation has written is its result.
LEMMA CombinePlaces ==
  ASSUME Assumptions, Placement, Combine
  PROVE  Placement'
<1> DEFINE f == top
           high == [result_high(f) EXCEPT !.size = f.high]
           low == [result_low(f) EXCEPT !.size = f.low]
           middle == Value([t1(f) EXCEPT !.size = ret]) - Value(high) - Value(low)
           result_alias == View(f.res.at + f.n, f.res.size - f.n)
           c1 == Written(cells, t1(f).at, middle, ret)
           sum == Value(result_alias) + middle
           new == Written(c1, result_alias.at, sum, result_alias.size)
<1>1. /\ pc = "running" /\ stack # <<>> /\ top.step = "middle"
      /\ cells' = new
      /\ storage' = [storage EXCEPT !.allocated = @ - givenBack(f.n)]
      /\ stack' = SubSeq(stack, 1, Len(stack) - 1) /\ ret' = Size(ValueIn(new, f.res))
      /\ call' = call /\ pc' = pc
  BY DEF Combine, Running, Ascend
<1>2. Splits(top)
  BY <1>1 DEF Splits
<1>3. /\ limit \in Nat \ {0} /\ Memory(cells, limit) /\ ret \in Nat /\ taken = Above(top)
      /\ storage \in [at : Nat \ {0}, capacity : Nat, allocated : Nat]
      /\ Stacked(stack, taken, storage.at + own, limit)
      /\ Placed(top, top.t, limit) /\ top.t = Level(stack[Len(stack)], taken)
      /\ top \in Frames /\ top.n \in Nat \ {0} /\ top.t \in Nat \ {0}
      /\ top.res.at \in Nat \ {0} /\ top.res.cap \in Nat /\ top.res \in Views
      /\ top.res.size = top.res.cap /\ top.res.at + top.res.cap <= top.t
      /\ 2 * top.n + 2 <= top.res.cap /\ Above(top) = top.t + 4 * top.n + 4
      /\ Above(top) <= limit /\ ret <= Part(top).cap
  BY <1>1, <1>2, SplitFacts
<1> DEFINE n == top.n
           tt == top.t
           at == top.res.at
           cap == top.res.cap
<1>4. /\ n \in Nat \ {0} /\ tt \in Nat \ {0} /\ at \in Nat \ {0} /\ cap \in Nat \ {0}
      /\ ret \in Nat /\ limit \in Nat \ {0} /\ top.res.size = cap
      /\ at + cap <= tt /\ 2 * n + 2 <= cap /\ tt + 4 * n + 4 <= limit
  <2>1. /\ n \in Nat \ {0} /\ tt \in Nat \ {0} /\ at \in Nat \ {0} /\ cap \in Nat
        /\ ret \in Nat /\ limit \in Nat \ {0} /\ top.res.size = cap
        /\ at + cap <= tt /\ 2 * n + 2 <= cap
    BY <1>3
  <2>2. tt + 4 * n + 4 <= limit
    <3>1. Above(top) = tt + 4 * n + 4 /\ Above(top) <= limit
      BY <1>3
    <3> HIDE DEF tt, n
    <3> QED BY <3>1
  <2> HIDE DEF tt, n, at, cap
  <2> QED BY <2>1, <2>2
<1>5. /\ Stacked(stack', top.t, storage.at + own, limit)
      /\ stack' # <<>> => Part(top') = top.res
  <2> DEFINE rest == SubSeq(stack, 1, Len(stack) - 1)
  <2>1. /\ Stacked(rest, top.t, storage.at + own, limit)
        /\ rest = <<>> \/ Part(LastOf(rest)) = stack[Len(stack)].res
    BY <1>1, <1>3, Popped
  <2> HIDE DEF rest
  <2>2. stack' = rest
    BY <1>1 DEF rest
  <2> QED BY <2>1, <2>2 DEF top, LastOf
<1>6. /\ storage'.at = storage.at /\ storage'.allocated = storage.allocated - Taken(top.n)
      /\ storage'.capacity = storage.capacity
  BY <1>1, <1>3 DEF givenBack
<1>7. taken' = top.t
  <2>1. Above(top) = top.t + Taken(top.n) /\ Taken(top.n) \in Nat /\ top.t \in Nat
    BY <1>3, TakenLimbs DEF Above
  <2>2. storage.at + storage.allocated = top.t + Taken(top.n)
    BY <1>3, <2>1 DEF taken
  <2>3. storage.at \in Nat /\ storage.allocated \in Nat
    BY <1>3
  <2>4. storage.at + (storage.allocated - Taken(top.n)) = top.t
    BY <2>1, <2>2, <2>3
  <2> QED BY <1>6, <2>4 DEF taken
<1>8. storage' \in [at : {storage.at}, capacity : {storage.capacity}, allocated : Nat]
  <2>1. storage.at + own <= top.t
    <3>1. Len(stack) \in 1 .. Len(stack)
      BY <1>1, RunningFacts
    <3>2. storage.at + own <= Level(stack[Len(stack)], taken)
      BY <1>3, <3>1, StackBounds
    <3> QED BY <1>3, <3>2
  <2>2. own \in Nat /\ storage.at \in Nat /\ storage.allocated \in Int
    BY <1>1, RunningFacts
  <2>3. Taken(top.n) \in Int /\ top.t \in Nat
    <3>1. n \in Nat /\ tt \in Nat
      BY <1>4
    <3> HIDE DEF n, tt
    <3>2. Taken(n) \in Nat
      BY <3>1, TakenLimbs
    <3>3. Taken(n) \in Int /\ tt \in Nat
      BY <3>1, <3>2
    <3> QED BY <3>3 DEF n, tt
  <2>4. storage.at + (storage.allocated - Taken(top.n)) = top.t
    BY <1>6, <1>7 DEF taken
  <2>5. storage.allocated - Taken(top.n) \in Nat
    BY <2>1, <2>2, <2>3, <2>4
  <2> QED BY <1>1, <1>3, <2>5 DEF givenBack
<1> DEFINE m1 == [t1(f) EXCEPT !.size = ret]
<1>9. Value(m1) \in Nat /\ Value(high) \in Nat /\ Value(low) \in Nat
      /\ Value(result_alias) \in Nat
  <2>1. \A x, y, z \in Nat : x + z <= limit => Value([at |-> x, cap |-> y, size |-> z]) \in Nat
    <3> SUFFICES ASSUME NEW x \in Nat, NEW y \in Nat, NEW z \in Nat, x + z <= limit,
                        NEW v, v = [at |-> x, cap |-> y, size |-> z]
                 PROVE  Value(v) \in Nat
      OBVIOUS
    <3>1. v \in Views /\ v.at + v.size <= limit
      BY DEF Views
    <3>2. limit \in Nat /\ Memory(cells, limit)
      BY <1>3
    <3> QED BY <3>1, <3>2, ValueBounded DEF Value
  <2>2. /\ n \in Nat /\ tt \in Nat /\ at \in Nat /\ cap \in Nat /\ ret \in Nat /\ limit \in Nat
        /\ at + cap <= tt /\ 2 * n + 2 <= cap /\ tt + 4 * n + 4 <= limit
    <3> HIDE DEF n, tt, at, cap
    <3> QED BY <1>4
  <2>3. /\ result_low(top) = [at |-> at, cap |-> 2 * n, size |-> 2 * n]
        /\ result_high(top) = [at |-> at + 2 * n, cap |-> cap - 2 * n, size |-> cap - 2 * n]
        /\ t1(top) = [at |-> tt, cap |-> 2 * n + 2, size |-> 2 * n + 2]
    <3>1. 2 * top.n <= top.res.cap
      BY <2>2
    <3> QED BY <1>3, <3>1, PartsPlaced
  <2>4. /\ top.low \in Nat /\ top.high \in Nat /\ top.low <= 2 * n /\ top.high <= cap - 2 * n
    <3>1. Halved(top, limit)
      BY <1>2, <1>3 DEF Placed
    <3> QED BY <1>1, <1>3, <3>1 DEF Halved, Frames
  <2>5. ret <= 2 * n + 2
    <3>1. Part(top) = t1(top)
      BY <1>1 DEF Part
    <3> QED BY <1>3, <2>3, <3>1
  <2>6. /\ m1 = [at |-> tt, cap |-> 2 * n + 2, size |-> ret]
        /\ high = [at |-> at + 2 * n, cap |-> cap - 2 * n, size |-> top.high]
        /\ low = [at |-> at, cap |-> 2 * n, size |-> top.low]
        /\ result_alias = [at |-> at + n, cap |-> cap - n, size |-> cap - n]
    <3>1. f.res.size = cap
      BY <1>4
    <3>2. result_alias = [at |-> at + n, cap |-> cap - n, size |-> cap - n]
      BY <3>1 DEF View
    <3>3. m1 = [at |-> tt, cap |-> 2 * n + 2, size |-> ret]
      BY <2>3
    <3>4. /\ high = [at |-> at + 2 * n, cap |-> cap - 2 * n, size |-> top.high]
          /\ low = [at |-> at, cap |-> 2 * n, size |-> top.low]
      BY <2>3
    <3> QED BY <3>2, <3>3, <3>4
  <2> HIDE DEF n, tt, at, cap, m1, high, low, result_alias
  <2>7. /\ 2 * n + 2 \in Nat /\ tt + ret <= limit
        /\ at + 2 * n \in Nat /\ cap - 2 * n \in Nat /\ at + 2 * n + top.high <= limit
        /\ 2 * n \in Nat /\ at + top.low <= limit
        /\ at + n \in Nat /\ cap - n \in Nat /\ at + n + (cap - n) <= limit
    BY <2>2, <2>4, <2>5
  <2> QED BY <2>1, <2>2, <2>4, <2>6, <2>7
<1>10. middle \in Int /\ sum \in Int
  <2> HIDE DEF m1, high, low, result_alias
  <2>1. middle = Value(m1) - Value(high) - Value(low)
    BY DEF m1, high, low
  <2> QED BY <1>9, <2>1
<1>11. Memory(new, limit)
  <2>1. t1(f).at = top.t /\ result_alias.at = top.res.at + top.n
        /\ result_alias.size = top.res.cap - top.n
    BY <1>3 DEF t1, View
  <2>2. tt \in Nat \ {0} /\ at + n \in Nat \ {0} /\ cap - n \in Int /\ ret \in Int
    <3> HIDE DEF n, tt, at, cap
    <3> QED BY <1>4
  <2>3. Memory(cells, limit) /\ limit \in Nat \ {0}
    BY <1>3
  <2> HIDE DEF f, middle, sum, result_alias, c1
  <2>4. Memory(c1, limit)
    BY <1>10, <2>1, <2>2, <2>3, WrittenMemory DEF c1
  <2>5. Memory(Written(c1, result_alias.at, sum, result_alias.size), limit)
    BY <1>10, <2>1, <2>2, <2>3, <2>4, WrittenMemory
  <2> QED BY <2>5
<1>12. ret' \in Nat /\ ret' <= top.res.cap
  <2> HIDE DEF new
  <2>1. ValueIn(new, top.res) \in Nat /\ ValueIn(new, top.res) < Power(top.res.size)
    <3>1. at + cap <= limit
      <4> HIDE DEF n, tt, at, cap
      <4> QED BY <1>4
    <3>2. top.res \in Views /\ limit \in Nat /\ top.res.at + top.res.size <= limit
      BY <1>3, <1>4, <3>1
    <3> QED BY <1>11, <3>2, ValueBounded
  <2>2. top.res.cap \in Nat \ {0} /\ top.res.size = top.res.cap
    BY <1>4
  <2>3. Size(ValueIn(new, top.res)) \in Nat /\ Size(ValueIn(new, top.res)) <= top.res.cap
    BY <2>1, <2>2, Sizes
  <2> QED BY <1>1, <2>3
<1>13. Memory(cells', limit)
  BY <1>1, <1>11
<1>14. stack' # <<>> /\ Splits(top') => ret' <= Part(top').cap
  BY <1>5, <1>12
<1>15. Stacked(stack', taken', storage.at + own, limit)
  BY <1>5, <1>7
<1> HIDE DEF new
<1> QED BY <1>1, <1>8, <1>12, <1>13, <1>14, <1>15, StepPlaces

----------------------------------------------------------------------------
(* The invariant.                                                          *)

\* Places of memory, one behind the other, have nothing in common.
LEMMA PlacesApart ==
  ASSUME NEW a \in Int, NEW s \in Int, NEW b \in Int, NEW q \in Int,
         a + s <= b \/ b + q <= a
  PROVE  (a .. a + s - 1) \cap (b .. b + q - 1) = {}
OBVIOUS

\* What an invocation writes to and what it reads have nothing in common.
LEMMA PlacedIsPrivate ==
  ASSUME NEW f, NEW level, NEW bound, Placed(f, level, bound)
  PROVE  LET operands == Addresses(f.a) \cup Addresses(f.b)
         IN /\ Addresses(f.res) \cap operands = {}
            /\ Splits(f) => Scratch(f) \cap (Addresses(f.res) \cup operands) = {}
<1>1. f \in Frames /\ level \in Nat
  BY DEF Placed
<1>2. f.res \in Views /\ f.a \in Views /\ f.b \in Views
  BY <1>1 DEF Frames
<1>3. /\ f.res.at \in Nat /\ f.res.cap \in Nat /\ f.res.at + f.res.cap <= level
      /\ f.a.at \in Nat /\ f.a.cap \in Nat /\ f.a.at + f.a.cap <= level
      /\ f.b.at \in Nat /\ f.b.cap \in Nat /\ f.b.at + f.b.cap <= level
  BY <1>2 DEF Placed, Operand, Views
<1>4. Apart(f.res, f.a) /\ Apart(f.res, f.b)
  BY DEF Placed, Operand
<1>5. ASSUME NEW v \in {f.a, f.b} PROVE Addresses(f.res) \cap Addresses(v) = {}
  <2>1. v.at \in Int /\ v.cap \in Int /\ f.res.at \in Int /\ f.res.cap \in Int
    BY <1>3
  <2>2. f.res.at + f.res.cap <= v.at \/ v.at + v.cap <= f.res.at
    BY <1>4 DEF Apart
  <2> QED BY <2>1, <2>2, PlacesApart DEF Addresses
<1>6. ASSUME Splits(f), NEW v \in {f.res, f.a, f.b} PROVE Scratch(f) \cap Addresses(v) = {}
  <2>1. f.t = level /\ Taken(f.n) \in Int
    <3>1. f.n \in Nat /\ f.t \in Nat
      BY <1>1 DEF Frames
    <3>2. Taken(f.n) \in Nat
      BY <3>1, TakenLimbs
    <3> QED BY <1>6, <3>1, <3>2 DEF Placed
  <2>2. v.at \in Int /\ v.cap \in Int /\ v.at + v.cap <= f.t /\ f.t \in Int
    BY <1>1, <1>3, <2>1
  <2> QED BY <2>1, <2>2, PlacesApart DEF Addresses, Scratch
<1> QED BY <1>5, <1>6

\* If the invocations are placed, nothing is used twice.
LEMMA PlacementIsPrivate ==
  ASSUME Assumptions, Placement
  PROVE  ScratchIsPrivate
<1> SUFFICES ASSUME pc = "running" PROVE ScratchIsPrivate
  BY DEF ScratchIsPrivate
<1> DEFINE floor == storage.at + own
           m == Len(stack)
           behind(i) == IF i = 0 THEN floor ELSE Above(stack[i])
           level(i) == Level(stack[i], taken)
           scratch == storage.at .. storage.at + storage.capacity - 1
<1>1. /\ storage.at \in Nat /\ storage.capacity \in Nat /\ storage.allocated \in Nat
      /\ own \in Nat /\ limit \in Nat /\ taken \in Nat
      /\ Memory(cells, limit) /\ Stacked(stack, taken, floor, limit)
  <2>1. /\ storage \in [at : Nat \ {0}, capacity : Nat, allocated : Nat] /\ Started
        /\ Memory(cells, limit) /\ Stacked(stack, taken, floor, limit)
    BY DEF Placement
  <2>2. storage.at \in Nat /\ storage.capacity \in Nat /\ storage.allocated \in Nat
    BY <2>1
  <2>3. own \in Nat
    BY <2>1, StartedFacts
  <2> QED BY <2>1, <2>2, <2>3 DEF limit, taken
<1>2. stack \in Seq(Frames) /\ m \in Nat /\ DOMAIN stack = 1 .. m
  BY <1>1 DEF Stacked
<1>3. floor \in Nat /\ storage.at <= floor /\ taken <= limit
  BY <1>1, StackBounds
<1>4. storage.allocated <= storage.capacity
  BY <1>1, <1>3 DEF taken, limit
<1>5. ASSUME NEW i \in 1 .. m
      PROVE  /\ Placed(stack[i], level(i), limit) /\ floor <= level(i)
             /\ level(i) = behind(i - 1) /\ level(i) \in Nat
             /\ Splits(stack[i]) => stack[i].t = level(i)
  <2>1. Placed(stack[i], level(i), limit)
    BY <1>1, <1>5 DEF Stacked
  <2>2. floor <= level(i)
    BY <1>1, <1>5, StackBounds
  <2>3. level(i) = IF i = 1 THEN floor ELSE Above(stack[i - 1])
    BY <1>1, <1>5 DEF Stacked
  <2>4. level(i) = behind(i - 1)
    BY <1>2, <1>5, <2>3
  <2>5. level(i) \in Nat /\ (Splits(stack[i]) => stack[i].t = level(i))
    BY <2>1 DEF Placed
  <2> QED BY <2>1, <2>2, <2>4, <2>5
<1>6. taken = behind(IF Running("enter") THEN m - 1 ELSE m)
  <2>1. taken = IF stack = <<>> THEN floor
                ELSE IF Splits(stack[m]) THEN Above(stack[m]) ELSE taken
    BY <1>1 DEF Stacked
  <2>2. CASE stack = <<>>
    <3>1. m = 0 /\ ~Running("enter")
      BY <2>2 DEF Running
    <3> QED BY <2>1, <2>2, <3>1
  <2>3. CASE stack # <<>> /\ Splits(top)
    <3>1. m # 0 /\ ~Running("enter")
      BY <1>2, <2>3 DEF Running, Splits
    <3> QED BY <2>1, <2>3, <3>1 DEF top
  <2>4. CASE stack # <<>> /\ ~Splits(top)
    <3>1. m \in 1 .. m /\ Running("enter")
      BY <1>2, <2>4 DEF Running, Splits
    <3>2. level(m) = taken
      BY <2>4 DEF Level, top
    <3>3. level(m) = behind(m - 1)
      BY <1>5, <3>1
    <3> QED BY <3>1, <3>2, <3>3
  <2> QED BY <2>2, <2>3, <2>4
<1>7. ASSUME NEW i \in 1 .. m, Splits(stack[i])
      PROVE  /\ stack[i].t = behind(i - 1) /\ stack[i].t \in Nat /\ Taken(stack[i].n) \in Nat
             /\ storage.at <= stack[i].t /\ Above(stack[i]) <= limit
  <2>1. stack[i] \in Frames /\ Above(stack[i]) <= limit
    BY <1>5, <1>7 DEF Placed, Halved
  <2>2. stack[i].n \in Nat
    BY <2>1 DEF Frames
  <2>3. Taken(stack[i].n) \in Nat
    BY <2>2, TakenLimbs
  <2>4. stack[i].t = behind(i - 1) /\ stack[i].t \in Nat /\ floor <= stack[i].t
    BY <1>5, <1>7
  <2>5. storage.at <= stack[i].t
    <3> HIDE DEF floor
    <3> QED BY <1>1, <1>3, <2>4
  <2> QED BY <2>1, <2>3, <2>4, <2>5
<1>8. ASSUME NEW i \in 1 .. m, Splits(stack[i])
      PROVE  Scratch(stack[i]) \subseteq scratch
  <2> DEFINE a == stack[i].t
             k == Taken(stack[i].n)
  <2>1. /\ a \in Nat /\ k \in Nat /\ storage.at <= a /\ a + k <= limit
        /\ Scratch(stack[i]) = a .. a + k - 1
    BY <1>7, <1>8 DEF Above, Scratch
  <2> DEFINE at == storage.at
             all == storage.capacity
  <2>2. at \in Nat /\ all \in Nat /\ limit = at + all
    BY <1>1 DEF limit
  <2> HIDE DEF a, k, at, all
  <2>3. \A x \in a .. a + k - 1 : x \in at .. at + all - 1
    BY <2>1, <2>2 DEF at
  <2> QED BY <2>1, <2>3 DEF at, all
<1>9. ASSUME NEW i \in 1 .. m, NEW j \in 1 .. m, i < j, Splits(stack[i]), Splits(stack[j])
      PROVE  Scratch(stack[i]) \cap Scratch(stack[j]) = {}
  <2>1. \A k, l \in 1 .. m : k < l => Above(stack[k]) <= Level(stack[l], taken)
    BY <1>1 DEF Stacked
  <2>2. stack[i].t + Taken(stack[i].n) <= stack[j].t
    BY <1>9, <2>1 DEF Level, Above
  <2>3. stack[i].t \in Int /\ Taken(stack[i].n) \in Int
    BY <1>7, <1>9
  <2>4. stack[j].t \in Int /\ Taken(stack[j].n) \in Int
    BY <1>7, <1>9
  <2> QED BY <2>2, <2>3, <2>4, PlacesApart DEF Scratch
<1>10. ASSUME NEW i \in 1 .. m, NEW j \in 1 .. m, i # j, Splits(stack[i]), Splits(stack[j])
       PROVE  Scratch(stack[i]) \cap Scratch(stack[j]) = {}
  <2>1. CASE i < j
    BY <1>9, <1>10, <2>1
  <2>2. CASE j < i
    <3>1. Scratch(stack[j]) \cap Scratch(stack[i]) = {}
      BY <1>9, <1>10, <2>2
    <3> QED BY <3>1
  <2> QED BY <1>2, <1>10, <2>1, <2>2
<1>11. ASSUME NEW i \in 1 .. m
       PROVE  LET f == stack[i]
                  operands == Addresses(f.a) \cup Addresses(f.b)
              IN /\ Addresses(f.res) \cap operands = {}
                 /\ Splits(f) => Scratch(f) \cap (Addresses(f.res) \cup operands) = {}
  BY <1>5, <1>11, PlacedIsPrivate
<1>12. Running("enter") /\ TooShort => LeafLimbs <= top.res.cap
  <2> SUFFICES ASSUME Running("enter") PROVE LeafLimbs <= top.res.cap
    OBVIOUS
  <2>1. stack # <<>> /\ ~Splits(top)
    BY DEF Running, Splits
  <2>2. Placed(top, level(m), limit)
    BY <1>2, <1>5, <2>1 DEF top
  <2> QED BY <1>1, <2>1, <2>2, LeafFits
<1> QED
  BY <1>2, <1>4, <1>6, <1>7, <1>8, <1>10, <1>11, <1>12 DEF ScratchIsPrivate, taken, own, Above

LEMMA InitPlaces == Init => Placement
BY DEF Init, Placement

\* Every step keeps the invocations placed.
LEMMA NextPlaces ==
  ASSUME Assumptions, Placement, [Next]_vars
  PROVE  Placement'
<1>1. CASE Call
  <2>1. /\ pc = "idle" /\ pc' = "entered" /\ ret' = ret
        /\ \E t \in Types, f \in Factors : call' = [type |-> t, a |-> f[1], b |-> f[2]]
    BY <1>1 DEF Call
  <2>2. PICK t \in Types, f \in Factors : call' = [type |-> t, a |-> f[1], b |-> f[2]]
    BY <2>1
  <2>3. /\ f[1] \in Nat /\ f[2] \in Nat
        /\ Size(f[1]) >= karatsuba_cutoff /\ Size(f[2]) >= karatsuba_cutoff
    BY DEF Assumptions, FactorsAssumption
  <2>4. Started'
    BY <2>2, <2>3 DEF Started
  <2> QED BY <2>1, <2>4 DEF Placement
<1>2. CASE Setup
  BY <1>2, SetupPlaces
<1>3. CASE Leaf
  BY <1>3, LeafPlaces
<1>4. CASE Split
  BY <1>4, SplitPlaces
<1>5. CASE LowDone
  BY <1>5, LowDonePlaces
<1>6. CASE HighDone
  BY <1>6, HighDonePlaces
<1>7. CASE Combine
  BY <1>7, CombinePlaces
<1>8. CASE Place
  BY <1>8 DEF Place, Placement
<1>9. CASE Truncate
  BY <1>9 DEF Truncate, Placement
<1>10. CASE Return
  BY <1>10 DEF Return, Placement
<1>11. CASE UNCHANGED vars
  <2>1. UNCHANGED <<call, cells, storage, stack, ret, pc>>
    BY <1>11 DEF vars
  <2> QED BY <2>1 DEF Placement, Started, taken, limit, own, HasRoom, sz, type, top
<1> QED BY <1>1, <1>2, <1>3, <1>4, <1>5, <1>6, <1>7, <1>8, <1>9, <1>10, <1>11
        DEF Next, Step

\* The block of scratch memory suffices for the whole recursion, and of what an
\* invocation reads nothing is written over, by itself or by one that serves it, as
\* long as it may need it: whatever the factors, the limbs, the type of the result,
\* and the cut-off, if that is at least 20.  (multiply.hpp calls the size of the block,
\* five times the longer factor, an estimate, and allocate() only asserts that it
\* suffices; 40 is the library's cut-off.)
THEOREM ScratchStaysPrivate ==
  ASSUME CutoffAssumption, TypesAssumption, FactorsAssumption, karatsuba_cutoff >= 20
  PROVE  Spec => []ScratchIsPrivate
<1>1. Assumptions
  BY DEF Assumptions
<1>2. Init => Placement
  BY InitPlaces
<1>3. Placement /\ [Next]_vars => Placement'
  BY <1>1, NextPlaces
<1>4. Placement => ScratchIsPrivate
  BY <1>1, PlacementIsPrivate
<1> QED BY <1>2, <1>3, <1>4, PTL DEF Spec

----------------------------------------------------------------------------
(* Numbers in the memory.                                                  *)

\* What is read is what Horner's rule yields.
LEMMA HornerValue ==
  ASSUME NEW m \in Nat, NEW c, Memory(c, m), NEW v \in Views, v.at + v.size <= m,
         NEW h, IsHorner(h, c, v, v.size)
  PROVE  ValueIn(c, v) = h[v.size]
<1> DEFINE step(g) == [k \in 0 .. v.size |->
                         IF k = 0 THEN 0 ELSE Base * g[k - 1] + c[v.at + v.size - k]]
           above == CHOOSE g : g = step(g)
<1>0. v.at \in Nat /\ v.size \in Nat
  BY DEF Views
<1>1. above = step(above)
  <2>1. PICK g \in [0 .. v.size -> Nat] : IsHorner(g, c, v, v.size)
    BY <1>0, HornerExists
  <2>2. g = step(g)
    <3>1. ASSUME NEW k \in 0 .. v.size PROVE g[k] = step(g)[k]
      <4>1. CASE k = 0
        BY <2>1, <4>1 DEF IsHorner
      <4>2. CASE k # 0
        <5>1. k \in 1 .. v.size
          BY <1>0, <4>2
        <5>2. g[k] = Base * g[k - 1] + c[v.at + v.size - k]
          BY <2>1, <5>1 DEF IsHorner
        <5> QED BY <4>2, <5>2
      <4> QED BY <4>1, <4>2
    <3> QED BY <2>1, <3>1
  <2> QED BY <2>2
<1>2. ValueIn(c, v) = above[v.size]
  BY Zenon DEF ValueIn
<1> HIDE DEF above
<1>3. above[0] = 0
  BY <1>0, <1>1
<1>4. ASSUME NEW k \in 1 .. v.size
      PROVE  above[k] = Base * above[k - 1] + c[v.at + v.size - k]
  <2>1. k \in 0 .. v.size /\ k # 0
    BY <1>0
  <2>2. above[k] = step(above)[k]
    BY <1>1, Zenon
  <2> QED BY <2>1, <2>2
<1> DEFINE S == {k \in 0 .. v.size : above[k] # h[k]}
<1>5. S = {}
  <2>1. SUFFICES ASSUME S # {} PROVE FALSE
    OBVIOUS
  <2>2. PICK k \in S : \A l \in S : k <= l
    <3>1. S \in SUBSET Nat
      BY <1>0
    <3> HIDE DEF S
    <3> QED BY <2>1, <3>1, LeastNatural
  <2>3. k # 0
    BY <1>3, <2>2 DEF IsHorner
  <2>4. k \in 1 .. v.size /\ k - 1 \in 0 .. v.size /\ ~(k <= k - 1)
    BY <1>0, <2>2, <2>3
  <2>5. above[k - 1] = h[k - 1]
    <3>1. k - 1 \notin S
      BY <2>2, <2>4
    <3> QED BY <2>4, <3>1
  <2>6. h[k] = Base * h[k - 1] + c[v.at + v.size - k]
    BY <2>4 DEF IsHorner
  <2> QED BY <1>4, <2>2, <2>4, <2>5, <2>6
<1> QED BY <1>0, <1>2, <1>5

\* The number in size limbs at an address
Read(c, at, size) == ValueIn(c, View(at, size))

\* Only the limbs in use count.
LEMMA ReadView ==
  ASSUME NEW m \in Nat, NEW c, Memory(c, m), NEW v \in Views, v.at + v.size <= m
  PROVE  ValueIn(c, v) = Read(c, v.at, v.size)
<1> DEFINE w == View(v.at, v.size)
<1>1. v.at \in Nat /\ v.size \in Nat
  BY DEF Views
<1>2. w \in Views /\ w.at = v.at /\ w.size = v.size
  BY <1>1 DEF View, Views
<1> HIDE DEF w
<1>3. PICK h \in [0 .. v.size -> Nat] : IsHorner(h, c, v, v.size)
  BY <1>1, HornerExists
<1>4. IsHorner(h, c, w, w.size)
  BY <1>2, <1>3 DEF IsHorner
<1>5. ValueIn(c, v) = h[v.size] /\ ValueIn(c, w) = h[w.size]
  BY <1>2, <1>3, <1>4, HornerValue
<1> QED BY <1>2, <1>5 DEF Read, w

\* Limb by limb, from the bottom up
LEMMA ReadStep ==
  ASSUME NEW m \in Nat, NEW c, Memory(c, m), NEW at \in Nat, NEW k \in Nat, at + k + 1 <= m
  PROVE  /\ Read(c, at, 0) = 0
         /\ Read(c, at, k + 1) = Base * Read(c, at + 1, k) + c[at]
<1> DEFINE v == View(at, k + 1)
           w == View(at + 1, k)
           o == View(at, 0)
<1>1. /\ v \in Views /\ v.at = at /\ v.size = k + 1
      /\ w \in Views /\ w.at = at + 1 /\ w.size = k
      /\ o \in Views /\ o.at = at /\ o.size = 0
  BY DEF View, Views
<1> HIDE DEF v, w, o
<1>2. PICK h \in [0 .. v.size -> Nat] : IsHorner(h, c, v, v.size)
  <2>1. v.size \in 0 .. v.size /\ v.at + v.size <= m
    BY <1>1
  <2> QED BY <1>1, <2>1, HornerExists
<1>3. h[0] = 0 /\ \A j \in 1 .. k + 1 : h[j] = Base * h[j - 1] + c[at + (k + 1) - j]
  BY <1>1, <1>2 DEF IsHorner
<1>4. IsHorner(h, c, w, w.size)
  <2>1. ASSUME NEW j \in 1 .. k PROVE h[j] = Base * h[j - 1] + c[(at + 1) + k - j]
    <3>1. j \in 1 .. k + 1 /\ at + (k + 1) - j = (at + 1) + k - j
      OBVIOUS
    <3> QED BY <1>3, <3>1
  <2> QED BY <1>1, <1>3, <2>1 DEF IsHorner
<1>5. IsHorner(h, c, o, o.size)
  BY <1>1, <1>3 DEF IsHorner
<1>6. ValueIn(c, v) = h[k + 1] /\ ValueIn(c, w) = h[k] /\ ValueIn(c, o) = h[0]
  <2>1. v.at + v.size <= m /\ w.at + w.size <= m /\ o.at + o.size <= m
    BY <1>1
  <2>2. ValueIn(c, v) = h[v.size]
    BY <1>1, <1>2, <2>1, HornerValue
  <2>3. ValueIn(c, w) = h[w.size]
    BY <1>1, <1>4, <2>1, HornerValue
  <2>4. ValueIn(c, o) = h[o.size]
    BY <1>1, <1>5, <2>1, HornerValue
  <2> QED BY <1>1, <2>2, <2>3, <2>4
<1>7. h[k + 1] = Base * h[k] + c[at]
  <2>1. k + 1 \in 1 .. k + 1 /\ (k + 1) - 1 = k /\ at + (k + 1) - (k + 1) = at
    OBVIOUS
  <2>2. h[k + 1] = Base * h[(k + 1) - 1] + c[at + (k + 1) - (k + 1)]
    BY <1>3, <2>1
  <2> QED BY <2>1, <2>2
<1> QED BY <1>3, <1>6, <1>7 DEF Read, v, w, o

\* A limb is its own number, and a number is not longer than what it is read from.
LEMMA ReadBounded ==
  ASSUME NEW m \in Nat, NEW c, Memory(c, m), NEW at \in Nat, NEW k \in Nat, at + k <= m
  PROVE  /\ Read(c, at, k) \in Nat /\ Read(c, at, k) < Power(k)
         /\ k = 1 => Read(c, at, k) = c[at]
         /\ k > 0 => c[at] \in Nat
<1> DEFINE v == View(at, k)
<1>1. v \in Views /\ v.at = at /\ v.size = k
  BY DEF View, Views
<1> HIDE DEF v
<1>2. k > 0 => c[at] \in Nat
  <2>1. k > 0 => at \in 0 .. m - 1
    OBVIOUS
  <2>2. k > 0 => c[at] \in 0 .. Base - 1
    BY <2>1 DEF Memory
  <2> QED BY <2>2, BaseAssumption
<1> QED BY <1>1, <1>2, ValueBounded DEF Read, v

\* What is read depends on the limbs that are read.
LEMMA ReadSame ==
  ASSUME NEW m \in Nat, NEW c, Memory(c, m), NEW d, Memory(d, m),
         NEW at \in Nat, NEW k \in Nat, at + k <= m,
         \A j \in at .. at + k - 1 : c[j] = d[j]
  PROVE  Read(c, at, k) = Read(d, at, k)
<1> DEFINE S == {l \in 0 .. k : Read(c, at + (k - l), l) # Read(d, at + (k - l), l)}
<1>1. S = {}
  <2>1. SUFFICES ASSUME S # {} PROVE FALSE
    OBVIOUS
  <2>2. PICK l \in S : \A i \in S : l <= i
    <3>1. S \in SUBSET Nat
      OBVIOUS
    <3> HIDE DEF S
    <3> QED BY <2>1, <3>1, LeastNatural
  <2>3. l \in 0 .. k /\ Read(c, at + (k - l), l) # Read(d, at + (k - l), l)
    BY <2>2
  <2>4. l # 0
    <3>1. Read(c, at + k, 0) = 0 /\ Read(d, at + k, 0) = 0
      <4>1. at + k \in Nat /\ (at + k) + 0 <= m /\ Power(0) = 1
        BY PowerFacts
      <4>2. /\ Read(c, at + k, 0) \in Nat /\ Read(c, at + k, 0) < Power(0)
            /\ Read(d, at + k, 0) \in Nat /\ Read(d, at + k, 0) < Power(0)
        BY <4>1, ReadBounded
      <4> QED BY <4>1, <4>2
    <3>2. at + (k - 0) = at + k
      OBVIOUS
    <3> QED BY <2>3, <3>1, <3>2
  <2> DEFINE b == at + (k - l)
             i == l - 1
  <2>5. /\ i \in Nat /\ i \in 0 .. k /\ ~(l <= i) /\ l = i + 1 /\ b \in Nat
        /\ b + i + 1 <= m /\ at + (k - i) = b + 1 /\ b \in at .. at + k - 1
    BY <2>3, <2>4
  <2>6. Read(c, b + 1, i) = Read(d, b + 1, i)
    <3>1. i \notin S
      BY <2>2, <2>5
    <3> QED BY <2>5, <3>1
  <2>7. c[b] = d[b]
    BY <2>5
  <2>8. Read(c, b, l) # Read(d, b, l)
    BY <2>3
  <2> HIDE DEF b, i
  <2>9. /\ Read(c, b, i + 1) = Base * Read(c, b + 1, i) + c[b]
        /\ Read(d, b, i + 1) = Base * Read(d, b + 1, i) + d[b]
    BY <2>5, ReadStep
  <2> QED BY <2>5, <2>6, <2>7, <2>8, <2>9
<1>2. k \notin S
  BY <1>1
<1>3. k \in 0 .. k /\ at + (k - k) = at
  OBVIOUS
<1> QED BY <1>2, <1>3

\* A number is made up of its low limbs and of those above them.
LEMMA ReadJoined ==
  ASSUME NEW m \in Nat, NEW c, Memory(c, m), NEW at \in Nat, NEW k \in Nat, NEW l \in Nat,
         at + k + l <= m
  PROVE  Read(c, at, k + l) = Read(c, at, k) + Power(k) * Read(c, at + k, l)
<1> DEFINE Joined(j) ==
             Read(c, at + (k - j), j + l)
               = Read(c, at + (k - j), j) + Power(j) * Read(c, at + k, l)
           S == {j \in 0 .. k : ~Joined(j)}
<1>1. S = {}
  <2>1. SUFFICES ASSUME S # {} PROVE FALSE
    OBVIOUS
  <2>2. PICK j \in S : \A i \in S : j <= i
    <3>1. S \in SUBSET Nat
      OBVIOUS
    <3> HIDE DEF S
    <3> QED BY <2>1, <3>1, LeastNatural
  <2> DEFINE u == Read(c, at + k, l)
  <2>3. u \in Nat
    BY ReadBounded
  <2>4. j # 0
    <3>1. at + k + 0 <= m /\ at + (k - 0) = at + k /\ 0 + l = l /\ at + k \in Nat
      OBVIOUS
    <3>2. Read(c, at + k, 0) = 0
      <4>1. Read(c, at + k, 0) \in Nat /\ Read(c, at + k, 0) < Power(0)
        BY <3>1, ReadBounded
      <4> QED BY <4>1, PowerFacts
    <3>3. Power(0) * u = u
      BY <2>3, PowerFacts, Products
    <3>4. Joined(0)
      BY <2>3, <3>1, <3>2, <3>3
    <3> HIDE DEF Joined
    <3> QED BY <2>2, <3>4
  <2> DEFINE b == at + (k - j)
             i == j - 1
             y == Read(c, b + 1, i)
             p == Power(i)
             z == c[b]
  <2>5. /\ i \in Nat /\ i \in 0 .. k /\ ~(j <= i) /\ j = i + 1 /\ b \in Nat
        /\ b + (i + l) + 1 <= m /\ b + i + 1 <= m /\ at + (k - i) = b + 1
        /\ (i + l) + 1 = j + l /\ i + l \in Nat
    BY <2>2, <2>4
  <2>6. Joined(i)
    <3>1. i \notin S
      BY <2>2, <2>5
    <3> HIDE DEF Joined
    <3> QED BY <2>5, <3>1
  <2>7. Read(c, b + 1, i + l) = y + p * u
    BY <2>5, <2>6
  <2>8. ~Joined(j)
    <3> HIDE DEF Joined
    <3> QED BY <2>2
  <2>9. ~(Read(c, b, j + l) = Read(c, b, j) + Power(j) * u)
    BY <2>8
  <2>10. y \in Nat /\ p \in Nat /\ z \in Nat
    <3>1. b + 1 \in Nat /\ (b + 1) + i <= m /\ b + (i + 1) <= m /\ i + 1 \in Nat /\ i + 1 > 0
      BY <2>5
    <3>2. y \in Nat /\ p \in Nat
      <4> HIDE DEF b, i
      <4> QED BY <2>5, <3>1, ReadBounded, PowerFacts
    <3>3. z \in Nat
      <4> HIDE DEF b, i
      <4> QED BY <2>5, <3>1, ReadBounded
    <3> QED BY <3>2, <3>3
  <2> HIDE DEF u, Joined, b, i
  <2>11. /\ Read(c, b, (i + l) + 1) = Base * Read(c, b + 1, i + l) + z
         /\ Read(c, b, i + 1) = Base * y + z
    BY <2>5, ReadStep
  <2>12. Power(i + 1) = Base * p
    BY <2>5, PowerFacts
  <2> HIDE DEF y, p, z
  <2>13. Base * (y + p * u) = Base * y + (Base * p) * u
    <3>1. p * u \in Int /\ Base \in Int
      BY <2>3, <2>10, BaseAssumption, Products
    <3>2. Base * (y + p * u) = Base * y + Base * (p * u)
      BY <2>10, <3>1, Products
    <3>3. Base * (p * u) = (Base * p) * u
      BY <2>3, <2>10, <3>1, Products
    <3> QED BY <3>2, <3>3
  <2>14. Base * y \in Int /\ (Base * p) * u \in Int
    BY <2>3, <2>10, BaseAssumption, Products
  <2>15. Read(c, b, j + l) = Base * (y + p * u) + z
    BY <2>5, <2>7, <2>11
  <2>16. Read(c, b, j) = Base * y + z /\ Power(j) = Base * p
    BY <2>5, <2>11, <2>12
  <2> DEFINE by == Base * y
             bpu == (Base * p) * u
  <2> HIDE DEF by, bpu
  <2>17. Read(c, b, j + l) = (by + bpu) + z /\ by \in Int /\ bpu \in Int
    BY <2>13, <2>14, <2>15 DEF by, bpu
  <2>18. Read(c, b, j) + Power(j) * u = (by + z) + bpu
    BY <2>16 DEF by, bpu
  <2>19. (by + bpu) + z = (by + z) + bpu
    BY <2>10, <2>17
  <2> QED BY <2>9, <2>17, <2>18, <2>19
<1>2. k \notin S
  BY <1>1
<1>3. k \in 0 .. k /\ at + (k - k) = at
  OBVIOUS
<1>4. Joined(k)
  <2> HIDE DEF Joined
  <2> QED BY <1>2, <1>3
<1> QED BY <1>3, <1>4

\* The low limbs and the others of a number
LEMMA ReadParts ==
  ASSUME NEW m \in Nat, NEW c, Memory(c, m), NEW at \in Nat, NEW k \in Nat, NEW l \in Nat,
         at + k + l <= m
  PROVE  /\ Read(c, at, k) = Read(c, at, k + l) % Power(k)
         /\ Read(c, at + k, l) = Read(c, at, k + l) \div Power(k)
<1> DEFINE x == Read(c, at, k)
           y == Read(c, at + k, l)
           z == Read(c, at, k + l)
           p == Power(k)
<1>1. x \in Nat /\ x < p /\ y \in Nat /\ z \in Nat
  <2>1. /\ at + k <= m /\ at + k \in Nat /\ (at + k) + l <= m
        /\ k + l \in Nat /\ at + (k + l) <= m
    OBVIOUS
  <2> QED BY <2>1, ReadBounded
<1>2. z = x + p * y
  BY ReadJoined
<1>3. p \in Nat \ {0}
  BY PowerFacts
<1> HIDE DEF x, y, z, p
<1>4. x \in 0 .. p - 1 /\ p * y \in Int
  BY <1>1, <1>3, Products
<1>5. z = p * y + x
  BY <1>1, <1>2, <1>4
<1>6. z \div p = y /\ z % p = x
  BY <1>1, <1>3, <1>4, <1>5, DivisionUnique
<1> QED BY <1>6 DEF x, y, z, p

\* Leading zeros can be left out.
LEMMA ReadUsed ==
  ASSUME NEW m \in Nat, NEW c, Memory(c, m), NEW at \in Nat, NEW k \in Nat, at + k <= m,
         NEW s \in Nat, s <= k, Read(c, at, k) < Power(s)
  PROVE  Read(c, at, s) = Read(c, at, k)
<1>1. PICK l \in Nat : s + l = k
  <2>1. k - s \in Nat /\ s + (k - s) = k
    OBVIOUS
  <2> QED BY <2>1
<1>2. at + s + l <= m
  BY <1>1
<1>3. Read(c, at, s) = Read(c, at, s + l) % Power(s)
  <2>1. /\ Read(c, at, s) = Read(c, at, s + l) % Power(s)
        /\ Read(c, at + s, l) = Read(c, at, s + l) \div Power(s)
    BY <1>2, ReadParts
  <2> QED BY <2>1
<1>4. Read(c, at, k) \in Nat
  BY ReadBounded
<1> QED BY <1>1, <1>3, <1>4, Parts

\* What has been written can be read.
LEMMA ReadWritten ==
  ASSUME NEW m \in Nat \ {0}, NEW c, Memory(c, m), NEW at \in Nat \ {0}, NEW n \in Nat,
         NEW size \in Nat, at + size <= m
  PROVE  Read(Written(c, at, n, size), at, size) = n % Power(size)
<1> DEFINE d == Written(c, at, n, size)
           S == {k \in 0 .. size : Read(d, at, k) # n % Power(k)}
<1>1. Memory(d, m)
  BY WrittenMemory
<1>2. ASSUME NEW k \in 0 .. size - 1 PROVE d[at + k] = Limb(n, k)
  <2>1. DOMAIN c = 0 .. m - 1
    BY DEF Memory
  <2>2. at + k \in 0 .. m - 1 /\ at + k \in at .. at + size - 1 /\ (at + k) - at = k
    OBVIOUS
  <2>3. d[at + k] = IF at + k \in at .. at + size - 1 THEN Limb(n, (at + k) - at) ELSE c[at + k]
    BY <2>1, <2>2 DEF Written
  <2> QED BY <2>2, <2>3
<1> HIDE DEF d
<1>3. S = {}
  <2>1. SUFFICES ASSUME S # {} PROVE FALSE
    OBVIOUS
  <2>2. PICK k \in S : \A i \in S : k <= i
    <3>1. S \in SUBSET Nat
      OBVIOUS
    <3> HIDE DEF S
    <3> QED BY <2>1, <3>1, LeastNatural
  <2>3. k \in 0 .. size /\ Read(d, at, k) # n % Power(k)
    BY <2>2
  <2>4. k # 0
    <3>1. Read(d, at, 0) = 0
      <4>1. at + 0 <= m /\ at \in Nat /\ Power(0) = 1
        BY PowerFacts
      <4>2. Read(d, at, 0) \in Nat /\ Read(d, at, 0) < Power(0)
        BY <1>1, <4>1, ReadBounded
      <4> QED BY <4>1, <4>2
    <3>2. n % Power(0) = 0
      BY PowerFacts
    <3> QED BY <2>3, <3>1, <3>2
  <2> DEFINE i == k - 1
  <2>5. /\ i \in Nat /\ i \in 0 .. size /\ i \in 0 .. size - 1 /\ ~(k <= i) /\ k = i + 1
        /\ at + i + 1 <= m /\ at \in Nat
    BY <2>3, <2>4
  <2>6. Read(d, at, i) = n % Power(i)
    <3>1. i \notin S
      BY <2>2, <2>5
    <3> QED BY <2>5, <3>1
  <2> HIDE DEF i
  <2>7. Read(d, at, i + 1) = Read(d, at, i) + Power(i) * Read(d, at + i, 1)
    BY <1>1, <2>5, ReadJoined
  <2>8. Read(d, at + i, 1) = Limb(n, i)
    <3>1. at + i \in Nat /\ (at + i) + 1 <= m
      BY <2>5
    <3>2. Read(d, at + i, 1) = d[at + i]
      BY <1>1, <3>1, ReadBounded
    <3> QED BY <1>2, <2>5, <3>2
  <2>9. n % Power(i + 1) = (n % Power(i)) + Power(i) * Limb(n, i)
    BY <2>5, LimbFacts
  <2> QED BY <2>3, <2>5, <2>6, <2>7, <2>8, <2>9
<1>4. size \notin S
  BY <1>3
<1> QED BY <1>4 DEF d

\* Nothing else has been written over.
LEMMA WrittenElsewhere ==
  ASSUME NEW m \in Nat \ {0}, NEW c, Memory(c, m), NEW at \in Nat, NEW n, NEW size \in Nat
  PROVE  \A k \in 0 .. m - 1 : k < at \/ at + size <= k => Written(c, at, n, size)[k] = c[k]
<1> SUFFICES ASSUME NEW k \in 0 .. m - 1, k < at \/ at + size <= k
             PROVE  Written(c, at, n, size)[k] = c[k]
  OBVIOUS
<1>1. DOMAIN c = 0 .. m - 1
  BY DEF Memory
<1>2. k \notin at .. at + size - 1
  OBVIOUS
<1> QED BY <1>1, <1>2 DEF Written

\* A const view is the number that it is a view of.
LEMMA ConstViewValue ==
  ASSUME NEW m \in Nat, Memory(cells, m), NEW at \in Nat, NEW size \in Nat \ {0},
         at + size <= m
  PROVE  Value(ConstView(at, size)) = Read(cells, at, size)
<1> DEFINE x == Read(cells, at, size)
           k == Size(x)
           w == ConstView(at, size)
<1>1. x \in Nat /\ x < Power(size)
  BY ReadBounded
<1>2. k \in Nat /\ k <= size /\ x < Power(k)
  BY <1>1, Sizes
<1>3. w = [at |-> at, cap |-> size, size |-> k]
  BY DEF ConstView, Value, Read
<1> HIDE DEF x, k, w
<1>4. w \in Views /\ w.at = at /\ w.size = k /\ at + k <= m
  BY <1>2, <1>3 DEF Views
<1>5. Value(w) = Read(cells, at, k)
  BY <1>4, ReadView DEF Value
<1>6. Read(cells, at, k) = x
  BY <1>2, ReadUsed DEF x
<1> QED BY <1>5, <1>6 DEF w, x

\* The parts of an operand, as numbers
LEMMA PartValues ==
  ASSUME NEW m \in Nat \ {0}, Memory(cells, m), NEW v \in Views, NEW n \in Nat \ {0},
         v.size \in 1 .. 2 * n, v.at + v.size <= m
  PROVE  /\ Value(v) \in Nat /\ Value(v) < Power(v.size)
         /\ Value(Low(v, n)) = Value(v) % Power(n)
         /\ Value(High(v, n)) = Value(v) \div Power(n)
<1> DEFINE at == v.at
           s == v.size
           x == Read(cells, at, s)
<1>1. at \in Nat /\ s \in Nat \ {0} /\ at + s <= m
  BY DEF Views
<1>2. Value(v) = x
  BY ReadView DEF Value
<1>3. x \in Nat /\ x < Power(s)
  BY <1>1, ReadBounded
<1>4. /\ Low(v, n) = ConstView(at, Smaller(s, n))
      /\ High(v, n) = IF s > n THEN ConstView(at + n, s - n) ELSE ConstView(0, 1)
  BY DEF Low, High
<1> HIDE DEF at, s, x
<1>5. CASE s > n
  <2>1. PICK l \in Nat : n + l = s
    <3>1. s - n \in Nat /\ n + (s - n) = s
      BY <1>1, <1>5
    <3> QED BY <3>1
  <2>2. l = s - n /\ l \in Nat \ {0} /\ at + n + l <= m /\ at + n \in Nat /\ (at + n) + l <= m
        /\ at + n <= m /\ Smaller(s, n) = n
    BY <1>1, <1>5, <2>1 DEF Smaller
  <2>3. Value(Low(v, n)) = Read(cells, at, n) /\ Value(High(v, n)) = Read(cells, at + n, l)
    <3>1. Low(v, n) = ConstView(at, n) /\ High(v, n) = ConstView(at + n, l)
      BY <1>4, <1>5, <2>2
    <3> QED BY <1>1, <2>2, <3>1, ConstViewValue
  <2>4. /\ Read(cells, at, n) = Read(cells, at, n + l) % Power(n)
        /\ Read(cells, at + n, l) = Read(cells, at, n + l) \div Power(n)
    BY <1>1, <2>2, ReadParts
  <2> QED BY <1>2, <1>3, <2>1, <2>3, <2>4 DEF x, s
<1>6. CASE ~(s > n)
  <2>1. Smaller(s, n) = s
    BY <1>1, <1>6 DEF Smaller
  <2>2. Value(Low(v, n)) = x
    BY <1>1, <1>4, <2>1, ConstViewValue DEF x
  <2>3. Value(High(v, n)) = 0
    <3>1. 0 + 1 <= m /\ 0 \in Nat /\ 1 \in Nat \ {0} /\ m \in Nat
      OBVIOUS
    <3>2. Value(ConstView(0, 1)) = Read(cells, 0, 1)
      BY <3>1, ConstViewValue
    <3>3. Read(cells, 0, 1) = cells[0]
      BY <3>1, ReadBounded
    <3>4. cells[0] = 0
      BY DEF Memory
    <3> QED BY <1>4, <1>6, <3>2, <3>3, <3>4
  <2>4. x < Power(n)
    <3>1. Power(s) <= Power(n) /\ Power(s) \in Nat /\ Power(n) \in Nat
      <4>1. s \in Nat /\ n \in Nat /\ s <= n
        BY <1>1, <1>6
      <4> QED BY <4>1, PowersGrow, PowerFacts
    <3> QED BY <1>3, <3>1
  <2>5. x % Power(n) = x /\ x \div Power(n) = 0
    BY <1>3, <2>4, Parts
  <2> QED BY <1>2, <1>3, <2>2, <2>3, <2>5 DEF s
<1> QED BY <1>5, <1>6

\* Three products make up that of the whole numbers.
LEMMA ThreeProducts ==
  ASSUME NEW p \in Nat, NEW a \in Nat, NEW b \in Nat, NEW c \in Nat, NEW d \in Nat
  PROVE  /\ (a + b) * (c + d) - b * d - a * c \in Nat
         /\ (a + p * b) * (c + p * d)
              = a * c + p * ((a + b) * (c + d) - b * d - a * c) + (p * p) * (b * d)
<1>1. ASSUME NEW x \in Int, NEW y \in Int, NEW z \in Int, NEW u \in Int
      PROVE  (x + y) * (z + u) = x * z + x * u + y * z + y * u
  <2>1. (x + y) * (z + u) = (x + y) * z + (x + y) * u /\ (x + y) * z = z * (x + y)
        /\ (x + y) * u = u * (x + y)
    BY Products
  <2>2. z * (x + y) = z * x + z * y /\ u * (x + y) = u * x + u * y
    BY Products
  <2>3. /\ z * x = x * z /\ z * y = y * z /\ u * x = x * u /\ u * y = y * u
        /\ x * z \in Int /\ y * z \in Int /\ x * u \in Int /\ y * u \in Int
    BY Products
  <2> QED BY <2>1, <2>2, <2>3
<1> DEFINE ac == a * c
           ad == a * d
           bc == b * c
           bd == b * d
<1>2. ac \in Nat /\ ad \in Nat /\ bc \in Nat /\ bd \in Nat /\ p * b \in Nat /\ p * d \in Nat
  BY Products
<1>3. (a + b) * (c + d) = ac + ad + bc + bd
  BY <1>1
<1>4. (a + p * b) * (c + p * d) = ac + a * (p * d) + (p * b) * c + (p * b) * (p * d)
  BY <1>1, <1>2
<1>5. a * (p * d) = p * ad
  <2>1. a * (p * d) = (a * p) * d /\ a * p = p * a /\ (p * a) * d = p * (a * d)
    BY Products
  <2> QED BY <2>1
<1>6. (p * b) * c = p * bc
  BY Products
<1>7. (p * b) * (p * d) = (p * p) * bd
  <2>1. (p * b) * (p * d) = p * (b * (p * d)) /\ b * (p * d) = (b * p) * d /\ b * p = p * b
        /\ (p * b) * d = p * (b * d)
    BY <1>2, Products
  <2>2. p * (p * bd) = (p * p) * bd
    BY <1>2, Products
  <2> QED BY <2>1, <2>2
<1> HIDE DEF ac, ad, bc, bd
<1>8. p * (ad + bc) = p * ad + p * bc /\ p * ad \in Nat /\ p * bc \in Nat
  BY <1>2, Products
<1>9. (ac + ad + bc + bd) - bd - ac = ad + bc
  BY <1>2
<1>10. (a + p * b) * (c + p * d) = ac + p * (ad + bc) + (p * p) * bd
  <2>1. ac + p * ad + p * bc + (p * p) * bd = ac + (p * ad + p * bc) + (p * p) * bd
    <3> DEFINE x == p * ad
               y == p * bc
               z == (p * p) * bd
    <3>1. x \in Nat /\ y \in Nat /\ z \in Nat
      BY <1>2, <1>8, Products
    <3> HIDE DEF x, y, z
    <3>2. ac + x + y + z = ac + (x + y) + z
      BY <1>2, <3>1
    <3> QED BY <3>2 DEF x, y, z
  <2> QED BY <1>4, <1>5, <1>6, <1>7, <1>8, <2>1
<1> QED BY <1>2, <1>3, <1>9, <1>10 DEF ac, bd

----------------------------------------------------------------------------
(* What the invocations compute.                                           *)

\* What an invocation that has split its operands wants multiplied: the part of an
\* operand, or the sum of its parts
Wanted(c, f, v) ==
  LET x == ValueIn(c, v)
      p == Power(f.n)
  IN CASE f.step = "low" -> x % p
       [] f.step = "high" -> x \div p
       [] f.step = "middle" -> (x % p) + (x \div p)
WantedProduct(c, f) == Wanted(c, f, f.a) * Wanted(c, f, f.b)

LowProduct(c, f) == (ValueIn(c, f.a) % Power(f.n)) * (ValueIn(c, f.b) % Power(f.n))
HighProduct(c, f) == (ValueIn(c, f.a) \div Power(f.n)) * (ValueIn(c, f.b) \div Power(f.n))

\* The products of which it knows are in their places.
Sound(c, f) ==
  /\ f.step \in {"high", "middle"} =>
       ValueIn(c, result_low(f)) = LowProduct(c, f) /\ f.low = Size(LowProduct(c, f))
  /\ f.step = "middle" =>
       ValueIn(c, result_high(f)) = HighProduct(c, f) /\ f.high = Size(HighProduct(c, f))

\* An invocation multiplies what the one that it serves wants.
Serves(c, f, g) ==
  ValueIn(c, g.a) = Wanted(c, f, f.a) /\ ValueIn(c, g.b) = Wanted(c, f, f.b)

\* The product has come.
Delivered(c, f, r) ==
  /\ r = Size(WantedProduct(c, f))
  /\ ValueIn(c, [Part(f) EXCEPT !.size = r]) = WantedProduct(c, f)

Inside(v, w) == w.at <= v.at /\ v.at + v.cap <= w.at + w.cap

\* Only res, and what lies above a level, has been written over.
Untouched(c, d, res, level) ==
  \A k \in 0 .. level - 1 : k < res.at \/ res.at + res.cap <= k => c[k] = d[k]

\* An operand is the number that it was.
LEMMA OperandKept ==
  ASSUME NEW m \in Nat, NEW c, Memory(c, m), NEW d, Memory(d, m),
         NEW res \in Views, NEW level \in Nat, level <= m, Untouched(c, d, res, level),
         NEW v \in Views, v.size <= v.cap, v.at + v.cap <= level, Apart(res, v)
  PROVE  ValueIn(c, v) = ValueIn(d, v)
<1> DEFINE at == v.at
           s == v.size
           q == v.cap
           ra == res.at
           rq == res.cap
<1>1. at \in Nat /\ s \in Nat /\ q \in Nat /\ ra \in Nat /\ rq \in Nat
  BY DEF Views
<1>2. s <= q /\ at + q <= level /\ (ra + rq <= at \/ at + q <= ra)
  BY DEF Apart
<1> HIDE DEF q
<1>3. at + s <= m
  <2> HIDE DEF at, s
  <2> QED BY <1>1, <1>2
<1>4. ASSUME NEW j \in at .. at + s - 1 PROVE c[j] = d[j]
  <2> HIDE DEF at, s, ra, rq
  <2>1. j \in 0 .. level - 1 /\ (j < ra \/ ra + rq <= j)
    BY <1>1, <1>2
  <2> QED BY <2>1 DEF Untouched, ra, rq
<1>5. Read(c, at, s) = Read(d, at, s)
  <2> HIDE DEF at, s
  <2> QED BY <1>1, <1>3, <1>4, ReadSame
<1>6. ValueIn(c, v) = Read(c, at, s) /\ ValueIn(d, v) = Read(d, at, s)
  <2>1. v.at + v.size <= m
    BY <1>3
  <2> QED BY <2>1, ReadView
<1> QED BY <1>5, <1>6

\* The part that an invocation waits for lies in its result or among its temporaries.
LEMMA PartFacts ==
  ASSUME NEW f, NEW lim, Placed(f, f.t, lim), Splits(f)
  PROVE  /\ Part(f) \in Views /\ Part(f).at \in Nat \ {0} /\ Part(f).cap \in Nat \ {0}
         /\ Part(f).size = Part(f).cap /\ Part(f).at + Part(f).cap <= Above(f)
         /\ Above(f) \in Nat /\ f.t \in Nat /\ f.t <= Above(f)
         /\ Inside(Part(f), f.res) \/ f.t <= Part(f).at
<1>1. /\ f \in Frames /\ f.n \in Nat /\ f.n >= 10 /\ f.t \in Nat
      /\ f.res.at \in Nat \ {0} /\ f.res.cap \in Nat
      /\ f.res.size = f.res.cap /\ f.res.at + f.res.cap <= f.t
      /\ 2 * f.n + 2 <= f.res.cap
      /\ Above(f) = f.t + 4 * f.n + 4
  BY PlacedFacts
<1>2. /\ result_low(f) = [at |-> f.res.at, cap |-> 2 * f.n, size |-> 2 * f.n]
      /\ result_high(f) = [at |-> f.res.at + 2 * f.n, cap |-> f.res.cap - 2 * f.n,
                           size |-> f.res.cap - 2 * f.n]
      /\ t1(f) = [at |-> f.t, cap |-> 2 * f.n + 2, size |-> 2 * f.n + 2]
      /\ result_low(f) \in Views /\ result_high(f) \in Views /\ t1(f) \in Views
  <2>1. 2 * f.n <= f.res.cap
    BY <1>1
  <2> QED BY <1>1, <2>1, PartsPlaced
<1>3. f.step \in {"low", "high", "middle"}
  BY <1>1 DEF Frames, Splits
<1>4. CASE f.step = "low"
  <2>1. Part(f) = result_low(f)
    BY <1>4 DEF Part
  <2> QED BY <1>1, <1>2, <2>1 DEF Inside
<1>5. CASE f.step = "high"
  <2>1. Part(f) = result_high(f)
    BY <1>5 DEF Part
  <2> QED BY <1>1, <1>2, <2>1 DEF Inside
<1>6. CASE f.step = "middle"
  <2>1. Part(f) = t1(f)
    BY <1>6 DEF Part
  <2> QED BY <1>1, <1>2, <2>1
<1> QED BY <1>3, <1>4, <1>5, <1>6

\* What is written for a part leaves the rest as it was.
LEMMA UntouchedAround ==
  ASSUME NEW c, NEW d, NEW v \in Views, NEW w \in Views, NEW k \in Nat, NEW l \in Nat,
         Untouched(c, d, v, l), k <= l, Inside(v, w) \/ k <= v.at
  PROVE  Untouched(c, d, w, k)
<1>1. v.at \in Nat /\ v.cap \in Nat /\ w.at \in Nat /\ w.cap \in Nat
  BY DEF Views
<1>2. SUFFICES ASSUME NEW j \in 0 .. k - 1, j < w.at \/ w.at + w.cap <= j
               PROVE  c[j] = d[j]
  BY DEF Untouched
<1>3. j \in 0 .. l - 1 /\ (j < v.at \/ v.at + v.cap <= j)
  BY <1>1, <1>2 DEF Inside
<1> QED BY <1>3 DEF Untouched

\* An invocation keeps its operands and the products that it knows of, whatever is
\* written for the part that it waits for.
LEMMA SoundKept ==
  ASSUME NEW f, NEW lim, Placed(f, f.t, lim), Splits(f),
         NEW c, Memory(c, lim), NEW d, Memory(d, lim), Untouched(c, d, Part(f), Above(f))
  PROVE  /\ ValueIn(c, f.a) = ValueIn(d, f.a) /\ ValueIn(c, f.b) = ValueIn(d, f.b)
         /\ \A v \in {f.a, f.b} : Wanted(c, f, v) = Wanted(d, f, v)
         /\ Sound(c, f) => Sound(d, f)
<1>1. /\ f \in Frames /\ f.n \in Nat /\ f.n >= 10 /\ f.t \in Nat /\ lim \in Nat
      /\ f.res.at \in Nat \ {0} /\ f.res.cap \in Nat /\ f.res \in Views
      /\ f.res.size = f.res.cap /\ f.res.at + f.res.cap <= f.t
      /\ 2 * f.n + 2 <= f.res.cap /\ Above(f) = f.t + 4 * f.n + 4 /\ Above(f) <= lim
      /\ \A v \in {f.a, f.b} :
           v \in Views /\ v.size <= v.cap /\ v.at + v.cap <= f.t /\ Apart(f.res, v)
  BY PlacedFacts
<1>2. f.t <= lim
  BY <1>1
<1>3. Untouched(c, d, f.res, f.t)
  BY <1>1, PartFacts, UntouchedAround
<1>4. \A v \in {f.a, f.b} : ValueIn(c, v) = ValueIn(d, v)
  BY <1>1, <1>2, <1>3, OperandKept
<1>5. \A v \in {f.a, f.b} : Wanted(c, f, v) = Wanted(d, f, v)
  BY <1>4 DEF Wanted
<1>6. /\ result_low(f) = [at |-> f.res.at, cap |-> 2 * f.n, size |-> 2 * f.n]
      /\ result_high(f) = [at |-> f.res.at + 2 * f.n, cap |-> f.res.cap - 2 * f.n,
                           size |-> f.res.cap - 2 * f.n]
      /\ t1(f) = [at |-> f.t, cap |-> 2 * f.n + 2, size |-> 2 * f.n + 2]
      /\ result_low(f) \in Views /\ result_high(f) \in Views /\ t1(f) \in Views
  <2>1. 2 * f.n <= f.res.cap
    BY <1>1
  <2> QED BY <1>1, <2>1, PartsPlaced
<1>7. LowProduct(c, f) = LowProduct(d, f) /\ HighProduct(c, f) = HighProduct(d, f)
  BY <1>4 DEF LowProduct, HighProduct
<1>8. ASSUME f.step \in {"high", "middle"}
      PROVE  ValueIn(c, result_low(f)) = ValueIn(d, result_low(f))
  <2> DEFINE v == result_low(f)
             w == Part(f)
  <2>1. \/ w = result_high(f) /\ f.step = "high"
        \/ w = t1(f) /\ f.step = "middle"
    BY <1>8 DEF Part
  <2>2. /\ v \in Views /\ w \in Views /\ v.size <= v.cap /\ v.at + v.cap <= Above(f)
        /\ w.at >= v.at + v.cap
    BY <1>1, <1>6, <2>1
  <2>3. Apart(w, v)
    BY <2>2 DEF Apart
  <2> QED BY <1>1, <2>2, <2>3, OperandKept
<1>9. ASSUME f.step = "middle"
      PROVE  ValueIn(c, result_high(f)) = ValueIn(d, result_high(f))
  <2> DEFINE v == result_high(f)
             w == Part(f)
  <2>1. w = t1(f)
    BY <1>9 DEF Part
  <2>2. /\ v \in Views /\ w \in Views /\ v.size <= v.cap /\ v.at + v.cap <= Above(f)
        /\ w.at >= v.at + v.cap
    BY <1>1, <1>6, <2>1
  <2>3. Apart(w, v)
    BY <2>2 DEF Apart
  <2> QED BY <1>1, <2>2, <2>3, OperandKept
<1>10. Sound(c, f) => Sound(d, f)
  BY <1>7, <1>8, <1>9 DEF Sound
<1> QED BY <1>4, <1>5, <1>10

\* An invocation writes only to the part that one that it serves waits for, or above
\* the temporaries of that one.
Nested(s) ==
  \A i, j \in 1 .. Len(s) :
    i < j => Inside(s[j].res, Part(s[i])) \/ Above(s[i]) <= s[j].res.at

\* Where the product of the factors goes
home == IF HasRoom THEN resultView ELSE View(storage.at, sz)

\* Every invocation multiplies what the one that it serves wants, and the outermost the
\* factors.
Serving(c, s) ==
  /\ Nested(s)
  /\ \A i \in 1 .. Len(s) : Splits(s[i]) => Sound(c, s[i])
  /\ \A i \in 1 .. Len(s) - 1 : Serves(c, s[i], s[i + 1])
  /\ s # <<>> => /\ s[1].res = home /\ s[1].a = aView /\ s[1].b = bView
                 /\ ValueIn(c, aView) = call.a /\ ValueIn(c, bView) = call.b

\* What the innermost invocation writes, the others do not read before they get it.
LEMMA ServersKept ==
  ASSUME NEW s, NEW tk, NEW fl, NEW lim, Stacked(s, tk, fl, lim), s # <<>>, Nested(s),
         NEW c, Memory(c, lim), NEW d, Memory(d, lim),
         Untouched(c, d, LastOf(s).res, Level(LastOf(s), tk))
  PROVE  /\ \A i \in 1 .. Len(s) :
              ValueIn(c, s[i].a) = ValueIn(d, s[i].a) /\ ValueIn(c, s[i].b) = ValueIn(d, s[i].b)
         /\ \A i \in 1 .. Len(s) - 1 :
              /\ Sound(c, s[i]) => Sound(d, s[i])
              /\ Wanted(c, s[i], s[i].a) = Wanted(d, s[i], s[i].a)
              /\ Wanted(c, s[i], s[i].b) = Wanted(d, s[i], s[i].b)
<1> DEFINE m == Len(s)
           g == LastOf(s)
           level == Level(g, tk)
<1>1. s \in Seq(Frames) /\ m \in Nat \ {0} /\ lim \in Nat
  BY DEF Stacked
<1>2. m \in 1 .. m /\ g = s[m]
  BY <1>1 DEF LastOf
<1> HIDE DEF m, g
<1>3. Placed(g, level, lim)
  BY <1>2 DEF Stacked, m
<1>4. /\ g \in Frames /\ level \in Nat /\ level <= lim
      /\ Operand(g.a, g.res, level) /\ Operand(g.b, g.res, level)
  BY <1>3 DEF Placed
<1>5. g.res \in Views /\ g.a \in Views /\ g.b \in Views
  BY <1>4 DEF Frames
<1> HIDE DEF level
<1>6. ValueIn(c, g.a) = ValueIn(d, g.a) /\ ValueIn(c, g.b) = ValueIn(d, g.b)
  <2>1. Untouched(c, d, g.res, level)
    BY DEF g, level
  <2>2. ASSUME NEW v \in Views, Operand(v, g.res, level) PROVE ValueIn(c, v) = ValueIn(d, v)
    <3>1. v.size <= v.cap /\ v.at + v.cap <= level /\ Apart(g.res, v)
      BY <2>2 DEF Operand, Views
    <3> QED BY <1>1, <1>4, <1>5, <2>1, <3>1, OperandKept
  <2> QED BY <1>4, <1>5, <2>2
<1>7. ASSUME NEW i \in 1 .. m - 1
      PROVE  /\ ValueIn(c, s[i].a) = ValueIn(d, s[i].a)
             /\ ValueIn(c, s[i].b) = ValueIn(d, s[i].b)
             /\ Sound(c, s[i]) => Sound(d, s[i])
             /\ Wanted(c, s[i], s[i].a) = Wanted(d, s[i], s[i].a)
             /\ Wanted(c, s[i], s[i].b) = Wanted(d, s[i], s[i].b)
  <2> DEFINE f == s[i]
  <2>1. i \in 1 .. m /\ i < m
    BY <1>1
  <2>2. Splits(f)
    BY <1>7 DEF Stacked, m
  <2>3. Placed(f, f.t, lim)
    <3>1. Placed(f, Level(f, tk), lim)
      BY <2>1 DEF Stacked, m
    <3> QED BY <2>2, <3>1 DEF Level
  <2>4. Above(f) <= level
    <3>1. \A k, l \in 1 .. Len(s) : k < l => Above(s[k]) <= Level(s[l], tk)
      BY DEF Stacked
    <3> QED BY <1>2, <2>1, <3>1 DEF m, level
  <2>5. Inside(g.res, Part(f)) \/ Above(f) <= g.res.at
    <3>1. \A k, l \in 1 .. Len(s) :
            k < l => Inside(s[l].res, Part(s[k])) \/ Above(s[k]) <= s[l].res.at
      BY DEF Nested
    <3> QED BY <1>2, <2>1, <3>1 DEF m
  <2> HIDE DEF f
  <2>6. Part(f) \in Views /\ Above(f) \in Nat
    BY <2>2, <2>3, PartFacts
  <2>7. Untouched(c, d, Part(f), Above(f))
    <3>1. Untouched(c, d, g.res, level)
      BY DEF g, level
    <3> QED BY <1>4, <1>5, <2>4, <2>5, <2>6, <3>1, UntouchedAround
  <2>8. /\ ValueIn(c, f.a) = ValueIn(d, f.a) /\ ValueIn(c, f.b) = ValueIn(d, f.b)
        /\ \A v \in {f.a, f.b} : Wanted(c, f, v) = Wanted(d, f, v)
        /\ Sound(c, f) => Sound(d, f)
    BY <2>2, <2>3, <2>7, SoundKept
  <2> QED BY <2>8 DEF f
<1>8. \A i \in 1 .. m : ValueIn(c, s[i].a) = ValueIn(d, s[i].a)
                        /\ ValueIn(c, s[i].b) = ValueIn(d, s[i].b)
  <2> SUFFICES ASSUME NEW i \in 1 .. m
               PROVE  ValueIn(c, s[i].a) = ValueIn(d, s[i].a)
                      /\ ValueIn(c, s[i].b) = ValueIn(d, s[i].b)
    OBVIOUS
  <2>1. i = m \/ i \in 1 .. m - 1
    BY <1>1
  <2> QED BY <1>2, <1>6, <1>7, <2>1
<1> QED BY <1>7, <1>8 DEF m

\* An invocation begins to multiply what the one that it serves wants.
LEMMA ServingPushed ==
  ASSUME NEW s, NEW tk, NEW fl, NEW lim, Stacked(s, tk, fl, lim), s # <<>>,
         NEW c, Memory(c, lim), NEW d, Memory(d, lim), Serving(c, s),
         Untouched(c, d, LastOf(s).res, Level(LastOf(s), tk)),
         NEW f, Placed(f, f.t, lim), Splits(f), f.t = Level(LastOf(s), tk),
         f.res = LastOf(s).res, f.a = LastOf(s).a, f.b = LastOf(s).b, Sound(d, f),
         NEW g \in Frames, ~Splits(g), g.res = Part(f), Serves(d, f, g)
  PROVE  Serving(d, Append([s EXCEPT ![Len(s)] = f], g))
<1> DEFINE m == Len(s)
           r == [s EXCEPT ![m] = f]
           u == Append(r, g)
           e == LastOf(s)
<1>1. s \in Seq(Frames) /\ m \in Nat \ {0} /\ f \in Frames
  BY DEF Stacked, Placed
<1>2. r \in Seq(Frames) /\ Len(r) = m /\ \A i \in 1 .. m : r[i] = IF i = m THEN f ELSE s[i]
  BY <1>1, ExceptSeq
<1> HIDE DEF r
<1>3. /\ u \in Seq(Frames) /\ Len(u) = m + 1 /\ u # <<>>
      /\ \A i \in 1 .. m : u[i] = r[i]
      /\ u[m + 1] = g
  BY <1>1, <1>2, AppendProperties
<1>4. \A i \in 1 .. m - 1 : u[i] = s[i]
  BY <1>1, <1>2, <1>3
<1>5. u[m] = f /\ m \in 1 .. m /\ e = s[m]
  BY <1>1, <1>2, <1>3 DEF LastOf
<1> HIDE DEF u, m, e
<1>6. e.res = f.res /\ e.a = f.a /\ e.b = f.b /\ Level(e, tk) = f.t
  BY DEF e
<1>7. Nested(s)
  BY DEF Serving
<1>8. /\ \A i \in 1 .. m : ValueIn(c, s[i].a) = ValueIn(d, s[i].a)
                           /\ ValueIn(c, s[i].b) = ValueIn(d, s[i].b)
      /\ \A i \in 1 .. m - 1 :
           /\ Sound(c, s[i]) => Sound(d, s[i])
           /\ Wanted(c, s[i], s[i].a) = Wanted(d, s[i], s[i].a)
           /\ Wanted(c, s[i], s[i].b) = Wanted(d, s[i], s[i].b)
  <2>1. Untouched(c, d, LastOf(s).res, Level(LastOf(s), tk))
    OBVIOUS
  <2> QED BY <1>7, <2>1, ServersKept DEF m
<1>9. \A i \in 1 .. m - 1 : /\ Splits(s[i]) /\ Placed(s[i], s[i].t, lim)
                            /\ Above(s[i]) <= Level(e, tk)
  <2> SUFFICES ASSUME NEW i \in 1 .. m - 1
               PROVE  Splits(s[i]) /\ Placed(s[i], s[i].t, lim) /\ Above(s[i]) <= Level(e, tk)
    OBVIOUS
  <2>1. i \in 1 .. m /\ i < m
    BY <1>1
  <2>2. Splits(s[i])
    BY DEF Stacked, m
  <2>3. Placed(s[i], Level(s[i], tk), lim)
    BY <2>1 DEF Stacked, m
  <2>4. \A k, l \in 1 .. m : k < l => Above(s[k]) <= Level(s[l], tk)
    BY DEF Stacked, m
  <2> QED BY <1>5, <2>1, <2>2, <2>3, <2>4 DEF Level
<1>10. \A i, j \in 1 .. m :
         i < j => Inside(s[j].res, Part(s[i])) \/ Above(s[i]) <= s[j].res.at
  BY <1>7 DEF Nested, m
<1>11. Nested(u)
  <2>1. ASSUME NEW i \in 1 .. m + 1, NEW j \in 1 .. m + 1, i < j
        PROVE  Inside(u[j].res, Part(u[i])) \/ Above(u[i]) <= u[j].res.at
    <3>1. i \in 1 .. m /\ (i \in 1 .. m - 1 \/ i = m) /\ (j \in 1 .. m - 1 \/ j = m \/ j = m + 1)
      BY <1>1, <2>1
    <3>2. CASE j \in 1 .. m - 1
      <4>1. i \in 1 .. m - 1 /\ j \in 1 .. m
        BY <1>1, <2>1, <3>2
      <4> QED BY <1>4, <1>10, <2>1, <3>1, <3>2, <4>1
    <3>3. CASE j = m
      <4>1. i \in 1 .. m - 1
        BY <1>1, <2>1, <3>3
      <4>2. Inside(s[m].res, Part(s[i])) \/ Above(s[i]) <= s[m].res.at
        BY <1>5, <1>10, <2>1, <3>1, <3>3
      <4> QED BY <1>4, <1>5, <1>6, <3>3, <4>1, <4>2
    <3>4. CASE j = m + 1 /\ i = m
      <4>1. Inside(g.res, Part(f))
        <5>1. Part(f) \in Views
          BY PartFacts
        <5> QED BY <5>1 DEF Inside, Views
      <4> QED BY <1>3, <1>5, <3>4, <4>1
    <3>5. CASE j = m + 1 /\ i \in 1 .. m - 1
      <4>1. Inside(f.res, Part(s[i])) \/ Above(s[i]) <= f.res.at
        <5>1. i < m
          BY <1>1, <3>5
        <5> QED BY <1>5, <1>6, <1>10, <3>1, <5>1
      <4>2. Above(s[i]) <= f.t /\ Above(s[i]) \in Nat /\ Part(s[i]) \in Views
        BY <1>6, <1>9, <3>5, PartFacts
      <4>3. /\ g.res \in Views /\ f.t \in Nat /\ f.res \in Views
            /\ Inside(g.res, f.res) \/ f.t <= g.res.at
        BY <1>1, PartFacts DEF Frames
      <4>4. \A v \in {g.res, f.res, Part(s[i])} : v.at \in Nat /\ v.cap \in Nat
        BY <4>2, <4>3 DEF Views
      <4>5. CASE f.t <= g.res.at
        BY <1>3, <1>4, <3>5, <4>2, <4>3, <4>4, <4>5
      <4>6. CASE Inside(g.res, f.res)
        <5>1. CASE Inside(f.res, Part(s[i]))
          <6>1. Inside(g.res, Part(s[i]))
            BY <4>4, <4>6, <5>1 DEF Inside
          <6> QED BY <1>3, <1>4, <3>5, <6>1
        <5>2. CASE Above(s[i]) <= f.res.at
          <6>1. Above(s[i]) <= g.res.at
            BY <4>2, <4>4, <4>6, <5>2 DEF Inside
          <6> QED BY <1>3, <1>4, <3>5, <6>1
        <5> QED BY <4>1, <5>1, <5>2
      <4> QED BY <4>3, <4>5, <4>6
    <3> QED BY <3>1, <3>2, <3>3, <3>4, <3>5
  <2> QED BY <1>3, <2>1 DEF Nested
<1>12. ASSUME NEW i \in 1 .. m + 1, Splits(u[i]) PROVE Sound(d, u[i])
  <2>1. i \in 1 .. m - 1 \/ i = m \/ i = m + 1
    BY <1>1
  <2>2. CASE i \in 1 .. m - 1
    <3>1. Sound(c, s[i])
      <4>1. i \in 1 .. m
        BY <1>1, <2>2
      <4> QED BY <1>9, <2>2, <4>1 DEF Serving, m
    <3> QED BY <1>4, <1>8, <2>2, <3>1
  <2> QED BY <1>3, <1>5, <1>12, <2>1, <2>2
<1>13. ASSUME NEW i \in 1 .. m PROVE Serves(d, u[i], u[i + 1])
  <2>1. CASE i = m
    BY <1>3, <1>5, <2>1
  <2>2. CASE i # m
    <3>1. i \in 1 .. m - 1 /\ i + 1 \in 1 .. m
      BY <1>1, <2>2
    <3>2. Serves(c, s[i], s[i + 1])
      BY <3>1 DEF Serving, m
    <3>3. u[i] = s[i] /\ u[i + 1].a = s[i + 1].a /\ u[i + 1].b = s[i + 1].b
      <4>1. i + 1 = m \/ i + 1 \in 1 .. m - 1
        BY <1>1, <3>1
      <4> QED BY <1>4, <1>5, <1>6, <3>1, <4>1
    <3> QED BY <1>8, <3>1, <3>2, <3>3 DEF Serves
  <2> QED BY <2>1, <2>2
<1>14. /\ u[1].res = home /\ u[1].a = aView /\ u[1].b = bView
       /\ ValueIn(d, aView) = call.a /\ ValueIn(d, bView) = call.b
  <2>1. 1 \in 1 .. m /\ (m = 1 \/ 1 \in 1 .. m - 1)
    BY <1>1
  <2>2. /\ s[1].res = home /\ s[1].a = aView /\ s[1].b = bView
        /\ ValueIn(c, aView) = call.a /\ ValueIn(c, bView) = call.b
    BY DEF Serving
  <2>3. u[1].res = s[1].res /\ u[1].a = s[1].a /\ u[1].b = s[1].b
    BY <1>4, <1>5, <1>6, <2>1
  <2> QED BY <1>8, <2>1, <2>2, <2>3
<1>15. Len(u) - 1 = m
  BY <1>1, <1>3
<1>16. Serving(d, u)
  BY <1>3, <1>11, <1>12, <1>13, <1>14, <1>15 DEF Serving
<1> QED BY <1>16 DEF u, r, m

\* An invocation has ended.
LEMMA ServingPopped ==
  ASSUME NEW s, NEW tk, NEW fl, NEW lim, Stacked(s, tk, fl, lim), s # <<>>,
         NEW c, Memory(c, lim), NEW d, Memory(d, lim), Serving(c, s),
         Untouched(c, d, LastOf(s).res, Level(LastOf(s), tk))
  PROVE  LET rest == SubSeq(s, 1, Len(s) - 1)
         IN /\ Serving(d, rest)
            /\ rest # <<>> =>
                 /\ Splits(LastOf(rest)) /\ Part(LastOf(rest)) = LastOf(s).res
                 /\ WantedProduct(d, LastOf(rest))
                      = ValueIn(c, LastOf(s).a) * ValueIn(c, LastOf(s).b)
            /\ rest = <<>> => /\ LastOf(s).res = home
                              /\ LastOf(s).a = aView /\ LastOf(s).b = bView
                              /\ ValueIn(c, aView) = call.a /\ ValueIn(c, bView) = call.b
<1> DEFINE m == Len(s)
           u == SubSeq(s, 1, m - 1)
<1>1. s \in Seq(Frames) /\ m \in Nat \ {0}
  BY DEF Stacked
<1>2. u \in Seq(Frames) /\ Len(u) = m - 1 /\ \A i \in 1 .. m - 1 : u[i] = s[i]
  <2>1. 1 \in 1 .. m + 1 /\ m - 1 \in 0 .. m /\ Len(s) = m
    BY <1>1
  <2> HIDE DEF m
  <2>2. /\ u \in Seq(Frames)
        /\ Len(u) = IF 1 <= m - 1 THEN (m - 1) - 1 + 1 ELSE 0
        /\ \A i \in 1 .. (m - 1) - 1 + 1 : u[i] = s[1 + i - 1]
    BY <1>1, <2>1, SubSeqProperties
  <2> QED BY <1>1, <2>2
<1>3. Nested(s)
  BY DEF Serving
<1> HIDE DEF u, m
<1>4. /\ \A i \in 1 .. m : ValueIn(c, s[i].a) = ValueIn(d, s[i].a)
                           /\ ValueIn(c, s[i].b) = ValueIn(d, s[i].b)
      /\ \A i \in 1 .. m - 1 :
           /\ Sound(c, s[i]) => Sound(d, s[i])
           /\ Wanted(c, s[i], s[i].a) = Wanted(d, s[i], s[i].a)
           /\ Wanted(c, s[i], s[i].b) = Wanted(d, s[i], s[i].b)
  BY <1>3, ServersKept DEF m
<1>5. \A i \in 1 .. m - 1 : i \in 1 .. m /\ Splits(s[i])
  <2>1. \A i \in 1 .. m - 1 : i \in 1 .. m
    BY <1>1
  <2> QED BY <2>1 DEF Stacked, m
<1>6. Nested(u)
  BY <1>2, <1>3, <1>5 DEF Nested, m
<1>7. \A i \in 1 .. m - 1 : Sound(d, u[i])
  BY <1>2, <1>4, <1>5 DEF Serving, m
<1>8. ASSUME NEW i \in 1 .. m - 1 - 1 PROVE Serves(d, u[i], u[i + 1])
  <2>1. i \in 1 .. m - 1 /\ i + 1 \in 1 .. m - 1 /\ i + 1 \in 1 .. m
    BY <1>1
  <2>2. Serves(c, s[i], s[i + 1])
    BY <2>1 DEF Serving, m
  <2> QED BY <1>2, <1>4, <2>1, <2>2 DEF Serves
<1>9. /\ s[1].res = home /\ s[1].a = aView /\ s[1].b = bView
      /\ ValueIn(c, aView) = call.a /\ ValueIn(c, bView) = call.b
      /\ ValueIn(d, aView) = call.a /\ ValueIn(d, bView) = call.b
  <2>1. /\ s[1].res = home /\ s[1].a = aView /\ s[1].b = bView
        /\ ValueIn(c, aView) = call.a /\ ValueIn(c, bView) = call.b
    BY DEF Serving
  <2>2. 1 \in 1 .. m
    BY <1>1
  <2> QED BY <1>4, <2>1, <2>2
<1>10. u # <<>> => 1 \in 1 .. m - 1
  <2> SUFFICES ASSUME u # <<>> PROVE 1 \in 1 .. m - 1
    OBVIOUS
  <2>1. Len(u) # 0
    BY <1>2
  <2> QED BY <1>1, <1>2, <2>1
<1>11. Serving(d, u)
  BY <1>2, <1>6, <1>7, <1>8, <1>9, <1>10 DEF Serving
<1>12. ASSUME u # <<>>
       PROVE  /\ Splits(LastOf(u)) /\ Part(LastOf(u)) = LastOf(s).res
              /\ WantedProduct(d, LastOf(u)) = ValueIn(c, LastOf(s).a) * ValueIn(c, LastOf(s).b)
  <2>1. m - 1 \in 1 .. m - 1 /\ (m - 1) + 1 = m
    BY <1>1, <1>10, <1>12
  <2>2. LastOf(u) = s[m - 1] /\ LastOf(s) = s[m]
    BY <1>2, <2>1 DEF LastOf, m
  <2>3. Splits(s[m - 1]) /\ s[m].res = Part(s[m - 1])
    <3>1. \A i \in 1 .. m - 1 : Splits(s[i]) /\ s[i + 1].res = Part(s[i])
      BY DEF Stacked, m
    <3> QED BY <2>1, <3>1
  <2>4. Serves(c, s[m - 1], s[m])
    <3>1. \A i \in 1 .. m - 1 : Serves(c, s[i], s[i + 1])
      BY DEF Serving, m
    <3> QED BY <2>1, <3>1
  <2>5. /\ Wanted(c, s[m - 1], s[m - 1].a) = Wanted(d, s[m - 1], s[m - 1].a)
        /\ Wanted(c, s[m - 1], s[m - 1].b) = Wanted(d, s[m - 1], s[m - 1].b)
    BY <1>4, <2>1
  <2> QED BY <2>2, <2>3, <2>4, <2>5 DEF Serves, WantedProduct
<1>13. ASSUME u = <<>> PROVE LastOf(s) = s[1]
  <2>1. m = 1
    BY <1>1, <1>2, <1>13
  <2> QED BY <2>1 DEF LastOf, m
<1> QED BY <1>9, <1>11, <1>12, <1>13 DEF u, m

----------------------------------------------------------------------------
(* The products.                                                           *)

\* An invocation that waits has its product, and at the end the product of the factors
\* is where it goes.
ExactIn(c, s, r) ==
  /\ Serving(c, s)
  /\ s = <<>> => r = Size(Product) /\ ValueIn(c, home) = Product
  /\ s # <<>> /\ Splits(LastOf(s)) => Delivered(c, LastOf(s), r)

\* What a call returns, and when it throws
Answered ==
  /\ pc = "returned" =>
       /\ Result = IF HasRoom THEN Product ELSE Product % Power(type.limbs)
       /\ type.checked => Result = Product
       /\ ret = Size(Result) \/ (type.limbs # 0 /\ HasRoom)
  /\ pc = "threw" => type.checked /\ Product >= Power(type.limbs)

\* The inductive invariant: every invocation multiplies what the one that it serves
\* wants multiplied, and what has been multiplied stays in its place.
Exact ==
  /\ pc = "running" => storage.at = 1 + sz + ResultLimbs /\ ExactIn(cells, stack, ret)
  /\ Answered

\* A step within the recursion
LEMMA ExactStep ==
  ASSUME Exact, pc = "running", pc' = pc, call' = call, storage'.at = storage.at,
         ExactIn(cells', stack', ret')
  PROVE  Exact'
<1>1. type' = type /\ sz' = sz
  BY DEF type, sz
<1>2. HasRoom' = HasRoom
  BY <1>1 DEF HasRoom
<1>3. ResultLimbs' = ResultLimbs
  BY <1>1, <1>2 DEF ResultLimbs
<1>4. aView' = aView /\ bView' = bView /\ resultView' = resultView /\ Product' = Product
  BY <1>1, <1>3 DEF aView, bView, resultView, Product, View
<1>5. home' = home
  BY <1>1, <1>2, <1>4 DEF home, View
<1>6. Serving(cells, stack)'
  BY <1>4, <1>5, Zenon DEF ExactIn, Serving
<1>7. ExactIn(cells, stack, ret)'
  BY <1>4, <1>5, <1>6, Zenon DEF ExactIn
<1>8. (storage.at = 1 + sz + ResultLimbs)'
  BY <1>1, <1>3 DEF Exact
<1>9. Answered'
  BY DEF Answered
<1> QED BY <1>7, <1>8, <1>9 DEF Exact

\* An invocation has ended, and its product is where it belongs.
LEMMA PopExact ==
  ASSUME NEW s, NEW tk, NEW fl, NEW lim, Stacked(s, tk, fl, lim), s # <<>>,
         NEW c, Memory(c, lim), NEW d, Memory(d, lim), Serving(c, s),
         Untouched(c, d, LastOf(s).res, Level(LastOf(s), tk)),
         NEW p, p = ValueIn(c, LastOf(s).a) * ValueIn(c, LastOf(s).b),
         ValueIn(d, [LastOf(s).res EXCEPT !.size = Size(p)]) = p,
         SubSeq(s, 1, Len(s) - 1) = <<>> => ValueIn(d, LastOf(s).res) = p
  PROVE  ExactIn(d, SubSeq(s, 1, Len(s) - 1), Size(p))
<1> DEFINE rest == SubSeq(s, 1, Len(s) - 1)
<1>1. /\ Serving(d, rest)
      /\ rest # <<>> =>
           /\ Splits(LastOf(rest)) /\ Part(LastOf(rest)) = LastOf(s).res
           /\ WantedProduct(d, LastOf(rest)) = p
      /\ rest = <<>> => /\ LastOf(s).res = home
                        /\ LastOf(s).a = aView /\ LastOf(s).b = bView
                        /\ ValueIn(c, aView) = call.a /\ ValueIn(c, bView) = call.b
  BY ServingPopped
<1>2. rest = <<>> => ValueIn(d, LastOf(s).res) = p
  OBVIOUS
<1> HIDE DEF rest
<1>3. rest = <<>> => p = Product /\ ValueIn(d, home) = Product
  BY <1>1, <1>2, Zenon DEF Product
<1>4. rest # <<>> => Delivered(d, LastOf(rest), Size(p))
  BY <1>1, Zenon DEF Delivered
<1>5. ExactIn(d, rest, Size(p))
  BY <1>1, <1>3, <1>4, Zenon DEF ExactIn
<1> QED BY <1>5 DEF rest

\* An invocation begins.
LEMMA PushExact ==
  ASSUME NEW s, NEW tk, NEW fl, NEW lim, Stacked(s, tk, fl, lim), s # <<>>,
         NEW c, Memory(c, lim), NEW d, Memory(d, lim), Serving(c, s),
         Untouched(c, d, LastOf(s).res, Level(LastOf(s), tk)),
         NEW f, Placed(f, f.t, lim), Splits(f), f.t = Level(LastOf(s), tk),
         f.res = LastOf(s).res, f.a = LastOf(s).a, f.b = LastOf(s).b, Sound(d, f),
         NEW g \in Frames, ~Splits(g), g.res = Part(f), Serves(d, f, g), NEW r
  PROVE  ExactIn(d, Append([s EXCEPT ![Len(s)] = f], g), r)
<1> DEFINE more == Append([s EXCEPT ![Len(s)] = f], g)
<1>1. Serving(d, more)
  BY ServingPushed
<1>2. more # <<>> /\ LastOf(more) = g
  <2>1. s \in Seq(Frames) /\ f \in Frames
    BY DEF Stacked, Placed
  <2>2. [s EXCEPT ![Len(s)] = f] \in Seq(Frames)
    BY <2>1, ExceptSeq
  <2> QED BY <2>2, AppendProperties DEF LastOf
<1> HIDE DEF more
<1>3. ExactIn(d, more, r)
  BY <1>1, <1>2, Zenon DEF ExactIn
<1> QED BY <1>3 DEF more

\* What is known of the places of two invocations is known when one begins.
LEMMA StackedTop ==
  ASSUME NEW s \in Seq(Frames), s # <<>>, NEW f, NEW g,
         NEW tk, NEW fl, NEW lim, Stacked(Append([s EXCEPT ![Len(s)] = f], g), tk, fl, lim)
  PROVE  Splits(f) /\ Placed(f, f.t, lim) /\ g.res = Part(f) /\ Placed(g, Level(g, tk), lim)
<1> DEFINE m == Len(s)
           r == [s EXCEPT ![m] = f]
           u == Append(r, g)
           all == Frames \cup {f, g}
<1>1. m \in Nat \ {0}
  OBVIOUS
<1>2. r \in Seq(all) /\ Len(r) = m /\ r[m] = f /\ g \in all
  <2>1. m \in 1 .. m /\ s \in Seq(all) /\ f \in all
    BY <1>1
  <2> HIDE DEF all
  <2> QED BY <2>1, ExceptSeq DEF all
<1> HIDE DEF all
<1> HIDE DEF r
<1>3. Len(u) = m + 1 /\ u[m] = f /\ u[m + 1] = g
  <2>1. /\ u \in Seq(all) /\ Len(u) = m + 1
        /\ \A i \in 1 .. m : u[i] = r[i]
        /\ u[m + 1] = g
    BY <1>1, <1>2, AppendProperties
  <2>2. m \in 1 .. m
    BY <1>1
  <2> QED BY <1>2, <2>1, <2>2
<1> HIDE DEF m
<1>4. Stacked(u, tk, fl, lim)
  BY DEF r, m
<1> HIDE DEF u
<1>5. m \in 1 .. Len(u) - 1 /\ m \in 1 .. Len(u) /\ m + 1 \in 1 .. Len(u)
  BY <1>1, <1>3
<1>6. Splits(f) /\ g.res = Part(f)
  <2>1. Splits(u[m]) /\ u[m + 1].res = Part(u[m])
    BY <1>4, <1>5 DEF Stacked
  <2> QED BY <1>3, <2>1
<1>7. Placed(f, Level(f, tk), lim) /\ Placed(g, Level(g, tk), lim)
  <2>1. Placed(u[m], Level(u[m], tk), lim) /\ Placed(u[m + 1], Level(u[m + 1], tk), lim)
    BY <1>4, <1>5 DEF Stacked
  <2> QED BY <1>3, <2>1
<1> QED BY <1>6, <1>7 DEF Level

\* A number that has been written is the value of a view of it.
LEMMA WrittenNumber ==
  ASSUME NEW m \in Nat \ {0}, NEW c, Memory(c, m), NEW at \in Nat \ {0}, NEW n \in Nat,
         NEW size \in Nat, at + size <= m,
         NEW v \in Views, v.at = at, v.size <= size, n < Power(v.size)
  PROVE  ValueIn(Written(c, at, n, size), v) = n
<1> DEFINE d == Written(c, at, n, size)
           k == v.size
<1>1. Memory(d, m)
  BY WrittenMemory
<1>2. Read(d, at, size) = n % Power(size)
  BY ReadWritten
<1> HIDE DEF d
<1>3. k \in Nat /\ k <= size /\ n < Power(k) /\ at + k <= m
  BY DEF Views
<1>4. ValueIn(d, v) = Read(d, at, k)
  <2>1. v.at + v.size <= m
    BY <1>3
  <2> QED BY <1>1, <2>1, ReadView
<1> HIDE DEF k
<1>5. n < Power(size)
  <2>1. Power(k) <= Power(size) /\ Power(k) \in Nat /\ Power(size) \in Nat
    BY <1>3, PowersGrow, PowerFacts
  <2> QED BY <1>3, <2>1
<1>6. Read(d, at, size) = n
  BY <1>2, <1>5, Parts
<1>7. Read(d, at, k) = Read(d, at, size)
  BY <1>1, <1>3, <1>6, ReadUsed
<1> QED BY <1>4, <1>6, <1>7 DEF d

\* What is known after a step within the recursion
LEMMA StepFacts ==
  ASSUME Placement', pc = "running", pc' = pc, storage'.at = storage.at,
         storage'.capacity = storage.capacity
  PROVE  limit' = limit /\ Memory(cells', limit)
         /\ \E floor : Stacked(stack', taken', floor, limit)
<1>1. limit' = limit
  BY DEF limit
<1>2. (pc = "running" =>
         Memory(cells, limit) /\ Stacked(stack, taken, storage.at + own, limit))'
  BY DEF Placement
<1> QED BY <1>1, <1>2

\* A part has been multiplied.
LEMMA LeafExact ==
  ASSUME Assumptions, Placement, Placement', Exact, Leaf
  PROVE  Exact'
<1> DEFINE p == Value(top.a) * Value(top.b)
           rest == SubSeq(stack, 1, Len(stack) - 1)
<1>1. /\ pc = "running" /\ stack # <<>> /\ top.step = "enter" /\ TooShort
      /\ cells' = Written(cells, top.res.at, p, LeafLimbs)
      /\ stack' = rest /\ ret' = Size(p)
      /\ call' = call /\ storage' = storage /\ pc' = pc
  BY DEF Leaf, Running, Ascend
<1>2. ~Splits(top)
  BY <1>1 DEF Splits
<1>3. Level(top, taken) = taken
  BY <1>2 DEF Level
<1>4. /\ limit \in Nat \ {0} /\ taken \in Nat /\ Memory(cells, limit)
      /\ Placed(top, taken, limit) /\ Stacked(stack, taken, storage.at + own, limit)
      /\ stack \in Seq(Frames) /\ Len(stack) \in Nat \ {0}
      /\ Started /\ karatsuba_cutoff \in Nat
  BY <1>1, <1>3, RunningFacts
<1>5. /\ p \in Nat /\ Size(p) \in Nat /\ Size(p) <= top.res.cap
      /\ LeafLimbs \in Nat /\ LeafLimbs <= top.res.cap /\ Size(p) <= LeafLimbs
  BY <1>2, <1>4, LeafFits
<1>6. top = LastOf(stack)
  BY DEF top, LastOf
<1>7. /\ top.res \in Views /\ top.res.at \in Nat \ {0} /\ top.res.cap \in Nat
      /\ top.res.at + top.res.cap <= taken /\ taken <= limit
  <2>1. /\ top.res \in Views /\ top.res.at >= 1 /\ top.res.at + top.res.cap <= taken
        /\ taken <= limit
    BY <1>4 DEF Placed, Frames
  <2> QED BY <2>1 DEF Views
<1>8. p = ValueIn(cells, top.a) * ValueIn(cells, top.b)
  BY DEF Value
<1> HIDE DEF p, rest
<1>9. Memory(cells', limit)
  BY <1>1, StepFacts
<1>10. Serving(cells, stack)
  BY <1>1 DEF Exact, ExactIn
<1> DEFINE at == top.res.at
           cap == top.res.cap
<1>11. /\ at \in Nat \ {0} /\ cap \in Nat /\ at + cap <= taken /\ taken <= limit
       /\ at + LeafLimbs <= limit
  <2>1. at \in Nat \ {0} /\ cap \in Nat /\ at + cap <= taken /\ LeafLimbs <= cap
    BY <1>5, <1>7
  <2> HIDE DEF at, cap
  <2> QED BY <1>4, <1>5, <1>7, <2>1
<1>12. Untouched(cells, cells', top.res, taken)
  <2>1. \A k \in 0 .. limit - 1 : k < at \/ at + LeafLimbs <= k => cells'[k] = cells[k]
    BY <1>1, <1>4, <1>5, <1>11, WrittenElsewhere
  <2>2. LeafLimbs <= cap
    BY <1>5
  <2> HIDE DEF at, cap
  <2>3. ASSUME NEW k \in 0 .. taken - 1, k < at \/ at + cap <= k PROVE cells[k] = cells'[k]
    <3>1. k \in 0 .. limit - 1 /\ (k < at \/ at + LeafLimbs <= k)
      BY <1>4, <1>5, <1>11, <2>2, <2>3
    <3> QED BY <2>1, <3>1
  <2> QED BY <2>3 DEF Untouched, at, cap
<1>13. ValueIn(cells', [top.res EXCEPT !.size = Size(p)]) = p
  <2> DEFINE v == [top.res EXCEPT !.size = Size(p)]
  <2>1. v \in Views /\ v.at = at /\ v.size = Size(p)
    BY <1>5, <1>7 DEF Views
  <2>2. p < Power(Size(p))
    BY <1>5, Sizes
  <2> HIDE DEF v
  <2>3. ValueIn(Written(cells, at, p, LeafLimbs), v) = p
    <3>1. /\ limit \in Nat \ {0} /\ Memory(cells, limit) /\ at \in Nat \ {0} /\ p \in Nat
          /\ LeafLimbs \in Nat /\ at + LeafLimbs <= limit
      BY <1>4, <1>5, <1>11
    <3>2. v \in Views /\ v.at = at /\ v.size <= LeafLimbs /\ p < Power(v.size)
      BY <1>5, <2>1, <2>2
    <3> HIDE DEF at
    <3> QED BY <3>1, <3>2, WrittenNumber
  <2> QED BY <1>1, <2>3 DEF v
<1>14. rest # <<>>
  <2>1. SUFFICES ASSUME rest = <<>> PROVE FALSE
    OBVIOUS
  <2>2. top = stack[1]
    <3>1. Len(stack) - 1 \in 0 .. Len(stack) /\ 1 \in 1 .. Len(stack) + 1
      BY <1>4
    <3>2. Len(rest) = IF 1 <= Len(stack) - 1 THEN Len(stack) - 1 - 1 + 1 ELSE 0
      BY <1>4, <3>1, SubSeqProperties DEF rest
    <3>3. Len(rest) = 0
      BY <2>1
    <3>4. Len(stack) \in Nat \ {0}
      BY <1>4
    <3>5. Len(stack) = 1
      <4> DEFINE len == Len(stack)
      <4>1. len \in Nat \ {0} /\ 0 = IF 1 <= len - 1 THEN len - 1 - 1 + 1 ELSE 0
        BY <3>2, <3>3, <3>4
      <4> HIDE DEF len
      <4>2. len = 1
        BY <4>1
      <4> QED BY <4>2 DEF len
    <3> QED BY <3>5 DEF top
  <2>3. top.a = aView /\ top.b = bView
    BY <1>1, <1>10, <2>2 DEF Serving
  <2>4. top.a.size = Size(call.a) /\ top.b.size = Size(call.b)
    BY <2>3 DEF aView, bView, View
  <2>5. Size(call.a) \in Nat /\ Size(call.b) \in Nat
    BY <1>4, StartedFacts
  <2> QED BY <1>1, <1>4, <2>4, <2>5 DEF TooShort, Started
<1>15. ExactIn(cells', stack', ret')
  <2>1. Untouched(cells, cells', LastOf(stack).res, Level(LastOf(stack), taken))
    BY <1>3, <1>6, <1>12
  <2>2. /\ p = ValueIn(cells, LastOf(stack).a) * ValueIn(cells, LastOf(stack).b)
        /\ ValueIn(cells', [LastOf(stack).res EXCEPT !.size = Size(p)]) = p
    BY <1>6, <1>8, <1>13
  <2>3. ExactIn(cells', SubSeq(stack, 1, Len(stack) - 1), Size(p))
    BY <1>1, <1>4, <1>9, <1>10, <1>14, <2>1, <2>2, PopExact DEF rest
  <2> QED BY <1>1, <2>3 DEF rest
<1> QED BY <1>1, <1>15, ExactStep

\* The operands of an invocation that has split them, and their parts
LEMMA OperandValues ==
  ASSUME NEW f, NEW lim \in Nat \ {0}, Placed(f, f.t, lim), Splits(f), Memory(cells, lim)
  PROVE  /\ f.n \in Nat \ {0}
         /\ \A v \in {f.a, f.b} :
              /\ v \in Views /\ Value(v) \in Nat /\ Value(v) < Power(v.size)
              /\ v.size \in 1 .. 2 * f.n /\ v.at + v.size <= lim
              /\ Value(Low(v, f.n)) = Value(v) % Power(f.n)
              /\ Value(High(v, f.n)) = Value(v) \div Power(f.n)
<1>1. /\ f.n \in Nat /\ f.n >= 10 /\ f.t \in Nat /\ Above(f) = f.t + 4 * f.n + 4
      /\ Above(f) <= lim
      /\ \A v \in {f.a, f.b} :
           /\ v \in Views /\ v.at \in Nat /\ v.cap \in Nat /\ v.size \in 20 .. 2 * f.n
           /\ v.size <= v.cap /\ v.at + v.cap <= f.t
  BY PlacedFacts
<1>2. f.n \in Nat \ {0} /\ f.t <= lim
  BY <1>1
<1>3. ASSUME NEW v \in {f.a, f.b}
      PROVE  v \in Views /\ v.size \in 1 .. 2 * f.n /\ v.at + v.size <= lim
  BY <1>1, <1>2, <1>3
<1>4. ASSUME NEW v \in {f.a, f.b}
      PROVE  /\ Value(v) \in Nat /\ Value(v) < Power(v.size)
             /\ Value(Low(v, f.n)) = Value(v) % Power(f.n)
             /\ Value(High(v, f.n)) = Value(v) \div Power(f.n)
  BY <1>2, <1>3, <1>4, PartValues
<1> QED BY <1>2, <1>3, <1>4

\* The product of the low parts begins.
LEMMA SplitExact ==
  ASSUME Assumptions, Placement, Placement', Exact, Split
  PROVE  Exact'
<1> DEFINE f == [top EXCEPT !.step = "low", !.n = half, !.t = storage.at + storage.allocated]
           g == Frame(result_low(f), Low(f.a, f.n), Low(f.b, f.n))
<1>1. /\ pc = "running" /\ stack # <<>> /\ top.step = "enter"
      /\ storage' = [storage EXCEPT !.allocated = @ + Taken(f.n)]
      /\ stack' = Append([stack EXCEPT ![Len(stack)] = f], g)
      /\ call' = call /\ cells' = cells /\ ret' = ret /\ pc' = pc
  BY DEF Split, Running, Descend
<1>2. ~Splits(top)
  BY <1>1 DEF Splits
<1>3. Level(top, taken) = taken
  BY <1>2 DEF Level
<1>4. /\ limit \in Nat \ {0} /\ Memory(cells, limit) /\ stack \in Seq(Frames)
      /\ Stacked(stack, taken, storage.at + own, limit)
      /\ storage \in [at : Nat \ {0}, capacity : Nat, allocated : Nat]
      /\ top \in Frames
  BY <1>1, <1>3, RunningFacts
<1>5. /\ f.step = "low" /\ f.t = taken /\ f.res = top.res /\ f.a = top.a /\ f.b = top.b
  BY <1>4 DEF Frames, taken
<1> HIDE DEF f
<1>6. g.res = result_low(f) /\ g.a = Low(f.a, f.n) /\ g.b = Low(f.b, f.n) /\ ~Splits(g)
  BY DEF Frame, Splits
<1> HIDE DEF g
<1>7. storage'.at = storage.at /\ storage'.capacity = storage.capacity
  BY <1>1, <1>4
<1>8. Splits(f) /\ Placed(f, f.t, limit) /\ g.res = Part(f) /\ g \in Frames
  <2>1. PICK floor : Stacked(stack', taken', floor, limit)
    BY <1>1, <1>7, StepFacts
  <2>2. Placed(g, Level(g, taken'), limit) /\ Splits(f) /\ Placed(f, f.t, limit)
        /\ g.res = Part(f)
    BY <1>1, <1>4, <2>1, StackedTop
  <2> QED BY <2>2 DEF Placed
<1>9. Serves(cells, f, g)
  <2>1. \A v \in {f.a, f.b} : Value(Low(v, f.n)) = Value(v) % Power(f.n)
    BY <1>4, <1>8, OperandValues
  <2> QED BY <1>5, <1>6, <2>1 DEF Serves, Wanted, Value
<1>10. Sound(cells, f)
  BY <1>5 DEF Sound
<1>11. top = LastOf(stack)
  BY DEF top, LastOf
<1>12. Untouched(cells, cells, LastOf(stack).res, Level(LastOf(stack), taken))
  BY DEF Untouched
<1>13. Serving(cells, stack)
  BY <1>1 DEF Exact, ExactIn
<1>14. /\ f.t = Level(LastOf(stack), taken) /\ f.res = LastOf(stack).res
       /\ f.a = LastOf(stack).a /\ f.b = LastOf(stack).b
  BY <1>3, <1>5, <1>11
<1>15. ExactIn(cells, Append([stack EXCEPT ![Len(stack)] = f], g), ret)
  BY <1>1, <1>4, <1>6, <1>8, <1>9, <1>10, <1>12, <1>13, <1>14, PushExact
<1> QED BY <1>1, <1>7, <1>15, ExactStep

\* The limbs of a part above the product are cleared.
LEMMA PartCleared ==
  ASSUME NEW lim \in Nat \ {0}, NEW f, Placed(f, f.t, lim), Splits(f), NEW c, Memory(c, lim),
         NEW r \in Nat, r <= Part(f).cap,
         NEW d, d = Written(c, Part(f).at + r, 0, Part(f).cap - r)
  PROVE  /\ Memory(d, lim) /\ Untouched(c, d, Part(f), Above(f))
         /\ ValueIn(d, Part(f)) = ValueIn(c, [Part(f) EXCEPT !.size = r])
<1> DEFINE v == Part(f)
           w == [v EXCEPT !.size = r]
           at == v.at
           k == v.cap
<1>1. /\ v \in Views /\ at \in Nat \ {0} /\ k \in Nat \ {0} /\ v.size = k
      /\ at + k <= Above(f) /\ Above(f) \in Nat /\ Above(f) <= lim
  BY PartFacts, PlacedFacts
<1>2. w \in Views /\ w.at = at /\ w.size = r
  BY <1>1 DEF Views
<1> HIDE DEF v, w
<1>3. r <= k /\ d = Written(c, at + r, 0, k - r)
  BY DEF v
<1> HIDE DEF at, k
<1>4. PICK l \in Nat : r + l = k
  <2>1. k - r \in Nat /\ r + (k - r) = k
    BY <1>1, <1>3
  <2> QED BY <2>1
<1>5. /\ l = k - r /\ at + r \in Nat \ {0} /\ (at + r) + l <= lim /\ at + r + l <= lim
      /\ at + r <= lim /\ at + k <= lim /\ (at + r) + l = at + k
  BY <1>1, <1>3, <1>4
<1>6. d = Written(c, at + r, 0, l)
  BY <1>3, <1>5
<1>7. Memory(d, lim)
  <2>1. 0 \in Int /\ l \in Int /\ at + r \in Nat \ {0}
    BY <1>4, <1>5
  <2> QED BY <1>6, <2>1, WrittenMemory
<1>8. \A j \in 0 .. lim - 1 : j < at + r \/ at + k <= j => d[j] = c[j]
  <2>1. \A j \in 0 .. lim - 1 : j < at + r \/ (at + r) + l <= j => d[j] = c[j]
    BY <1>5, <1>6, WrittenElsewhere
  <2> QED BY <1>5, <2>1
<1>9. Untouched(c, d, v, Above(f))
  <2>1. ASSUME NEW j \in 0 .. Above(f) - 1, j < at \/ at + k <= j PROVE c[j] = d[j]
    <3>1. j \in 0 .. lim - 1 /\ (j < at + r \/ at + k <= j)
      BY <1>1, <2>1
    <3> QED BY <1>8, <3>1
  <2> QED BY <2>1 DEF Untouched, at, k
<1>10. Read(d, at, k) = Read(c, at, r)
  <2>1. Read(d, at, r) = Read(c, at, r)
    <3>1. \A j \in at .. at + r - 1 : d[j] = c[j]
      <4>1. \A j \in at .. at + r - 1 : j \in 0 .. lim - 1 /\ j < at + r
        BY <1>1, <1>5
      <4> QED BY <1>8, <4>1
    <3> QED BY <1>1, <1>5, <1>7, <3>1, ReadSame
  <2>2. Read(d, at + r, l) = 0
    <3>1. Read(d, at + r, l) = 0 % Power(l)
      BY <1>4, <1>5, <1>6, ReadWritten
    <3>2. 0 % Power(l) = 0
      <4>1. Power(l) \in Nat \ {0}
        BY <1>4, PowerFacts
      <4> QED BY <4>1, NaturalDivision
    <3> QED BY <3>1, <3>2
  <2>3. Read(d, at, r + l) = Read(d, at, r) + Power(r) * Read(d, at + r, l)
    BY <1>1, <1>4, <1>5, <1>7, ReadJoined
  <2>4. Power(r) * 0 = 0 /\ Read(c, at, r) \in Nat
    <3>1. Power(r) \in Nat
      BY PowerFacts
    <3>2. Power(r) * 0 = 0
      BY <3>1, Products
    <3> QED BY <1>1, <1>5, <3>2, ReadBounded
  <2> QED BY <1>4, <2>1, <2>2, <2>3, <2>4
<1>11. ValueIn(d, v) = Read(d, at, k) /\ ValueIn(c, w) = Read(c, at, r)
  <2>1. v.at + v.size <= lim /\ w.at + w.size <= lim
    BY <1>1, <1>2, <1>5 DEF at
  <2> QED BY <1>1, <1>2, <1>7, <2>1, ReadView DEF at, v
<1> QED BY <1>7, <1>9, <1>10, <1>11 DEF v, w

\* The high part of an operand, or the zero that replaces it, is not written over.
LEMMA HighKept ==
  ASSUME NEW f, NEW lim \in Nat \ {0}, Placed(f, f.t, lim), Splits(f), Memory(cells, lim),
         NEW d, Memory(d, lim), Untouched(cells, d, f.res, f.t)
  PROVE  \A v \in {f.a, f.b} : ValueIn(d, High(v, f.n)) = Value(High(v, f.n))
<1> SUFFICES ASSUME NEW v \in {f.a, f.b}
             PROVE  ValueIn(d, High(v, f.n)) = Value(High(v, f.n))
  OBVIOUS
<1>1. /\ f.n \in Nat \ {0} /\ f.t \in Nat /\ f.t <= lim
      /\ f.res \in Views /\ f.res.at \in Nat \ {0} /\ f.res.cap \in Nat
      /\ f.res.at + f.res.cap <= f.t
      /\ v \in Views /\ v.at \in Nat /\ v.cap \in Nat /\ v.size \in 1 .. 2 * f.n
      /\ v.size <= v.cap /\ v.at + v.cap <= f.t /\ Apart(f.res, v)
  <2>1. /\ f.n \in Nat /\ f.n >= 10 /\ f.t \in Nat /\ Above(f) = f.t + 4 * f.n + 4
        /\ Above(f) <= lim
    BY PlacedFacts
  <2>2. f.n \in Nat \ {0} /\ f.t <= lim
    BY <2>1
  <2>3. v.size \in 20 .. 2 * f.n => v.size \in 1 .. 2 * f.n
    BY <2>1
  <2> QED BY <2>1, <2>2, <2>3, PlacedFacts
<1> DEFINE h == High(v, f.n)
<1>2. IsHigh(h, v, f.n)
  <2>1. v.at + v.size <= lim
    BY <1>1
  <2> QED BY <1>1, <2>1, PartsOfOperand
<1> HIDE DEF h
<1>3. h \in Views /\ h.size <= h.cap /\ h.at + h.cap <= f.t /\ Apart(f.res, h)
  <2>1. CASE v.size > f.n
    <3>1. h \in Views /\ h.at = v.at + f.n /\ h.cap = v.size - f.n /\ h.size \in 1 .. h.cap
      BY <1>2, <2>1 DEF IsHigh
    <3> QED BY <1>1, <2>1, <3>1 DEF Apart
  <2>2. CASE ~(v.size > f.n)
    <3>1. h \in Views /\ h = zero
      BY <1>2, <2>2 DEF IsHigh
    <3>2. h.at = 0 /\ h.cap = 1 /\ h.size = 1
      BY <3>1 DEF zero, View
    <3> QED BY <1>1, <3>1, <3>2 DEF Apart
  <2> QED BY <2>1, <2>2
<1>4. ValueIn(cells, h) = ValueIn(d, h)
  BY <1>1, <1>3, OperandKept
<1> QED BY <1>4 DEF Value, h

\* The product of the high parts begins.
LEMMA LowDoneExact ==
  ASSUME Assumptions, Placement, Placement', Exact, LowDone
  PROVE  Exact'
<1> DEFINE f == [top EXCEPT !.step = "high", !.low = ret]
           g == Frame(result_high(f), High(f.a, f.n), High(f.b, f.n))
           low == result_low(top)
<1>1. /\ pc = "running" /\ stack # <<>> /\ top.step = "low"
      /\ stack' = Append([stack EXCEPT ![Len(stack)] = f], g)
      /\ cells' = Written(cells, low.at + ret, 0, low.cap - ret)
      /\ call' = call /\ storage' = storage /\ ret' = ret /\ pc' = pc
  BY DEF LowDone, Running, Descend, cleared
<1>2. Splits(top) /\ Part(top) = low
  BY <1>1 DEF Splits, Part
<1>3. /\ limit \in Nat \ {0} /\ Memory(cells, limit) /\ ret \in Nat
      /\ Stacked(stack, taken, storage.at + own, limit)
      /\ Placed(top, top.t, limit) /\ top.t = Level(stack[Len(stack)], taken)
      /\ top \in Frames /\ ret <= Part(top).cap
  BY <1>1, <1>2, SplitFacts
<1>4. stack \in Seq(Frames) /\ top = LastOf(stack)
  BY <1>3 DEF Stacked, top, LastOf
<1>5. /\ f.res = top.res /\ f.a = top.a /\ f.b = top.b /\ f.n = top.n
      /\ f.t = top.t /\ f.step = "high" /\ f.low = ret
  BY <1>3 DEF Frames
<1> HIDE DEF f
<1>6. g.a = High(f.a, f.n) /\ g.b = High(f.b, f.n) /\ ~Splits(g)
  BY DEF Frame, Splits
<1> HIDE DEF g, low
<1>7. Splits(f) /\ Placed(f, f.t, limit) /\ g.res = Part(f) /\ g \in Frames
  <2>1. PICK floor : Stacked(stack', taken', floor, limit)
    BY <1>1, StepFacts
  <2>2. Placed(g, Level(g, taken'), limit) /\ Splits(f) /\ Placed(f, f.t, limit)
        /\ g.res = Part(f)
    BY <1>1, <1>4, <2>1, StackedTop
  <2> QED BY <2>2 DEF Placed
<1>8. /\ Memory(cells', limit) /\ Untouched(cells, cells', Part(top), Above(top))
      /\ ValueIn(cells', low) = ValueIn(cells, [Part(top) EXCEPT !.size = ret])
  BY <1>1, <1>2, <1>3, PartCleared
<1>9. Untouched(cells, cells', top.res, top.t)
  <2>1. /\ Part(top) \in Views /\ top.t \in Nat /\ Above(top) \in Nat /\ top.t <= Above(top)
        /\ Inside(Part(top), top.res) \/ top.t <= Part(top).at
    BY <1>2, <1>3, PartFacts
  <2>2. top.res \in Views
    BY <1>3 DEF Frames
  <2> QED BY <1>8, <2>1, <2>2, UntouchedAround
<1>10. ValueIn(cells, f.a) = ValueIn(cells', f.a) /\ ValueIn(cells, f.b) = ValueIn(cells', f.b)
  BY <1>2, <1>3, <1>5, <1>8, SoundKept
<1>11. Delivered(cells, top, ret) /\ Serving(cells, stack)
  BY <1>1, <1>2, <1>4 DEF Exact, ExactIn
<1>12. WantedProduct(cells, top) = LowProduct(cells', f)
  BY <1>1, <1>5, <1>10 DEF WantedProduct, Wanted, LowProduct
<1>13. Sound(cells', f)
  <2>1. result_low(f) = low
    BY <1>5 DEF result_low, low
  <2>2. ValueIn(cells', result_low(f)) = LowProduct(cells', f)
        /\ f.low = Size(LowProduct(cells', f))
    BY <1>5, <1>8, <1>11, <1>12, <2>1 DEF Delivered
  <2> QED BY <1>5, <2>2 DEF Sound
<1>14. Serves(cells', f, g)
  <2>1. \A v \in {f.a, f.b} : ValueIn(cells', High(v, f.n)) = Value(High(v, f.n))
    BY <1>3, <1>5, <1>7, <1>8, <1>9, HighKept
  <2>2. \A v \in {f.a, f.b} : Value(High(v, f.n)) = Value(v) \div Power(f.n)
    BY <1>3, <1>7, OperandValues
  <2> QED BY <1>5, <1>6, <1>10, <2>1, <2>2 DEF Serves, Wanted, Value
<1>15. /\ f.t = Level(LastOf(stack), taken) /\ f.res = LastOf(stack).res
       /\ f.a = LastOf(stack).a /\ f.b = LastOf(stack).b
       /\ Untouched(cells, cells', LastOf(stack).res, Level(LastOf(stack), taken))
  BY <1>3, <1>4, <1>5, <1>9 DEF LastOf
<1>16. ExactIn(cells', Append([stack EXCEPT ![Len(stack)] = f], g), ret)
  BY <1>1, <1>3, <1>6, <1>7, <1>8, <1>11, <1>13, <1>14, <1>15, PushExact
<1> QED BY <1>1, <1>16, ExactStep

\* What lies below the place that is written to remains.
LEMMA BelowKept ==
  ASSUME NEW m \in Nat \ {0}, NEW c, Memory(c, m), NEW at \in Nat \ {0}, NEW n \in Nat,
         NEW size \in Nat, at + size <= m, NEW d, d = Written(c, at, n, size)
  PROVE  /\ Memory(d, m)
         /\ \A k \in 0 .. at - 1 : d[k] = c[k]
         /\ \A v \in Views : v.size <= v.cap /\ v.at + v.cap <= at => ValueIn(d, v) = ValueIn(c, v)
<1>1. Memory(d, m)
  BY WrittenMemory
<1>2. \A k \in 0 .. at - 1 : d[k] = c[k]
  <2>1. \A k \in 0 .. m - 1 : k < at \/ at + size <= k => d[k] = c[k]
    BY WrittenElsewhere
  <2>2. \A k \in 0 .. at - 1 : k \in 0 .. m - 1 /\ k < at
    OBVIOUS
  <2> QED BY <2>1, <2>2
<1>3. ASSUME NEW v \in Views, v.size <= v.cap, v.at + v.cap <= at
      PROVE  ValueIn(d, v) = ValueIn(c, v)
  <2> DEFINE e == View(at, 0)
  <2>1. e \in Views /\ Apart(e, v)
    BY <1>3 DEF View, Views, Apart
  <2> HIDE DEF e
  <2>2. Untouched(d, c, e, at)
    BY <1>2 DEF Untouched
  <2>3. at <= m
    OBVIOUS
  <2> QED BY <1>1, <1>3, <2>1, <2>2, <2>3, OperandKept
<1> QED BY <1>1, <1>2, <1>3

\* The product of the sums begins.
LEMMA HighDoneExact ==
  ASSUME Assumptions, Placement, Placement', Exact, HighDone
  PROVE  Exact'
<1> DEFINE f == [top EXCEPT !.step = "middle", !.high = ret]
           x == Value(Low(f.a, f.n)) + Value(High(f.a, f.n))
           y == Value(Low(f.b, f.n)) + Value(High(f.b, f.n))
           k == Size(x)
           l == Size(y)
           a == [t2(f) EXCEPT !.size = k]
           b == [t3(f) EXCEPT !.size = l]
           g == Frame(t1(f), a, b)
           high == result_high(top)
           c1 == Written(cells, high.at + ret, 0, high.cap - ret)
           c2 == Written(c1, t2(f).at, x, k)
           c3 == Written(c2, t3(f).at, y, l)
<1>1. /\ pc = "running" /\ stack # <<>> /\ top.step = "high"
      /\ stack' = Append([stack EXCEPT ![Len(stack)] = f], g)
      /\ cells' = c3
      /\ call' = call /\ storage' = storage /\ ret' = ret /\ pc' = pc
  BY DEF HighDone, Running, Descend, cleared
<1>2. Splits(top) /\ Part(top) = high
  BY <1>1 DEF Splits, Part
<1>3. /\ limit \in Nat \ {0} /\ Memory(cells, limit) /\ ret \in Nat
      /\ Stacked(stack, taken, storage.at + own, limit)
      /\ Placed(top, top.t, limit) /\ top.t = Level(stack[Len(stack)], taken)
      /\ top \in Frames /\ ret <= Part(top).cap
      /\ top.n \in Nat \ {0} /\ top.t \in Nat \ {0}
      /\ top.res.at \in Nat \ {0} /\ top.res.cap \in Nat /\ top.res \in Views
      /\ top.res.size = top.res.cap /\ top.res.at + top.res.cap <= top.t
      /\ 2 * top.n + 2 <= top.res.cap /\ Above(top) = top.t + 4 * top.n + 4
      /\ Above(top) <= limit
      /\ \A v \in {top.a, top.b} :
           v \in Views /\ v.size \in 1 .. 2 * top.n /\ v.at + v.size <= limit
  BY <1>1, <1>2, SplitFacts
<1>4. stack \in Seq(Frames) /\ top = LastOf(stack)
  BY <1>3 DEF Stacked, top, LastOf
<1>5. /\ f \in Frames /\ f.res = top.res /\ f.a = top.a /\ f.b = top.b /\ f.n = top.n
      /\ f.t = top.t /\ f.step = "middle" /\ f.high = ret /\ f.low = top.low
  BY <1>3 DEF Frames
<1> HIDE DEF f
<1>6. x \in Nat /\ y \in Nat /\ k \in 1 .. f.n + 1 /\ l \in 1 .. f.n + 1
  BY <1>3, <1>5, PartsOfOperand
<1>7. x < Power(k) /\ y < Power(l)
  BY <1>6, Sizes
<1>8. /\ x = (Value(f.a) % Power(f.n)) + (Value(f.a) \div Power(f.n))
      /\ y = (Value(f.b) % Power(f.n)) + (Value(f.b) \div Power(f.n))
  <2>1. \A v \in {top.a, top.b} : /\ Value(Low(v, top.n)) = Value(v) % Power(top.n)
                                  /\ Value(High(v, top.n)) = Value(v) \div Power(top.n)
    BY <1>2, <1>3, OperandValues
  <2> QED BY <1>5, <2>1
<1> HIDE DEF x, y, k, l
<1>9. g.a = a /\ g.b = b /\ ~Splits(g)
  BY DEF Frame, Splits
<1> HIDE DEF g
<1>10. Splits(f) /\ Placed(f, f.t, limit) /\ g.res = Part(f) /\ g \in Frames
  <2>1. PICK floor : Stacked(stack', taken', floor, limit)
    BY <1>1, StepFacts
  <2>2. Placed(g, Level(g, taken'), limit) /\ Splits(f) /\ Placed(f, f.t, limit)
        /\ g.res = Part(f)
    BY <1>1, <1>4, <2>1, StackedTop
  <2> QED BY <2>2 DEF Placed
<1> DEFINE n == f.n
           tt == f.t
<1>11. /\ t2(f) = [at |-> tt + 2 * n + 2, cap |-> n + 1, size |-> n + 1]
       /\ t3(f) = [at |-> tt + 3 * n + 3, cap |-> n + 1, size |-> n + 1]
       /\ result_low(f) = [at |-> f.res.at, cap |-> 2 * n, size |-> 2 * n]
       /\ result_high(f) = [at |-> f.res.at + 2 * n, cap |-> f.res.cap - 2 * n,
                            size |-> f.res.cap - 2 * n]
       /\ result_low(f) \in Views /\ result_high(f) \in Views
  <2>1. 2 * top.n <= top.res.cap
    BY <1>3
  <2>2. /\ f \in Frames /\ f.res.at + f.res.cap <= f.t /\ f.res.size = f.res.cap
        /\ 2 * f.n <= f.res.cap
    BY <1>3, <1>5, <2>1
  <2> QED BY <2>2, PartsPlaced
<1>12. n \in Nat \ {0} /\ tt \in Nat \ {0} /\ tt + 4 * n + 4 <= limit
       /\ limit \in Nat \ {0} /\ k \in 1 .. n + 1 /\ l \in 1 .. n + 1
  BY <1>3, <1>5, <1>6
<1> HIDE DEF n, tt, high, c1, c2, c3, a, b
<1>13. /\ a = [at |-> tt + 2 * n + 2, cap |-> n + 1, size |-> k]
       /\ b = [at |-> tt + 3 * n + 3, cap |-> n + 1, size |-> l]
  BY <1>11 DEF a, b
<1>14. /\ Memory(c1, limit) /\ Untouched(cells, c1, Part(top), Above(top))
       /\ ValueIn(c1, high) = ValueIn(cells, [Part(top) EXCEPT !.size = ret])
  <2>1. c1 = Written(cells, Part(top).at + ret, 0, Part(top).cap - ret)
    BY <1>2 DEF c1
  <2>2. limit \in Nat \ {0} /\ Memory(cells, limit) /\ ret \in Nat /\ ret <= Part(top).cap
        /\ Placed(top, top.t, limit)
    BY <1>3
  <2>3. /\ Memory(c1, limit) /\ Untouched(cells, c1, Part(top), Above(top))
        /\ ValueIn(c1, Part(top)) = ValueIn(cells, [Part(top) EXCEPT !.size = ret])
    BY <1>2, <2>1, <2>2, PartCleared
  <2> QED BY <1>2, <2>3
<1> DEFINE u == tt + 2 * n + 2
           w == tt + 3 * n + 3
<1>15. /\ u \in Nat \ {0} /\ u + k <= limit /\ u + (n + 1) <= w /\ tt <= u
       /\ w \in Nat \ {0} /\ w + l <= limit /\ k \in Nat /\ l \in Nat /\ n + 1 \in Nat
       /\ k <= n + 1 /\ l <= n + 1 /\ tt <= w
  BY <1>12
<1>16. a \in Views /\ a.at = u /\ a.cap = n + 1 /\ a.size = k
       /\ b \in Views /\ b.at = w /\ b.cap = n + 1 /\ b.size = l
  BY <1>13, <1>15 DEF Views
<1>17. c2 = Written(c1, u, x, k) /\ c3 = Written(c2, w, y, l)
  BY <1>11 DEF c2, c3
<1> HIDE DEF u, w
<1>18. /\ Memory(c2, limit)
       /\ \A j \in 0 .. u - 1 : c2[j] = c1[j]
       /\ \A v \in Views : v.size <= v.cap /\ v.at + v.cap <= u => ValueIn(c2, v) = ValueIn(c1, v)
  <2>1. /\ limit \in Nat \ {0} /\ Memory(c1, limit) /\ u \in Nat \ {0} /\ x \in Nat
        /\ k \in Nat /\ u + k <= limit /\ c2 = Written(c1, u, x, k)
    BY <1>6, <1>12, <1>14, <1>15, <1>17
  <2> QED BY <2>1, BelowKept
<1>19. /\ Memory(c3, limit)
       /\ \A j \in 0 .. w - 1 : c3[j] = c2[j]
       /\ \A v \in Views : v.size <= v.cap /\ v.at + v.cap <= w => ValueIn(c3, v) = ValueIn(c2, v)
  <2>1. /\ limit \in Nat \ {0} /\ Memory(c2, limit) /\ w \in Nat \ {0} /\ y \in Nat
        /\ l \in Nat /\ w + l <= limit /\ c3 = Written(c2, w, y, l)
    BY <1>6, <1>12, <1>15, <1>17, <1>18
  <2> QED BY <2>1, BelowKept
<1>20. ValueIn(c2, a) = x
  BY <1>6, <1>7, <1>12, <1>14, <1>15, <1>16, <1>17, WrittenNumber
<1>21. ValueIn(c3, b) = y
  BY <1>6, <1>7, <1>12, <1>15, <1>16, <1>17, <1>18, WrittenNumber
<1>22. ValueIn(c3, a) = x
  BY <1>15, <1>16, <1>19, <1>20
<1>23. \A v \in Views : v.size <= v.cap /\ v.at + v.cap <= tt => ValueIn(c3, v) = ValueIn(c1, v)
  <2> SUFFICES ASSUME NEW v \in Views, v.size <= v.cap, v.at + v.cap <= tt
               PROVE  ValueIn(c3, v) = ValueIn(c1, v)
    OBVIOUS
  <2>1. v.at + v.cap <= u /\ v.at + v.cap <= w
    <3>1. v.at + v.cap \in Nat
      BY DEF Views
    <3> QED BY <1>12, <1>15, <3>1
  <2> QED BY <1>18, <1>19, <2>1
<1>24. /\ ValueIn(cells, top.a) = ValueIn(c1, top.a) /\ ValueIn(cells, top.b) = ValueIn(c1, top.b)
       /\ Sound(cells, top) => Sound(c1, top)
  BY <1>2, <1>3, <1>14, SoundKept
<1>25. ValueIn(c3, f.a) = Value(f.a) /\ ValueIn(c3, f.b) = Value(f.b)
  <2>1. \A v \in {f.a, f.b} : v \in Views /\ v.size <= v.cap /\ v.at + v.cap <= tt
    BY <1>10, PlacedFacts DEF tt
  <2> QED BY <1>5, <1>23, <1>24, <2>1 DEF Value
<1>26. Delivered(cells, top, ret) /\ Serving(cells, stack)
  BY <1>1, <1>2, <1>4 DEF Exact, ExactIn
<1>27. Sound(c1, top)
  <2>1. Len(stack) \in 1 .. Len(stack)
    BY <1>1, <1>4
  <2>2. Sound(cells, top)
    BY <1>2, <1>26, <2>1 DEF Serving, top
  <2> QED BY <1>24, <2>2
<1>28. /\ ValueIn(c3, result_low(f)) = ValueIn(c1, result_low(top))
       /\ ValueIn(c3, result_high(f)) = ValueIn(c1, high)
  <2>1. result_low(f) = result_low(top) /\ result_high(f) = high
    BY <1>5 DEF result_low, result_high, high
  <2>2. f.res.at \in Nat /\ f.res.cap \in Nat /\ f.res.at + f.res.cap <= tt
        /\ 2 * n <= f.res.cap
    <3>1. /\ f.res.at \in Nat \ {0} /\ f.res.cap \in Nat /\ f.res.at + f.res.cap <= f.t
          /\ 2 * f.n + 2 <= f.res.cap /\ f.n \in Nat
      BY <1>10, PlacedFacts
    <3>2. 2 * f.n <= f.res.cap
      BY <3>1
    <3> QED BY <3>1, <3>2 DEF tt, n
  <2>3. \A v \in {result_low(f), result_high(f)} :
          v \in Views /\ v.size <= v.cap /\ v.at + v.cap <= tt
    BY <1>11, <1>12, <2>2
  <2> QED BY <1>23, <2>1, <2>3
<1>29. LowProduct(c3, f) = LowProduct(c1, top) /\ HighProduct(c3, f) = WantedProduct(cells, top)
  BY <1>1, <1>5, <1>24, <1>25 DEF LowProduct, HighProduct, WantedProduct, Wanted, Value
<1>30. Sound(c3, f)
  <2>1. ValueIn(c3, result_low(f)) = LowProduct(c3, f) /\ f.low = Size(LowProduct(c3, f))
    BY <1>1, <1>5, <1>27, <1>28, <1>29 DEF Sound
  <2>2. ValueIn(c3, result_high(f)) = HighProduct(c3, f) /\ f.high = Size(HighProduct(c3, f))
    BY <1>5, <1>14, <1>26, <1>28, <1>29 DEF Delivered
  <2> QED BY <2>1, <2>2 DEF Sound
<1>31. Serves(c3, f, g)
  BY <1>5, <1>8, <1>9, <1>21, <1>22, <1>25 DEF Serves, Wanted
<1>32. Untouched(cells, c3, top.res, top.t)
  <2>1. /\ Part(top) \in Views /\ top.t \in Nat /\ Above(top) \in Nat /\ top.t <= Above(top)
        /\ Inside(Part(top), top.res) \/ top.t <= Part(top).at
    BY <1>2, <1>3, PartFacts
  <2>2. Untouched(cells, c1, top.res, top.t)
    BY <1>3, <1>14, <2>1, UntouchedAround
  <2>3. \A j \in 0 .. tt - 1 : c3[j] = c1[j]
    <3>1. \A j \in 0 .. tt - 1 : j \in 0 .. u - 1 /\ j \in 0 .. w - 1
      BY <1>12, <1>15
    <3> QED BY <1>18, <1>19, <3>1
  <2>4. tt = top.t
    BY <1>5 DEF tt
  <2> QED BY <2>2, <2>3, <2>4 DEF Untouched
<1>33. /\ f.t = Level(LastOf(stack), taken) /\ f.res = LastOf(stack).res
       /\ f.a = LastOf(stack).a /\ f.b = LastOf(stack).b
       /\ Untouched(cells, c3, LastOf(stack).res, Level(LastOf(stack), taken))
  BY <1>3, <1>4, <1>5, <1>32 DEF LastOf
<1>34. ExactIn(c3, Append([stack EXCEPT ![Len(stack)] = f], g), ret)
  BY <1>1, <1>3, <1>9, <1>10, <1>19, <1>26, <1>30, <1>31, <1>33, PushExact
<1> QED BY <1>1, <1>34, ExactStep

\* The limbs in use of a number
LEMMA UsedValue ==
  ASSUME NEW m \in Nat, NEW c, Memory(c, m), NEW v \in Views, v.at + v.size <= m, v.size # 0,
         NEW x, x = ValueIn(c, v)
  PROVE  /\ x \in Nat /\ Size(x) \in Nat \ {0} /\ Size(x) <= v.size
         /\ ValueIn(c, [v EXCEPT !.size = Size(x)]) = x
<1> DEFINE at == v.at
           k == v.size
           s == Size(x)
           w == [v EXCEPT !.size = s]
<1>1. at \in Nat /\ k \in Nat \ {0} /\ at + k <= m
  BY DEF Views
<1>2. x = Read(c, at, k)
  BY ReadView
<1>3. x \in Nat /\ x < Power(k)
  BY <1>1, <1>2, ReadBounded
<1>4. s \in Nat \ {0} /\ s <= k /\ x < Power(s)
  BY <1>1, <1>3, Sizes
<1>5. w \in Views /\ w.at = at /\ w.size = s
  BY <1>4 DEF Views
<1> HIDE DEF at, k, s, w
<1>6. at + s <= m
  BY <1>1, <1>4
<1>7. ValueIn(c, w) = Read(c, at, s)
  BY <1>5, <1>6, ReadView
<1>8. Read(c, at, s) = x
  BY <1>1, <1>2, <1>4, ReadUsed
<1> QED BY <1>3, <1>4, <1>7, <1>8 DEF at, k, s, w

\* What an invocation adds n limbs up, the part of its result that it adds it to, and
\* the memory when it has
Middle(f, r) ==
  Value([t1(f) EXCEPT !.size = r]) - Value([result_high(f) EXCEPT !.size = f.high])
    - Value([result_low(f) EXCEPT !.size = f.low])
Alias(f) == View(f.res.at + f.n, f.res.size - f.n)
Combined(f, r) ==
  Written(Written(cells, t1(f).at, Middle(f, r), r), Alias(f).at,
          Value(Alias(f)) + Middle(f, r), Alias(f).size)

\* What the three products leave for the middle
LEMMA MiddleProduct ==
  ASSUME NEW f, NEW lim \in Nat \ {0}, Placed(f, f.t, lim), Splits(f), f.step = "middle",
         Memory(cells, lim), Sound(cells, f), NEW r, Delivered(cells, f, r)
  PROVE  /\ Middle(f, r) \in Nat
         /\ LowProduct(cells, f) \in Nat /\ HighProduct(cells, f) \in Nat
         /\ Value(f.a) * Value(f.b)
              = LowProduct(cells, f) + Power(f.n) * Middle(f, r)
                  + (Power(f.n) * Power(f.n)) * HighProduct(cells, f)
<1> DEFINE p == Power(f.n)
           x == Value(f.a)
           y == Value(f.b)
           a == x % p
           b == x \div p
           c == y % p
           d == y \div p
           middle == Middle(f, r)
<1>1. /\ f.n \in Nat /\ f.t \in Nat /\ f.res.at \in Nat /\ f.res.cap \in Nat
      /\ f.res.at + f.res.cap <= f.t /\ 2 * f.n + 2 <= f.res.cap
      /\ Above(f) = f.t + 4 * f.n + 4 /\ Above(f) <= lim /\ f \in Frames
      /\ f.res.size = f.res.cap /\ f.n >= 10
  BY PlacedFacts
<1>2. x \in Nat /\ y \in Nat
  BY OperandValues
<1>3. LowProduct(cells, f) = a * c /\ HighProduct(cells, f) = b * d
  BY DEF LowProduct, HighProduct, Value
<1>4. WantedProduct(cells, f) = (a + b) * (c + d)
  BY DEF WantedProduct, Wanted, Value
<1>5. p \in Nat \ {0}
  BY <1>1, PowerFacts
<1> HIDE DEF x, y, p
<1>6. /\ a \in Nat /\ b \in Nat /\ x = p * b + a
      /\ c \in Nat /\ d \in Nat /\ y = p * d + c
  <2>1. \A z \in Nat : z % p \in Nat /\ z \div p \in Nat /\ z = p * (z \div p) + (z % p)
    BY <1>1, Parts DEF p
  <2> QED BY <1>2, <2>1
<1> HIDE DEF a, b, c, d
<1>7. p * b \in Nat /\ p * d \in Nat
  BY <1>5, <1>6, Products
<1>8. x = a + p * b /\ y = c + p * d
  <2> DEFINE pb == p * b
             pd == p * d
  <2>1. x = pb + a /\ y = pd + c /\ pb \in Nat /\ pd \in Nat
    BY <1>6, <1>7
  <2> HIDE DEF pb, pd
  <2>2. x = a + pb /\ y = c + pd
    BY <1>6, <2>1
  <2> QED BY <2>2 DEF pb, pd
<1>9. /\ (a + b) * (c + d) - b * d - a * c \in Nat
      /\ (a + p * b) * (c + p * d)
           = a * c + p * ((a + b) * (c + d) - b * d - a * c) + (p * p) * (b * d)
  <2>1. p \in Nat /\ a \in Nat /\ b \in Nat /\ c \in Nat /\ d \in Nat
    BY <1>5, <1>6
  <2> QED BY <2>1, ThreeProducts
<1>10. Value([t1(f) EXCEPT !.size = r]) = (a + b) * (c + d)
  <2>1. Part(f) = t1(f)
    BY DEF Part
  <2> QED BY <1>4, <2>1 DEF Delivered, Value
<1>11. /\ result_low(f) = [at |-> f.res.at, cap |-> 2 * f.n, size |-> 2 * f.n]
       /\ result_high(f) = [at |-> f.res.at + 2 * f.n, cap |-> f.res.cap - 2 * f.n,
                            size |-> f.res.cap - 2 * f.n]
       /\ result_low(f) \in Views /\ result_high(f) \in Views
  <2>1. 2 * f.n <= f.res.cap
    BY <1>1
  <2> QED BY <1>1, <2>1, PartsPlaced
<1>12. Value([result_low(f) EXCEPT !.size = f.low]) = a * c
  <2>1. ValueIn(cells, result_low(f)) = a * c /\ f.low = Size(a * c)
    BY <1>3 DEF Sound
  <2>2. result_low(f).at + result_low(f).size <= lim /\ result_low(f).size # 0
    BY <1>1, <1>11
  <2> QED BY <1>11, <2>1, <2>2, UsedValue DEF Value
<1>13. Value([result_high(f) EXCEPT !.size = f.high]) = b * d
  <2>1. ValueIn(cells, result_high(f)) = b * d /\ f.high = Size(b * d)
    BY <1>3 DEF Sound
  <2>2. result_high(f).at + result_high(f).size <= lim /\ result_high(f).size # 0
    BY <1>1, <1>11
  <2> QED BY <1>11, <2>1, <2>2, UsedValue DEF Value
<1>14. middle = (a + b) * (c + d) - b * d - a * c
  BY <1>10, <1>12, <1>13 DEF Middle
<1> HIDE DEF middle
<1>15. x * y = a * c + p * middle + (p * p) * (b * d)
  BY <1>8, <1>9, <1>14
<1>16. a * c \in Nat /\ b * d \in Nat
  BY <1>6, Products
<1> QED BY <1>3, <1>9, <1>14, <1>15, <1>16 DEF x, y, p, middle

\* The middle is added to what the low and the high product have above the low limbs.
LEMMA MiddleAdded ==
  ASSUME NEW p \in Nat \ {0}, NEW z \in Nat, NEW low \in Nat, NEW high \in Nat,
         NEW middle \in Nat, NEW below \in Nat, NEW alias \in Nat,
         low + (p * p) * high = below + p * alias,
         low + p * middle + (p * p) * high < p * z
  PROVE  /\ alias + middle < z
         /\ below + p * (alias + middle) = low + p * middle + (p * p) * high
<1> DEFINE pm == p * middle
           pa == p * alias
           ph == (p * p) * high
           ps == p * (alias + middle)
           pz == p * z
<1>1. /\ pm \in Nat /\ pa \in Nat /\ ph \in Nat /\ ps \in Nat /\ pz \in Nat
      /\ alias + middle \in Nat
  BY Products
<1>2. ps = pa + pm
  BY Products
<1>3. low + ph = below + pa /\ low + pm + ph < pz
  OBVIOUS
<1> HIDE DEF pm, pa, ph, ps, pz
<1>4. below + ps = low + pm + ph /\ ps < pz
  BY <1>1, <1>2, <1>3
<1>5. alias + middle < z
  BY <1>1, <1>4, Cancel DEF ps, pz
<1> QED BY <1>4, <1>5 DEF ps, pm, ph

\* The sum of the three products is the product of the operands.
LEMMA CombinedProduct ==
  ASSUME NEW f, NEW lim \in Nat \ {0}, Placed(f, f.t, lim), Splits(f), f.step = "middle",
         Memory(cells, lim), Sound(cells, f), NEW r \in Nat, r <= Part(f).cap,
         Delivered(cells, f, r)
  PROVE  /\ Memory(Combined(f, r), lim) /\ Untouched(cells, Combined(f, r), f.res, f.t)
         /\ ValueIn(Combined(f, r), f.res) = Value(f.a) * Value(f.b)
         /\ ValueIn(Combined(f, r), [f.res EXCEPT !.size = Size(Value(f.a) * Value(f.b))])
              = Value(f.a) * Value(f.b)
<1> DEFINE n == f.n
           at == f.res.at
           cap == f.res.cap
           tt == f.t
           x == Value(f.a)
           y == Value(f.b)
           product == x * y
           low == LowProduct(cells, f)
           high == HighProduct(cells, f)
           p == Power(n)
           middle == Middle(f, r)
           alias == Alias(f)
           d == Combined(f, r)
           e == Written(cells, tt, middle, r)
           sum == Value(alias) + middle
<1>1. /\ n \in Nat \ {0} /\ tt \in Nat \ {0} /\ at \in Nat \ {0} /\ cap \in Nat
      /\ at + cap <= tt /\ 2 * n + 2 <= cap /\ tt + 4 * n + 4 <= lim /\ f \in Frames
      /\ f.res.size = cap /\ f.res \in Views
      /\ f.a.size \in Nat /\ f.b.size \in Nat /\ f.a.size + f.b.size <= cap
  <2>1. /\ f.n \in Nat /\ f.n >= 10 /\ f.t \in Nat /\ f.res.at \in Nat \ {0}
        /\ f.res.cap \in Nat /\ f.res.at + f.res.cap <= f.t /\ 2 * f.n + 2 <= f.res.cap
        /\ Above(f) = f.t + 4 * f.n + 4 /\ Above(f) <= lim /\ f \in Frames
        /\ f.res.size = f.res.cap /\ f.res \in Views /\ f.a.size + f.b.size <= f.res.cap
    BY PlacedFacts
  <2>2. f.a \in Views /\ f.b \in Views
    BY <2>1 DEF Frames
  <2>3. f.a.size \in Nat /\ f.b.size \in Nat
    BY <2>2 DEF Views
  <2>4. f.n \in Nat \ {0} /\ f.t \in Nat \ {0}
    BY <2>1
  <2> QED BY <2>1, <2>3, <2>4
<1>2. /\ alias = [at |-> at + n, cap |-> cap - n, size |-> cap - n]
      /\ t1(f).at = tt /\ Part(f) = t1(f) /\ t1(f).cap = 2 * n + 2
      /\ result_low(f) = [at |-> at, cap |-> 2 * n, size |-> 2 * n]
      /\ result_high(f) = [at |-> at + 2 * n, cap |-> cap - 2 * n, size |-> cap - 2 * n]
  <2>1. 2 * f.n <= f.res.cap
    BY <1>1
  <2>2. alias = [at |-> at + n, cap |-> cap - n, size |-> cap - n]
    BY <1>1 DEF View, Alias
  <2> QED BY <1>1, <2>1, <2>2, PartsPlaced DEF Part
<1>3. /\ middle \in Nat /\ low \in Nat /\ high \in Nat
      /\ product = low + p * middle + (p * p) * high
  BY MiddleProduct
<1>4. ValueIn(cells, result_low(f)) = low /\ ValueIn(cells, result_high(f)) = high
  BY DEF Sound
<1>5. product \in Nat /\ product < Power(cap)
  <2>1. \A v \in {f.a, f.b} : Value(v) \in Nat /\ Value(v) < Power(v.size)
                              /\ v.size \in 1 .. 2 * f.n
    BY OperandValues
  <2>2. f.a.size \in Nat \ {0} /\ f.b.size \in Nat \ {0}
    BY <1>1, <2>1
  <2>3. product \in Nat /\ Size(product) \in Nat /\ Size(product) <= f.a.size + f.b.size
    BY <2>1, <2>2, ProductSize
  <2> HIDE DEF product
  <2>4. Size(product) <= cap /\ cap \in Nat \ {0}
    BY <1>1, <2>3
  <2> QED BY <2>3, <2>4, Sizes
<1>6. r \in Nat /\ r <= 2 * n + 2
  BY <1>2
<1>7. d = Written(e, at + n, sum, cap - n)
  BY <1>2 DEF Combined
<1>8. f.res.at = at /\ f.res.cap = cap /\ f.t = tt
  OBVIOUS
<1> HIDE DEF n, at, cap, tt, x, y, product, low, high, e, sum, middle, alias, d
<1>9. PICK l \in Nat \ {0} : n + l = cap /\ cap - n = l
  <2>1. cap - n \in Nat \ {0} /\ n + (cap - n) = cap
    BY <1>1
  <2> QED BY <2>1
<1>10. PICK k \in Nat : 2 * n + k = cap /\ cap - 2 * n = k
  <2>1. cap - 2 * n \in Nat /\ 2 * n + (cap - 2 * n) = cap
    BY <1>1
  <2> QED BY <2>1
<1>11. /\ at + cap <= lim /\ at + n \in Nat \ {0} /\ (at + n) + l <= lim /\ at + n + l <= lim
       /\ at + n <= lim /\ 2 * n \in Nat /\ at + 2 * n \in Nat /\ (at + 2 * n) + k <= lim
       /\ at + 2 * n + k <= lim /\ at + 2 * n <= lim /\ tt + r <= lim
       /\ (at + n) + l = at + cap /\ at \in Nat /\ n \in Nat /\ l \in Nat
       /\ at + n <= tt /\ at + cap <= tt
  BY <1>1, <1>6, <1>9, <1>10
\* the values before
<1>12. Read(cells, at, 2 * n) = low /\ Read(cells, at + 2 * n, k) = high
       /\ Value(alias) = Read(cells, at + n, l)
  <2>1. \A i, j \in Nat : i + j <= lim =>
          ValueIn(cells, [at |-> i, cap |-> j, size |-> j]) = Read(cells, i, j)
    <3> SUFFICES ASSUME NEW i \in Nat, NEW j \in Nat, i + j <= lim,
                        NEW v, v = [at |-> i, cap |-> j, size |-> j]
                 PROVE  ValueIn(cells, v) = Read(cells, i, j)
      OBVIOUS
    <3>1. v \in Views /\ v.at = i /\ v.size = j
      BY DEF Views
    <3> QED BY <3>1, ReadView
  <2> QED BY <1>2, <1>4, <1>9, <1>10, <1>11, <2>1 DEF Value
<1> DEFINE r0 == Read(cells, at, n)
           a0 == Read(cells, at + n, l)
<1>13. /\ r0 \in Nat /\ a0 \in Nat
       /\ low + (p * p) * high = r0 + p * a0
  <2>1. r0 \in Nat /\ a0 \in Nat
    BY <1>11, ReadBounded
  <2>2. Read(cells, at, n + l) = r0 + p * a0
    BY <1>11, ReadJoined
  <2>3. Read(cells, at, 2 * n + k) = low + Power(2 * n) * high
    BY <1>10, <1>11, <1>12, ReadJoined
  <2>4. Power(2 * n) = p * p
    <3>1. Power(n + n) = Power(n) * Power(n)
      BY <1>11, PowerOfSum
    <3>2. n + n = 2 * n
      BY <1>11
    <3> QED BY <3>1, <3>2
  <2> QED BY <1>9, <1>10, <2>1, <2>2, <2>3, <2>4
<1> HIDE DEF r0, a0
<1>14. /\ a0 + middle < Power(l)
       /\ r0 + p * (a0 + middle) = product
  <2>1. Power(cap) = p * Power(l) /\ p \in Nat \ {0} /\ Power(l) \in Nat
    BY <1>9, <1>11, PowerOfSum, PowerFacts
  <2>2. low + p * middle + (p * p) * high < p * Power(l)
    BY <1>3, <1>5, <2>1
  <2> HIDE DEF p
  <2>3. /\ a0 + middle < Power(l)
        /\ r0 + p * (a0 + middle) = low + p * middle + (p * p) * high
    <3>1. /\ p \in Nat \ {0} /\ Power(l) \in Nat /\ low \in Nat /\ high \in Nat
          /\ middle \in Nat /\ r0 \in Nat /\ a0 \in Nat
      BY <1>3, <1>13, <2>1
    <3>2. low + (p * p) * high = r0 + p * a0
      BY <1>13
    <3> QED BY <2>2, <3>1, <3>2, MiddleAdded
  <2> QED BY <1>3, <2>3
\* the values afterwards
<1>15. /\ Memory(e, lim)
       /\ \A j \in 0 .. tt - 1 : e[j] = cells[j]
  <2>1. tt \in Nat \ {0} /\ middle \in Nat /\ r \in Nat /\ tt + r <= lim
    BY <1>1, <1>3, <1>6, <1>11
  <2>2. e = Written(cells, tt, middle, r)
    BY DEF e
  <2> QED BY <2>1, <2>2, BelowKept
<1>16. sum = a0 + middle /\ sum \in Nat /\ d = Written(e, at + n, sum, l)
  BY <1>3, <1>7, <1>9, <1>12, <1>13 DEF sum, a0
<1>17. /\ Memory(d, lim)
       /\ \A j \in 0 .. (at + n) - 1 : d[j] = e[j]
  <2> DEFINE o == at + n
  <2>1. o \in Nat \ {0} /\ sum \in Nat /\ l \in Nat /\ o + l <= lim
        /\ Memory(e, lim) /\ d = Written(e, o, sum, l)
    BY <1>11, <1>15, <1>16
  <2> HIDE DEF o
  <2>2. Memory(d, lim) /\ \A j \in 0 .. o - 1 : d[j] = e[j]
    BY <2>1, BelowKept
  <2> QED BY <2>2 DEF o
<1>18. Read(d, at + n, l) = a0 + middle
  <2>1. Read(d, at + n, l) = sum % Power(l)
    BY <1>11, <1>15, <1>16, ReadWritten
  <2> QED BY <1>11, <1>14, <1>16, <2>1, Parts
<1>19. Read(d, at, n) = r0
  <2>1. \A j \in at .. at + n - 1 : d[j] = cells[j]
    <3>1. \A j \in at .. at + n - 1 : j \in 0 .. (at + n) - 1 /\ j \in 0 .. tt - 1
      BY <1>1, <1>11
    <3> QED BY <1>15, <1>17, <3>1
  <2>2. at \in Nat /\ n \in Nat /\ at + n <= lim /\ Memory(d, lim)
    BY <1>11, <1>17
  <2>3. Read(d, at, n) = Read(cells, at, n)
    BY <2>1, <2>2, ReadSame
  <2> QED BY <2>3 DEF r0
<1>20. Read(d, at, cap) = product
  <2>1. Read(d, at, n + l) = Read(d, at, n) + p * Read(d, at + n, l)
    BY <1>11, <1>17, ReadJoined
  <2> QED BY <1>9, <1>14, <1>18, <1>19, <2>1
<1>21. ValueIn(d, f.res) = product
  <2>1. f.res.at + f.res.size <= lim
    BY <1>1, <1>8, <1>11
  <2> QED BY <1>1, <1>8, <1>17, <1>20, <2>1, ReadView
<1>22. ValueIn(d, [f.res EXCEPT !.size = Size(product)]) = product
  <2>1. f.res.at + f.res.size <= lim /\ f.res.size # 0
    BY <1>1, <1>8, <1>11
  <2> QED BY <1>1, <1>17, <1>21, <2>1, UsedValue
<1>23. Untouched(cells, d, f.res, f.t)
  <2>1. \A j \in 0 .. lim - 1 : j < at + n \/ (at + n) + l <= j => d[j] = e[j]
    BY <1>11, <1>15, <1>16, WrittenElsewhere
  <2>2. ASSUME NEW j \in 0 .. tt - 1, j < at \/ at + cap <= j PROVE cells[j] = d[j]
    <3>1. j \in 0 .. lim - 1 /\ (j < at + n \/ (at + n) + l <= j)
      BY <1>1, <1>11, <2>2
    <3> QED BY <1>15, <2>1, <3>1
  <2> QED BY <1>8, <2>2 DEF Untouched
<1> QED BY <1>17, <1>21, <1>22, <1>23 DEF product, x, y, d

\* An invocation has multiplied its operands.
LEMMA CombineExact ==
  ASSUME Assumptions, Placement, Placement', Exact, Combine
  PROVE  Exact'
<1> DEFINE new == Combined(top, ret)
           p == Value(top.a) * Value(top.b)
<1>1. /\ pc = "running" /\ stack # <<>> /\ top.step = "middle"
      /\ cells' = new
      /\ storage' = [storage EXCEPT !.allocated = @ - givenBack(top.n)]
      /\ stack' = SubSeq(stack, 1, Len(stack) - 1) /\ ret' = Size(ValueIn(new, top.res))
      /\ call' = call /\ pc' = pc
  BY DEF Combine, Running, Ascend, Combined, Middle, Alias
<1>2. Splits(top)
  BY <1>1 DEF Splits
<1>3. /\ limit \in Nat \ {0} /\ Memory(cells, limit) /\ ret \in Nat
      /\ Stacked(stack, taken, storage.at + own, limit)
      /\ Placed(top, top.t, limit) /\ top.t = Level(stack[Len(stack)], taken)
      /\ storage \in [at : Nat \ {0}, capacity : Nat, allocated : Nat]
      /\ ret <= Part(top).cap
  BY <1>1, <1>2, SplitFacts
<1>4. stack \in Seq(Frames) /\ top = LastOf(stack)
  BY <1>3 DEF Stacked, top, LastOf
<1>5. storage'.at = storage.at
  BY <1>1, <1>3
<1>6. Delivered(cells, top, ret) /\ Serving(cells, stack)
  BY <1>1, <1>2, <1>4 DEF Exact, ExactIn
<1>7. Sound(cells, top)
  <2>1. Len(stack) \in 1 .. Len(stack)
    BY <1>1, <1>4
  <2> QED BY <1>2, <1>6, <2>1 DEF Serving, top
<1> HIDE DEF new
<1>8. /\ Memory(new, limit) /\ Untouched(cells, new, top.res, top.t)
      /\ ValueIn(new, top.res) = p
      /\ ValueIn(new, [top.res EXCEPT !.size = Size(p)]) = p
  <2>1. /\ limit \in Nat \ {0} /\ Placed(top, top.t, limit) /\ Splits(top)
        /\ top.step = "middle" /\ Memory(cells, limit) /\ Sound(cells, top)
        /\ ret \in Nat /\ ret <= Part(top).cap /\ Delivered(cells, top, ret)
    BY <1>1, <1>2, <1>3, <1>6, <1>7
  <2> QED BY <2>1, CombinedProduct DEF new
<1>9. ret' = Size(p)
  BY <1>1, <1>8
<1>10. /\ Untouched(cells, new, LastOf(stack).res, Level(LastOf(stack), taken))
       /\ p = ValueIn(cells, LastOf(stack).a) * ValueIn(cells, LastOf(stack).b)
       /\ ValueIn(new, [LastOf(stack).res EXCEPT !.size = Size(p)]) = p
       /\ ValueIn(new, LastOf(stack).res) = p
  BY <1>3, <1>4, <1>8 DEF Value, LastOf
<1> HIDE DEF p
<1>11. ExactIn(new, SubSeq(stack, 1, Len(stack) - 1), Size(p))
  BY <1>1, <1>3, <1>6, <1>8, <1>10, PopExact
<1> QED BY <1>1, <1>5, <1>9, <1>11, ExactStep

\* The memory at the beginning: the factors are in their places.
LEMMA SetupExact ==
  ASSUME Assumptions, Placement, Placement', Exact, Setup
  PROVE  Exact'
<1>1. Started /\ pc = "entered"
  BY DEF Placement, Setup
<1> DEFINE al == Size(call.a)
           bl == Size(call.b)
<1>2. /\ al \in Nat \ {0} /\ bl \in Nat \ {0} /\ sz \in Nat /\ sz = al + bl
      /\ ResultLimbs \in Nat /\ own \in Nat /\ call.a \in Nat /\ call.b \in Nat
      /\ al >= 20 /\ bl >= 20
  <2>1. /\ al \in Nat /\ bl \in Nat /\ al >= 20 /\ bl >= 20 /\ sz \in Nat
        /\ ResultLimbs \in Nat /\ own \in Nat
    BY <1>1, StartedFacts
  <2>2. al \in Nat \ {0} /\ bl \in Nat \ {0}
    <3> HIDE DEF al, bl
    <3> QED BY <2>1
  <2> QED BY <1>1, <2>1, <2>2 DEF sz, Started
<1>3. call.a < Power(al) /\ call.b < Power(bl)
  BY <1>2, Sizes
<1>4. CASE type.checked /\ ResultLimbs < sz - 1
  <2>1. pc' = "threw" /\ call' = call
    BY <1>4 DEF Setup
  <2>2. ~HasRoom /\ ResultLimbs = type.limbs /\ type.limbs \in Nat /\ type.limbs < sz - 1
    <3>1. HasRoom => ResultLimbs = sz
      BY DEF ResultLimbs
    <3>2. ~HasRoom
      BY <1>2, <1>4, <3>1
    <3> QED BY <1>1, <1>4, <3>2, StartedFacts DEF ResultLimbs
  <2>3. Product >= Power(type.limbs)
    <3> DEFINE k == al - 1
               l == bl - 1
               x == call.a
               y == call.b
    <3>1. k \in Nat \ {0} /\ l \in Nat \ {0} /\ type.limbs <= k + l
      <4> HIDE DEF al, bl
      <4> QED BY <1>2, <2>2
    <3>2. Power(k) <= x /\ Power(l) <= y
      <4>1. al # 1 /\ bl # 1
        <5> HIDE DEF al, bl
        <5> QED BY <1>2
      <4>2. x \in Nat /\ y \in Nat
        BY <1>2
      <4> QED BY <4>1, <4>2, Sizes
    <3>3. x \in Nat /\ y \in Nat
      BY <1>2
    <3> HIDE DEF k, l, x, y
    <3>4. Power(k) \in Nat /\ Power(l) \in Nat
      BY <3>1, PowerFacts
    <3>5. Power(k) * Power(l) <= x * y
      <4>1. Power(k) * Power(l) <= x * Power(l)
        BY <3>2, <3>3, <3>4, Monotone
      <4>2. x * Power(l) <= x * y
        BY <3>2, <3>3, <3>4, Monotone
      <4>3. Power(k) * Power(l) \in Int /\ x * Power(l) \in Int /\ x * y \in Int
        BY <3>3, <3>4, Products
      <4> QED BY <4>1, <4>2, <4>3
    <3>6. Power(k + l) = Power(k) * Power(l)
      BY <3>1, PowerOfSum
    <3>7. Power(type.limbs) <= Power(k + l) /\ Power(type.limbs) \in Nat /\ Power(k + l) \in Nat
      <4>1. k + l \in Nat
        BY <3>1
      <4> QED BY <2>2, <3>1, <4>1, PowersGrow, PowerFacts
    <3>8. Product = x * y /\ x * y \in Nat
      BY <3>3, Products DEF Product, x, y
    <3> QED BY <3>5, <3>6, <3>7, <3>8
  <2>4. type' = type /\ Product' = Product
    BY <2>1 DEF type, Product
  <2> QED BY <1>4, <2>1, <2>3, <2>4 DEF Exact, Answered
<1>5. CASE ~(type.checked /\ ResultLimbs < sz - 1)
  <2> DEFINE scratch == 1 + sz + ResultLimbs
             size == own + 5 * Larger(al, bl)
             m == scratch + size
             dirty == [k \in 0 .. scratch + size - 1 |-> IF k = 0 THEN 0 ELSE Base - 1]
             first == Written(dirty, aView.at, call.a, aView.cap)
             d == Written(first, bView.at, call.b, bView.cap)
             f == Frame(IF HasRoom THEN resultView ELSE View(scratch, sz), aView, bView)
  <2>1. /\ cells' = d /\ storage' = [at |-> scratch, capacity |-> size, allocated |-> own]
        /\ stack' = <<f>> /\ pc' = "running" /\ call' = call /\ ret' = ret
    BY <1>5 DEF Setup, own, karatsuba_storage_size
  <2>2. aView = [at |-> 1, cap |-> al, size |-> al]
        /\ bView = [at |-> 1 + al, cap |-> bl, size |-> bl]
    BY DEF aView, bView, View
  <2> HIDE DEF al, bl, f, d, first, dirty
  <2>3. Larger(al, bl) \in Nat
    BY <1>2 DEF Larger
  <2>4. /\ m \in Nat \ {0} /\ 1 + al <= m /\ 1 + al \in Nat \ {0} /\ (1 + al) + bl <= m
        /\ 1 \in Nat \ {0} /\ al \in Nat /\ bl \in Nat
    BY <1>2, <2>3
  <2>5. Memory(dirty, m)
    <3>1. 0 \in 0 .. m - 1
      BY <2>4
    <3>2. 0 \in 0 .. Base - 1 /\ Base - 1 \in 0 .. Base - 1
      BY BaseAssumption
    <3>4. scratch \in Nat /\ size \in Nat
      BY <1>2, <2>3
    <3> HIDE DEF scratch, size
    <3>5. scratch + size - 1 = m - 1
      BY <3>4
    <3>3. dirty = [k \in 0 .. m - 1 |-> IF k = 0 THEN 0 ELSE Base - 1]
      BY <3>5 DEF dirty
    <3> HIDE DEF m
    <3> QED BY <3>1, <3>2, <3>3 DEF Memory
  <2> HIDE DEF m
  <2>6. first = Written(dirty, 1, call.a, al) /\ d = Written(first, 1 + al, call.b, bl)
    BY <2>2 DEF first, d
  <2>7. Memory(first, m)
    BY <1>2, <2>4, <2>5, <2>6, BelowKept
  <2>8. aView \in Views /\ bView \in Views
    BY <1>2, <2>2 DEF Views
  <2>9. ValueIn(first, aView) = call.a
    <3>1. aView.at = 1 /\ aView.size = al
      BY <2>2
    <3> QED BY <1>2, <1>3, <2>4, <2>5, <2>6, <2>8, <3>1, WrittenNumber
  <2>10. ValueIn(d, bView) = call.b
    <3>1. bView.at = 1 + al /\ bView.size = bl
      BY <2>2
    <3> QED BY <1>2, <1>3, <2>4, <2>6, <2>7, <2>8, <3>1, WrittenNumber
  <2>11. ValueIn(d, aView) = call.a
    <3>1. \A v \in Views : v.size <= v.cap /\ v.at + v.cap <= 1 + al
                             => ValueIn(d, v) = ValueIn(first, v)
      <4> DEFINE o == 1 + al
      <4>1. /\ m \in Nat \ {0} /\ Memory(first, m) /\ o \in Nat \ {0} /\ call.b \in Nat
            /\ bl \in Nat /\ o + bl <= m /\ d = Written(first, o, call.b, bl)
        BY <1>2, <2>4, <2>6, <2>7
      <4> HIDE DEF o
      <4>2. \A v \in Views : v.size <= v.cap /\ v.at + v.cap <= o
                               => ValueIn(d, v) = ValueIn(first, v)
        BY <4>1, BelowKept
      <4> QED BY <4>2 DEF o
    <3>2. aView.size <= aView.cap /\ aView.at + aView.cap <= 1 + al
      BY <1>2, <2>2
    <3> QED BY <2>8, <2>9, <3>1, <3>2
  <2>12. storage'.at = scratch
    BY <2>1
  <2>13. type' = type /\ sz' = sz
    BY <2>1 DEF type, sz
  <2>14. HasRoom' = HasRoom
    BY <2>13 DEF HasRoom
  <2>15. ResultLimbs' = ResultLimbs
    BY <2>13, <2>14 DEF ResultLimbs
  <2>16. aView' = aView /\ bView' = bView /\ resultView' = resultView
    BY <2>1, <2>13, <2>15 DEF aView, bView, resultView, View
  <2>17. home' = IF HasRoom THEN resultView ELSE View(scratch, sz)
    BY <2>12, <2>13, <2>14, <2>16 DEF home, View
  <2> HIDE DEF scratch, size
  <2>18. f.res = home' /\ f.a = aView /\ f.b = bView /\ ~Splits(f)
    BY <2>17 DEF f, Frame, Splits
  <2>19. stack' # <<>> /\ Len(stack') = 1 /\ stack'[1] = f
    BY <2>1
  <2>20. LastOf(stack') = f
    BY <2>19 DEF LastOf
  <2>21. Nested(stack')
    BY <2>19 DEF Nested
  <2>22. /\ \A i \in 1 .. Len(stack') : Splits(stack'[i]) => Sound(cells', stack'[i])
         /\ \A i \in 1 .. Len(stack') - 1 : Serves(cells', stack'[i], stack'[i + 1])
    <3>1. \A i \in 1 .. 1 : i = 1
      OBVIOUS
    <3>2. \A i \in 1 .. Len(stack') : stack'[i] = f
      BY <2>19, <3>1
    <3>3. 1 .. Len(stack') - 1 = {}
      BY <2>19
    <3> QED BY <2>18, <3>2, <3>3
  <2>23. /\ stack'[1].res = home' /\ stack'[1].a = aView' /\ stack'[1].b = bView'
         /\ ValueIn(cells', aView') = call'.a /\ ValueIn(cells', bView') = call'.b
    BY <2>1, <2>10, <2>11, <2>16, <2>18, <2>19
  <2>24. Serving(cells, stack)'
    BY <2>21, <2>22, <2>23, Zenon DEF Serving
  <2>25. ExactIn(cells, stack, ret)'
    BY <2>18, <2>19, <2>20, <2>24, Zenon DEF ExactIn
  <2>26. (storage.at = 1 + sz + ResultLimbs)'
    BY <2>12, <2>13, <2>15 DEF scratch
  <2>27. Answered'
    BY <2>1 DEF Answered
  <2> QED BY <2>25, <2>26, <2>27 DEF Exact
<1> QED BY <1>4, <1>5

\* The place of the product
LEMMA HomePlaced ==
  ASSUME Assumptions, Placement, Exact, pc = "running", stack = <<>>
  PROVE  /\ home \in Views /\ home.size = sz /\ home.at + sz <= limit /\ home.at \in Nat \ {0}
         /\ home.at = IF HasRoom THEN 1 + sz ELSE storage.at
         /\ ret = Size(Product) /\ ValueIn(cells, home) = Product
         /\ Product \in Nat /\ ret \in Nat \ {0} /\ ret <= sz
         /\ limit \in Nat \ {0} /\ Memory(cells, limit) /\ sz \in Nat \ {0}
         /\ type.limbs \in Nat
         /\ Read(cells, home.at, sz) = Product
<1>1. /\ Started /\ ret \in Nat /\ Memory(cells, limit)
      /\ storage \in [at : Nat \ {0}, capacity : Nat, allocated : Nat]
      /\ Stacked(stack, taken, storage.at + own, limit)
  BY DEF Placement
<1>2. /\ storage.at \in Nat \ {0} /\ storage.capacity \in Nat
  BY <1>1
<1>3. limit \in Nat \ {0}
  BY <1>2 DEF limit
<1>4. /\ sz \in Nat /\ sz # 0 /\ ResultLimbs \in Nat /\ own \in Nat /\ type.limbs \in Nat
      /\ HasRoom => ResultLimbs = sz
  <2>1. /\ Size(call.a) \in Nat /\ Size(call.b) \in Nat /\ sz \in Nat
        /\ Size(call.a) >= 20 /\ Size(call.b) >= 20
        /\ type.limbs \in Nat /\ ResultLimbs \in Nat /\ own \in Nat
        /\ HasRoom => ResultLimbs = sz
    BY <1>1, StartedFacts
  <2>2. sz # 0
    BY <2>1 DEF sz
  <2> QED BY <2>1, <2>2
<1>5. storage.at + own <= limit
  BY <1>1 DEF Stacked
<1>6. /\ storage.at = 1 + sz + ResultLimbs
      /\ ret = Size(Product) /\ ValueIn(cells, home) = Product
  BY DEF Exact, ExactIn
<1>7. /\ home = [at |-> IF HasRoom THEN 1 + sz ELSE storage.at, cap |-> sz, size |-> sz]
      /\ home \in Views
  <2>1. home = [at |-> IF HasRoom THEN 1 + sz ELSE storage.at, cap |-> sz, size |-> sz]
    BY <1>4 DEF home, resultView, View
  <2>2. 1 + sz \in Nat
    BY <1>4
  <2> QED BY <1>2, <1>4, <2>1, <2>2 DEF Views
<1>8. home.at + sz <= limit /\ home.at \in Nat \ {0}
  <2>1. CASE HasRoom
    BY <1>2, <1>3, <1>4, <1>5, <1>6, <1>7, <2>1
  <2>2. CASE ~HasRoom
    <3>1. own = sz
      BY <2>2 DEF own
    <3> QED BY <1>2, <1>3, <1>4, <1>5, <1>7, <2>2, <3>1
  <2> QED BY <2>1, <2>2
<1>9. home.size = sz
  BY <1>7
<1>10. Product \in Nat /\ Size(Product) \in Nat \ {0} /\ Size(Product) <= sz
  <2> DEFINE x == Product
             v == home
  <2>1. /\ limit \in Nat /\ Memory(cells, limit) /\ v \in Views /\ v.size # 0
        /\ v.at + v.size <= limit /\ x = ValueIn(cells, v) /\ v.size = sz
    BY <1>1, <1>3, <1>4, <1>6, <1>7, <1>8, <1>9
  <2> HIDE DEF x, v
  <2>2. x \in Nat /\ Size(x) \in Nat \ {0} /\ Size(x) <= v.size
    BY <2>1, UsedValue
  <2> QED BY <2>1, <2>2 DEF x
<1>11. Read(cells, home.at, sz) = Product
  BY <1>1, <1>3, <1>6, <1>7, <1>8, <1>9, ReadView
<1> QED BY <1>1, <1>3, <1>4, <1>6, <1>7, <1>8, <1>9, <1>10, <1>11

\* The product is the result.
LEMMA PlaceExact ==
  ASSUME Assumptions, Placement, Exact, Place
  PROVE  Exact'
<1>1. /\ pc = "running" /\ stack = <<>> /\ HasRoom
      /\ ret' = IF type.limbs = 0 THEN ret ELSE sz
      /\ pc' = "returned" /\ call' = call /\ cells' = cells
  BY DEF Place
<1>2. /\ home \in Views /\ home.size = sz /\ home.at + sz <= limit /\ home.at \in Nat \ {0}
      /\ home.at = 1 + sz
      /\ ret = Size(Product) /\ ValueIn(cells, home) = Product
      /\ Product \in Nat /\ ret \in Nat \ {0} /\ ret <= sz
      /\ limit \in Nat \ {0} /\ Memory(cells, limit) /\ sz \in Nat \ {0}
      /\ Read(cells, home.at, sz) = Product
  BY <1>1, HomePlaced
<1>3. type' = type /\ sz' = sz /\ Product' = Product
  BY <1>1 DEF type, sz, Product
<1>4. HasRoom' /\ ResultLimbs' = sz /\ resultView'.at = 1 + sz
  BY <1>1, <1>3 DEF HasRoom, ResultLimbs, resultView, View
<1>5. Result' = Read(cells, 1 + sz, Smaller(ret', sz))
  BY <1>1, <1>4 DEF Result, Value, Read
<1>6. Smaller(ret', sz) = ret'
  BY <1>1, <1>2 DEF Smaller
<1>7. Read(cells, 1 + sz, ret') = Product
  <2>1. CASE type.limbs = 0
    <3>1. Product < Power(ret)
      BY <1>2, Sizes
    <3> QED BY <1>1, <1>2, <2>1, <3>1, ReadUsed
  <2>2. CASE type.limbs # 0
    BY <1>1, <1>2, <2>2
  <2> QED BY <2>1, <2>2
<1>8. Result' = Product'
  BY <1>3, <1>5, <1>6, <1>7
<1>9. ret' = Size(Result') \/ type'.limbs # 0
  BY <1>1, <1>2, <1>3, <1>8
<1> QED BY <1>1, <1>4, <1>8, <1>9 DEF Exact, Answered

\* The result is what of the product it has room for.
LEMMA TruncateExact ==
  ASSUME Assumptions, Placement, Exact, Truncate
  PROVE  Exact'
<1>1. pc = "running" /\ stack = <<>> /\ ~HasRoom /\ call' = call
  BY DEF Truncate
<1>2. /\ home \in Views /\ home.size = sz /\ home.at + sz <= limit /\ home.at \in Nat \ {0}
      /\ home.at = storage.at
      /\ ret = Size(Product) /\ Product \in Nat /\ ret \in Nat \ {0} /\ ret <= sz
      /\ limit \in Nat \ {0} /\ Memory(cells, limit) /\ sz \in Nat \ {0}
      /\ type.limbs \in Nat
      /\ Read(cells, home.at, sz) = Product
  BY <1>1, HomePlaced
<1>3. type' = type /\ sz' = sz /\ Product' = Product
  BY <1>1 DEF type, sz, Product
<1>4. /\ ~HasRoom' /\ HasRoom' = HasRoom /\ ResultLimbs' = type.limbs
      /\ resultView'.at = 1 + sz /\ resultView.at = 1 + sz
  BY <1>1, <1>3 DEF HasRoom, ResultLimbs, resultView, View
<1>5. type.limbs # 0 /\ type.limbs < sz /\ type.limbs \in Nat
  BY <1>1, <1>2 DEF HasRoom
<1>6. CASE type.checked /\ ret > type.limbs
  <2>1. pc' = "threw"
    BY <1>6 DEF Truncate
  <2>2. Product >= Power(type.limbs)
    <3>1. type.limbs \in Nat \ {0} /\ ~(Size(Product) <= type.limbs)
      BY <1>2, <1>5, <1>6
    <3>2. ~(Product < Power(type.limbs)) /\ Power(type.limbs) \in Nat
      BY <1>2, <3>1, Sizes, PowerFacts
    <3> QED BY <1>2, <3>2
  <2> QED BY <1>3, <1>6, <2>1, <2>2 DEF Exact, Answered
<1>7. CASE ~(type.checked /\ ret > type.limbs)
  <2> DEFINE limbs == type.limbs
             count == Smaller(ret, limbs)
             v == View(storage.at, count)
             product == Value(v)
  <2>1. /\ cells' = Written(cells, resultView.at, product, count)
        /\ ret' = Size(product) /\ pc' = "returned"
    BY <1>7 DEF Truncate
  <2>2. count \in Nat \ {0} /\ count <= sz /\ count <= limbs /\ limbs <= sz
        /\ (count = limbs \/ (ret < limbs /\ count = ret))
    BY <1>2, <1>5 DEF Smaller
  <2>3. product = Read(cells, storage.at, count)
    BY DEF Value, Read
  <2>4. product = Product % Power(count) /\ product \in Nat /\ product < Power(count)
    <3> HIDE DEF count, product
    <3>1. PICK l \in Nat : count + l = sz
      <4>1. sz - count \in Nat /\ count + (sz - count) = sz
        BY <1>2, <2>2
      <4> QED BY <4>1
    <3> DEFINE at == storage.at
    <3>2. at \in Nat /\ count \in Nat /\ at + count + l <= limit /\ Read(cells, at, sz) = Product
          /\ at + count <= limit
      BY <1>2, <2>2, <3>1
    <3> HIDE DEF at
    <3>3. /\ Read(cells, at, count) = Read(cells, at, count + l) % Power(count)
          /\ Read(cells, at + count, l) = Read(cells, at, count + l) \div Power(count)
      BY <1>2, <3>2, ReadParts
    <3>4. Read(cells, at, count) \in Nat /\ Read(cells, at, count) < Power(count)
      BY <1>2, <3>2, ReadBounded
    <3> QED BY <2>3, <3>1, <3>2, <3>3, <3>4 DEF at
  <2>5. product = Product % Power(limbs)
    <3>1. CASE count = limbs
      BY <2>4, <3>1
    <3>2. CASE ret < limbs /\ count = ret
      <4>1. Product < Power(ret) /\ Product < Power(limbs)
        <5>1. limbs \in Nat \ {0} /\ Size(Product) <= limbs /\ Size(Product) <= ret
              /\ ret \in Nat \ {0}
          BY <1>2, <1>5, <3>2
        <5> QED BY <1>2, <5>1, Sizes
      <4>2. Product % Power(ret) = Product /\ Product % Power(limbs) = Product
        <5>1. ret \in Nat /\ limbs \in Nat
          BY <1>2, <1>5
        <5> QED BY <1>2, <4>1, <5>1, Parts
      <4> QED BY <2>4, <3>2, <4>2
    <3> QED BY <2>2, <3>1, <3>2
  <2>6. type.checked => product = Product
    <3> SUFFICES ASSUME type.checked PROVE product = Product
      OBVIOUS
    <3>1. Size(Product) <= limbs /\ limbs \in Nat \ {0}
      BY <1>2, <1>5, <1>7
    <3>2. Product % Power(limbs) = Product
      BY <1>2, <3>1, LowBySize
    <3> QED BY <2>5, <3>2
  <2>7. Result' = product
    <3> HIDE DEF count, product
    <3>1. ret' \in Nat \ {0} /\ ret' <= count
      BY <2>1, <2>2, <2>4, Sizes
    <3>2. Smaller(ret', limbs) = ret'
      BY <2>2, <3>1, <1>5 DEF Smaller
    <3>3. Result' = ValueIn(cells', View(1 + sz, ret'))
      BY <1>4, <3>2 DEF Result, Value
    <3> DEFINE w == View(1 + sz, ret')
               o == 1 + sz
    <3>4. w \in Views /\ w.at = o /\ w.size = ret' /\ w.size <= count
      BY <1>2, <3>1 DEF View, Views
    <3>5. product < Power(ret')
      BY <2>1, <2>4, Sizes
    <3>6. o \in Nat \ {0} /\ count \in Nat /\ o + count <= limit
      <4>1. storage.at = 1 + sz + ResultLimbs
        BY <1>1 DEF Exact
      <4>2. ResultLimbs = limbs
        BY <1>1 DEF ResultLimbs
      <4>3. /\ sz \in Nat /\ limbs \in Nat /\ storage.at + sz <= limit /\ count <= limbs
            /\ storage.at = 1 + sz + limbs /\ count \in Nat /\ limit \in Nat
        BY <1>2, <1>5, <2>2, <4>1, <4>2
      <4> QED BY <4>3
    <3>7. cells' = Written(cells, o, product, count)
      BY <1>4, <2>1
    <3> HIDE DEF o, w
    <3>8. ValueIn(Written(cells, o, product, count), w) = product
      BY <1>2, <2>4, <3>4, <3>5, <3>6, WrittenNumber
    <3> QED BY <3>3, <3>7, <3>8 DEF w
  <2> HIDE DEF product
  <2>8. Result' = Product' % Power(type'.limbs) /\ (type'.checked => Result' = Product')
        /\ ret' = Size(Result')
    BY <1>3, <2>1, <2>5, <2>6, <2>7
  <2> QED BY <1>4, <2>1, <2>8 DEF Exact, Answered
<1> QED BY <1>6, <1>7

\* Every step keeps the products.
LEMMA NextExact ==
  ASSUME Assumptions, Placement, Placement', Exact, [Next]_vars
  PROVE  Exact'
<1>1. CASE Call
  <2>1. pc' = "entered"
    BY <1>1 DEF Call
  <2> QED BY <2>1 DEF Exact, Answered
<1>2. CASE Setup
  BY <1>2, SetupExact
<1>3. CASE Leaf
  BY <1>3, LeafExact
<1>4. CASE Split
  BY <1>4, SplitExact
<1>5. CASE LowDone
  BY <1>5, LowDoneExact
<1>6. CASE HighDone
  BY <1>6, HighDoneExact
<1>7. CASE Combine
  BY <1>7, CombineExact
<1>8. CASE Place
  BY <1>8, PlaceExact
<1>9. CASE Truncate
  BY <1>9, TruncateExact
<1>10. CASE Return
  <2>1. pc' = "idle"
    BY <1>10 DEF Return
  <2> QED BY <2>1 DEF Exact, Answered
<1>11. CASE UNCHANGED vars
  <2>1. /\ call' = call /\ cells' = cells /\ storage' = storage
        /\ stack' = stack /\ ret' = ret /\ pc' = pc
    BY <1>11 DEF vars
  <2>2. type' = type /\ sz' = sz /\ Product' = Product
    BY <2>1 DEF type, sz, Product
  <2>3. HasRoom' = HasRoom
    BY <2>2 DEF HasRoom
  <2>4. ResultLimbs' = ResultLimbs
    BY <2>2, <2>3 DEF ResultLimbs
  <2>5. CASE pc = "running"
    <3>1. ExactIn(cells', stack', ret')
      BY <2>1, <2>5, Zenon DEF Exact
    <3> QED BY <2>1, <2>5, <3>1, ExactStep
  <2>6. CASE pc # "running"
    <3>1. Result' = Result
      BY <2>1, <2>2, <2>4 DEF Result, resultView, View, Value
    <3>2. Answered'
      BY <2>1, <2>2, <2>3, <3>1 DEF Exact, Answered
    <3> QED BY <2>1, <2>6, <3>2 DEF Exact
  <2> QED BY <2>5, <2>6
<1> QED BY <1>1, <1>2, <1>3, <1>4, <1>5, <1>6, <1>7, <1>8, <1>9, <1>10, <1>11
        DEF Next, Step

\* The inductive invariant implies the property.
LEMMA ExactIsProductExact ==
  ASSUME Assumptions, Placement, Exact
  PROVE  ProductExact
<1>1. ASSUME pc = "running", NEW i \in DOMAIN stack
      PROVE  LET f == stack[i] IN
             /\ f.step \in {"high", "middle"} =>
                  Value(result_low(f)) = Value(Low(f.a, f.n)) * Value(Low(f.b, f.n))
             /\ f.step = "middle" =>
                  Value(result_high(f)) = Value(High(f.a, f.n)) * Value(High(f.b, f.n))
  <2> DEFINE f == stack[i]
  <2>1. CASE ~Splits(f)
    BY <2>1 DEF Splits
  <2>2. CASE Splits(f)
    <3>1. /\ Memory(cells, limit) /\ Stacked(stack, taken, storage.at + own, limit)
          /\ Serving(cells, stack) /\ limit \in Nat \ {0}
      <4>1. stack # <<>>
        BY <1>1
      <4> QED BY <1>1, <4>1, RunningFacts DEF Exact, ExactIn
    <3>2. i \in 1 .. Len(stack)
      BY <3>1 DEF Stacked
    <3>3. Placed(f, f.t, limit) /\ Sound(cells, f)
      <4>1. Placed(f, Level(f, taken), limit)
        BY <3>1, <3>2 DEF Stacked
      <4>2. Level(f, taken) = f.t
        BY <2>2 DEF Level
      <4>3. Sound(cells, f)
        BY <2>2, <3>1, <3>2 DEF Serving
      <4> QED BY <4>1, <4>2, <4>3
    <3> HIDE DEF f
    <3>4. \A v \in {f.a, f.b} : /\ Value(Low(v, f.n)) = Value(v) % Power(f.n)
                                /\ Value(High(v, f.n)) = Value(v) \div Power(f.n)
      BY <2>2, <3>1, <3>3, OperandValues
    <3>5. /\ LowProduct(cells, f) = Value(Low(f.a, f.n)) * Value(Low(f.b, f.n))
          /\ HighProduct(cells, f) = Value(High(f.a, f.n)) * Value(High(f.b, f.n))
      BY <3>4 DEF LowProduct, HighProduct, Value
    <3>6. /\ f.step \in {"high", "middle"} => Value(result_low(f)) = LowProduct(cells, f)
          /\ f.step = "middle" => Value(result_high(f)) = HighProduct(cells, f)
      BY <3>3 DEF Sound, Value
    <3> QED BY <3>5, <3>6 DEF f
  <2> QED BY <2>1, <2>2
<1>2. Answered
  BY DEF Exact
<1> QED BY <1>1, <1>2 DEF ProductExact, Answered

\* Products by parts are the products: in every invocation of multiply_karatsuba the low
\* and the high product stay what they are until they are combined, and the result of
\* eval_multiply is the product of its factors, or of a fixed precision type without
\* check its low limbs; it throws only if the type is checked and the product does not
\* fit.  This holds for all factors, limbs, types, and cut-offs of at least 20 limbs.
THEOREM ProductsByPartsAreExact ==
  ASSUME CutoffAssumption, TypesAssumption, FactorsAssumption, karatsuba_cutoff >= 20
  PROVE  Spec => []ProductExact
<1>1. Assumptions
  BY DEF Assumptions
<1>2. Init => Placement /\ Exact
  <2>1. Init => Placement
    BY InitPlaces
  <2>2. Init => Exact
    BY DEF Init, Exact, Answered
  <2> QED BY <2>1, <2>2
<1>3. Placement /\ Exact /\ [Next]_vars => (Placement /\ Exact)'
  <2>1. SUFFICES ASSUME Placement, Exact, [Next]_vars PROVE Placement' /\ Exact'
    OBVIOUS
  <2>2. Placement'
    BY <1>1, <2>1, NextPlaces
  <2> QED BY <1>1, <2>1, <2>2, NextExact
<1>4. Placement /\ Exact => ProductExact
  BY <1>1, ExactIsProductExact
<1> QED BY <1>2, <1>3, <1>4, PTL DEF Spec

=============================================================================
