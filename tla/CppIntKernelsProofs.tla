------------------------- MODULE CppIntKernelsProofs ------------------------
(***************************************************************************)
(* That products and square roots are exact, for every base, every number  *)
(* of limbs and every type: MultipliesExactly and PartialProducts are      *)
(* invariants of CppIntMultiply, RootExact and WordsSuffice of             *)
(* CppIntSquareRoot.                                                       *)
(*                                                                         *)
(* Products: the inductive invariant says what the operands hold while the *)
(* function runs, and for each of its loops what the part of the product   *)
(* that has been computed is, as an equation of integers (RowsSoFar,       *)
(* LimbsSoFar).  PartialProducts is that equation up to a multiple of what *)
(* the result has room for; that the carry of a row finds its limb still   *)
(* zero, and that a checked type loses nothing, takes the bounds stated    *)
(* with it.                                                                *)
(*                                                                         *)
(* Roots: the inductive invariant (RootInv) says that the levels of the    *)
(* recursion are the leading parts of one another, each number at least as *)
(* large as its four parts, and that the root the innermost level has got  *)
(* is that of its leading part, unless bits were lost.  The base cases     *)
(* need the bounds of every intermediate value, for every width of a limb. *)
(***************************************************************************)
EXTENDS CppIntMultiply, CppIntSquareRoot, LimbNumbersProofs

----------------------------------------------------------------------------
(* Types and numbers.                                                      *)

\* How many numbers a type of integers has
RangeOf(t) == Power(t.limbs - 1) * t.top

\* The limits of a type are between those of its limbs.
LEMMA TypeFacts ==
  ASSUME NEW t \in Types
  PROVE  /\ t.limbs \in Nat /\ t.limbs >= 3 /\ t.signed \in BOOLEAN /\ t.checked \in BOOLEAN
         /\ t.fixed \in BOOLEAN
         /\ RangeOf(t) \in Nat \ {0}
         /\ \E e \in Nat \ {0} : Power(t.limbs) = RangeOf(t) * e
         /\ \A k \in Nat : k < t.limbs => /\ Power(k) < RangeOf(t)
                                          /\ \E e \in Nat \ {0} : RangeOf(t) = Power(k) * e
         /\ t.top = Base => RangeOf(t) = Power(t.limbs)
<1> DEFINE l == t.limbs - 1
           d == Power(l)
           top == t.top
           e == Base \div top
           m == d * top
<1>1. t \in [limbs : Nat \ 0..2, top : 2..Base, signed : BOOLEAN,
             checked : BOOLEAN, fixed : BOOLEAN]
  BY TypesAssumption
<1>2. /\ t.limbs \in Nat /\ t.limbs >= 3 /\ t.signed \in BOOLEAN /\ t.checked \in BOOLEAN
      /\ t.fixed \in BOOLEAN /\ top \in 2 .. Base
  BY <1>1
<1>3. l \in Nat /\ t.limbs = l + 1 /\ d \in Nat \ {0} /\ Power(t.limbs) = Base * d
  <2>1. l \in Nat /\ t.limbs = l + 1
    BY <1>2
  <2>2. d \in Nat \ {0} /\ Power(l + 1) = Base * d
    BY <2>1, PowerFacts
  <2> QED BY <2>1, <2>2
<1>4. Base % top = 0 /\ top \in Nat \ {0} /\ Base \in Nat
  BY <1>2, TypesAssumption, BaseAssumption
<1> HIDE DEF l, d, top
<1>5. e \in Nat /\ Base = top * e
  <2>1. Base \in Int
    BY <1>4
  <2>2. Base = top * e + 0
    BY <1>4, <2>1, Division
  <2>3. e \in Nat
    BY <1>4, NaturalDivision
  <2> QED BY <1>4, <2>2, <2>3, Products
<1>6. e # 0
  BY <1>4, <1>5, Products, BaseAssumption
<1> HIDE DEF e
<1>7. m \in Nat /\ Base * d = m * e
  <2>1. Base * d = d * Base /\ d * (top * e) = (d * top) * e /\ d * top \in Nat
    BY <1>3, <1>4, <1>5, Products
  <2> QED BY <1>5, <2>1
<1>8. d * 2 <= m /\ d < m
  <2>1. d * 2 <= d * top
    BY <1>2, <1>3, Monotone
  <2> QED BY <1>3, <1>7, <2>1
<1> HIDE DEF m
<1>9. ASSUME NEW k \in Nat, k < t.limbs
      PROVE  /\ Power(k) < m
             /\ \E f \in Nat \ {0} : m = Power(k) * f
  <2> DEFINE o == Power(l - k)
             p == Power(k)
  <2>1. o \in Nat \ {0} /\ p \in Nat \ {0} /\ d = p * o /\ p <= d
    <3>1. l - k \in Nat /\ k <= l /\ k + (l - k) = l
      BY <1>2, <1>3, <1>9
    <3>2. Power(k + (l - k)) = p * o /\ p <= Power(l)
      BY <1>3, <3>1, PowerOfSum, PowersGrow
    <3>3. o \in Nat \ {0} /\ p \in Nat \ {0}
      BY <3>1, PowerFacts
    <3> QED BY <3>1, <3>2, <3>3 DEF d
  <2> HIDE DEF o, p
  <2>2. (p * o) * top = p * (o * top) /\ o * top \in Nat /\ m = d * top
    BY <1>4, <2>1, Products DEF m
  <2>3. o * top # 0
    <3>1. p * 0 = 0
      BY <2>1, Products
    <3> QED BY <1>3, <1>8, <2>1, <2>2, <3>1
  <2> QED BY <1>3, <1>8, <1>7, <2>1, <2>2, <2>3 DEF p
<1>10. RangeOf(t) = m
  BY DEF RangeOf, m, d, l, top
<1>11. ASSUME top = Base PROVE m = Power(t.limbs)
  <2>1. m = d * Base /\ d * Base = Base * d
    BY <1>3, <1>4, <1>11, Products DEF m
  <2> QED BY <1>3, <2>1
<1>12. m # 0
  BY <1>3, <1>7, <1>8
<1>13. Power(t.limbs) = m * e
  BY <1>3, <1>7
<1> HIDE DEF RangeOf
<1> QED BY <1>2, <1>5, <1>6, <1>7, <1>9, <1>10, <1>11, <1>12, <1>13 DEF top

Numbers == [mem : Nat, size : Nat \ {0}, sign : BOOLEAN]

\* There is room for n in the memory of a number of type t.
Fits(n, t) == n \in Numbers /\ n.mem < Power(t.limbs) /\ n.size <= t.limbs

\* n is v, without leading zeros.
Holds(n, v) ==
  /\ n.mem % Power(n.size) = Abs(v) /\ n.size = Size(Abs(v))
  /\ n.sign = (v < 0)

LEMMA Absolute ==
  ASSUME NEW v \in Int
  PROVE  Abs(v) \in Nat /\ Signed(Abs(v), v < 0) = v /\ (v # 0 <=> Abs(v) # 0)
BY DEF Abs, Signed

\* What Number makes
LEMMA NumberFacts ==
  ASSUME NEW t \in Types, NEW v \in Int, NEW dirt \in Nat,
         Abs(v) < Power(t.limbs), dirt < Power(t.limbs)
  PROVE  Fits(Number(v, dirt), t) /\ Holds(Number(v, dirt), v)
<1> DEFINE m == Abs(v)
           k == Size(m)
           w == (dirt \div Power(k)) * Power(k) + m
<1>1. m \in Nat /\ t.limbs \in Nat \ {0}
  BY Absolute, TypeFacts
<1>2. k \in Nat \ {0} /\ m < Power(k) /\ k <= t.limbs
  BY <1>1, Sizes
<1>3. w \in Nat /\ w % Power(k) = m /\ w < Power(t.limbs)
  BY <1>1, <1>2, ReplaceLow
<1>4. Number(v, dirt) = [mem |-> w, size |-> k, sign |-> v < 0]
  BY DEF Number
<1> HIDE DEF m, k, w
<1>5. Number(v, dirt) \in Numbers
  BY <1>2, <1>3, <1>4 DEF Numbers
<1> QED BY <1>2, <1>3, <1>4, <1>5 DEF Fits, Holds, m, k

\* What is held is the value, below its power and no shorter.
LEMMA HeldNumber ==
  ASSUME NEW t \in Types, NEW n, Fits(n, t), NEW v \in Int, Holds(n, v)
  PROVE  /\ Value(n) = v /\ Magnitude(n) = Abs(v) /\ Magnitude(n) \in Nat
         /\ n.size \in Nat \ {0} /\ Abs(v) < Power(n.size)
         /\ n.size = 1 <=> Abs(v) < Base
         /\ n.size # 1 => n.size - 1 \in Nat \ {0} /\ Power(n.size - 1) <= Abs(v)
         /\ \A k \in Nat : k < n.size => Limb(n.mem, k) = Limb(Abs(v), k)
<1>1. Abs(v) \in Nat /\ Signed(Abs(v), v < 0) = v
  BY Absolute
<1>2. n.mem \in Nat /\ n.size \in Nat \ {0}
  BY DEF Fits, Numbers
<1>3. Magnitude(n) = Abs(v) /\ n.size = Size(Abs(v)) /\ n.sign = (v < 0)
  BY DEF Holds, Magnitude
<1>4. Value(n) = v
  BY <1>1, <1>3, Zenon DEF Value
<1>5. /\ Abs(v) < Power(n.size)
      /\ n.size = 1 <=> Abs(v) < Base
      /\ n.size # 1 => n.size - 1 \in Nat \ {0} /\ Power(n.size - 1) <= Abs(v)
  BY <1>1, <1>3, Sizes
<1>6. ASSUME NEW k \in Nat, k < n.size PROVE Limb(n.mem, k) = Limb(Abs(v), k)
  <2>1. Limb(n.mem % Power(n.size), k) = Limb(n.mem, k)
    BY <1>2, <1>6, LimbFacts
  <2> QED BY <1>3, <2>1 DEF Magnitude
<1> QED BY <1>1, <1>2, <1>3, <1>4, <1>5, <1>6

\* normalize(): when a number of s limbs has the low limbs of p, and p has no more or
\* the type has no more, what is left after excess bits have been cut off is what the
\* type has room for.  It is p itself, unless p has more limbs or bits were lost.
LEMMA CutOff ==
  ASSUME NEW t \in Types, NEW mem \in Nat, mem < Power(t.limbs),
         NEW s \in Nat \ {0}, s <= t.limbs, NEW p \in Nat,
         mem % Power(s) = p % Power(s), p < Power(s) \/ s = t.limbs
  PROVE  LET m == RangeOf(t)
             q == (mem % m) % Power(s)
         IN /\ mem % m \in Nat /\ mem % m < Power(t.limbs) /\ q = p % m /\ q \in Nat /\ q < m
            /\ Size(q) \in Nat \ {0} /\ Size(q) <= s /\ (mem % m) % Power(Size(q)) = q
            /\ p < Power(s) /\ ~(s = t.limbs /\ mem % Power(s) >= m) => q = p
<1> DEFINE m == RangeOf(t)
           d == Power(s)
           low == mem % m
           q == low % d
<1>1. m \in Nat \ {0} /\ d \in Nat \ {0} /\ t.limbs \in Nat /\ Power(t.limbs) \in Nat
  BY TypeFacts, PowerFacts
<1>2. low \in Nat /\ low < m /\ low <= mem
  <2>1. low \in 0 .. m - 1
    <3>1. mem \in Int
      OBVIOUS
    <3> QED BY <1>1, <3>1, Division, Zenon
  <2>2. low <= mem
    BY <1>1, NaturalDivision
  <2> QED BY <1>1, <2>1, <2>2
<1>3. low < Power(t.limbs)
  BY <1>1, <1>2
<1>4. q \in Nat /\ q < d /\ q <= low
  <2>1. q \in Nat /\ q \in 0 .. d - 1 /\ q <= low
    BY <1>2, Parts
  <2> QED BY <1>1, <2>1
<1>5. Size(q) \in Nat \ {0} /\ Size(q) <= s
  BY <1>4, Sizes
<1>6. low % Power(Size(q)) = q
  <2>1. q % Power(Size(q)) = q
    BY <1>4, <1>5, LowBySize
  <2>2. (low % d) % Power(Size(q)) = low % Power(Size(q))
    BY <1>2, <1>5, LowOfLow
  <2> QED BY <2>1, <2>2
<1>7. CASE s = t.limbs
  <2> PICK e \in Nat \ {0} : Power(t.limbs) = m * e
    BY TypeFacts
  <2>1. mem % d = mem /\ d = m * e
    BY <1>7, Parts
  <2>2. (p % (m * e)) % m = p % m
    BY <1>1, DivisionTwice
  <2>3. low = p % m
    BY <2>1, <2>2
  <2>4. q = low
    BY <1>2, <1>3, <1>7, Parts
  <2>5. ASSUME p < d, ~(mem % d >= m) PROVE q = p
    <3>1. mem = p
      BY <2>1, <2>5, Parts
    <3> QED BY <1>1, <2>1, <2>3, <2>4, <2>5, <3>1, NaturalDivision
  <2> QED BY <1>1, <1>2, <1>3, <1>4, <1>5, <1>6, <1>7, <2>3, <2>4, <2>5
<1>8. CASE s # t.limbs
  <2>1. s < t.limbs /\ p < d
    BY <1>1, <1>8
  <2> PICK e \in Nat \ {0} : m = d * e
    BY <2>1, TypeFacts
  <2>2. d < m
    BY <2>1, TypeFacts
  <2>3. (mem % (d * e)) % d = mem % d
    BY <1>1, DivisionTwice
  <2>4. p % m = p
    BY <1>1, <2>1, <2>2, NaturalDivision
  <2>5. mem % d = p
    BY <2>1, Parts
  <2>6. q = p
    BY <2>3, <2>5
  <2> QED BY <1>1, <1>2, <1>3, <1>4, <1>5, <1>6, <1>8, <2>4, <2>6
<1> QED BY <1>7, <1>8

----------------------------------------------------------------------------
(* Products of two double limbs.                                           *)

LEMMA Square ==
  Base \in Nat /\ Base >= 2 /\ Power(1) = Base /\ Power(2) = Base * Base /\ Base * Base \in Nat
<1>1. Power(1 + 1) = Base * Power(1) /\ Power(0 + 1) = Base * Power(0) /\ Power(0) = 1
  BY PowerFacts
<1> QED BY <1>1, BaseAssumption, Products

\* A product of limbs leaves room for two limbs more.
LEMMA LimbProducts ==
  ASSUME NEW x \in 0 .. Base - 1, NEW y \in 0 .. Base - 1
  PROVE  x * y \in Nat /\ x * y + 2 * (Base - 1) < Base * Base
<1>1. x * y <= (Base - 1) * y /\ (Base - 1) * y <= (Base - 1) * (Base - 1)
  BY Square, Monotone
<1>2. (Base - 1) * (Base - 1) = Base * Base - 2 * Base + 1
  BY Square
<1>3. x * y \in Nat /\ (Base - 1) * y \in Int
  BY Square, Products
<1> DEFINE xy == x * y
           w == (Base - 1) * y
           c == Base * Base
<1>4. xy \in Nat /\ w \in Int /\ c \in Nat /\ xy <= w /\ w <= c - 2 * Base + 1
  BY Square, <1>1, <1>2, <1>3
<1> HIDE DEF xy, w, c
<1>5. xy \in Nat /\ xy + 2 * (Base - 1) < c
  BY Square, <1>4
<1> QED BY <1>5 DEF xy, c

\* The halves of a double limb
LEMMA Halves ==
  ASSUME NEW n \in Nat, n < Power(2)
  PROVE  /\ High(n) \in 0 .. Base - 1 /\ Lower(n) \in 0 .. Base - 1
         /\ n = Base * High(n) + Lower(n)
<1> DEFINE q == n \div Base
           o == n % Base
<1>1. Base \in Nat \ {0} /\ Power(2) = Base * Base
  BY Square
<1>2. q \in Nat /\ Base * q <= n
  BY <1>1, NaturalDivision, Zenon
<1>3. o \in 0 .. Base - 1 /\ n = Base * q + o
  <2>1. n \in Int
    OBVIOUS
  <2> QED BY <1>1, <2>1, Division, Zenon
<1> HIDE DEF q, o
<1>4. q < Base
  <2>1. Base * q < Base * Base
    BY <1>1, <1>2, Products
  <2> QED BY <1>1, <1>2, <2>1, Cancel
<1>5. q \in 0 .. Base - 1
  BY <1>1, <1>2, <1>4
<1> QED BY <1>3, <1>5, Zenon DEF High, Lower, q, o

\* The product of two sums, on paper
LEMMA FourProducts ==
  ASSUME NEW h \in Int, NEW l \in Int, NEW i \in Int, NEW k \in Int, NEW d \in Int
  PROVE  (d * h + l) * (d * i + k) = l * k + d * (l * i) + d * (h * k) + d * (d * (h * i))
BY SMT

\* Below a power, the remainder is the number itself.
LEMMA Whole ==
  ASSUME NEW n \in Nat, NEW m \in Nat, n < m
  PROVE  n % m = n
<1>1. m \in Nat \ {0}
  OBVIOUS
<1> QED BY <1>1, NaturalDivision

\* The product of two double limbs is put together from four products of limbs, and
\* no sum on the way is more than a double limb.
LEMMA FourLimbsExact ==
  ASSUME NEW n \in Nat, NEW m \in Nat, n < Power(2), m < Power(2)
  PROVE  FourLimbs(n, m) = n * m
<1> DEFINE nh == High(n)
           nl == Lower(n)
           mh == High(m)
           ml == Lower(m)
           ll == nl * ml
           lh == nl * mh
           hl == nh * ml
           hh == nh * mh
<1>1. /\ nh \in 0 .. Base - 1 /\ nl \in 0 .. Base - 1 /\ n = Base * nh + nl
      /\ mh \in 0 .. Base - 1 /\ ml \in 0 .. Base - 1 /\ m = Base * mh + ml
  BY Halves, Zenon
<1>2. Base \in Nat /\ Base >= 2 /\ Power(2) = Base * Base /\ Base * Base \in Nat
  BY Square
<1> HIDE DEF nh, nl, mh, ml
<1>3. \A x, y \in 0 .. Base - 1 :
        x * y \in Nat /\ x * y + 2 * (Base - 1) < Base * Base
  BY LimbProducts
<1>4. /\ ll \in Nat /\ ll + 2 * (Base - 1) < Base * Base
      /\ lh \in Nat /\ lh + 2 * (Base - 1) < Base * Base
      /\ hl \in Nat /\ hl + 2 * (Base - 1) < Base * Base
      /\ hh \in Nat /\ hh + 2 * (Base - 1) < Base * Base
  BY <1>1, <1>3
<1> DEFINE square == Base * Base
<1> HIDE DEF ll, lh, hl, hh, square
<1>5. square \in Nat /\ Power(2) = square
  BY <1>2 DEF square
<1>6. /\ High(ll) \in 0 .. Base - 1 /\ Lower(ll) \in 0 .. Base - 1
      /\ ll = Base * High(ll) + Lower(ll)
  <2>1. ll < Power(2)
    BY <1>2, <1>4
  <2> QED BY <1>4, <2>1, Halves, Zenon
<1> DEFINE up == High(ll) + lh
<1>7. up \in Nat /\ up < Power(2) /\ up % Power(2) = up
  <2>1. up \in Nat /\ up < Power(2) /\ Power(2) \in Nat
    BY <1>2, <1>4, <1>6, <1>5
  <2> QED BY <2>1, Whole
<1> HIDE DEF up
<1>8. /\ High(up) \in 0 .. Base - 1 /\ Lower(up) \in 0 .. Base - 1
      /\ up = Base * High(up) + Lower(up)
  BY <1>7, Halves, Zenon
<1> DEFINE mid == hl + Lower(up)
<1>9. mid \in Nat /\ mid < Power(2) /\ mid % Power(2) = mid
  <2>1. mid \in Nat /\ mid < Power(2) /\ Power(2) \in Nat
    BY <1>2, <1>4, <1>8, <1>5
  <2> QED BY <2>1, Whole
<1> HIDE DEF mid
<1>10. /\ High(mid) \in 0 .. Base - 1 /\ Lower(mid) \in 0 .. Base - 1
       /\ mid = Base * High(mid) + Lower(mid)
  BY <1>9, Halves, Zenon
<1> DEFINE top == High(mid) + High(up) + hh
<1>11. top \in Nat /\ top % Power(2) = top
  <2>1. top \in Nat /\ top < Power(2) /\ Power(2) \in Nat
    BY <1>2, <1>4, <1>8, <1>10, <1>5
  <2> QED BY <2>1, Whole
<1>12. FourLimbs(n, m) = Lower(ll) + Base * Lower(mid) + Power(2) * top
  BY <1>7, <1>9, <1>11 DEF FourLimbs, nh, nl, mh, ml, ll, lh, hl, hh, up, mid
<1>13. /\ Base * Lower(mid) = Base * mid - Base * (Base * High(mid))
       /\ Base * mid = Base * hl + Base * Lower(up)
       /\ Base * Lower(up) = Base * up - Base * (Base * High(up))
       /\ Base * up = Base * High(ll) + Base * lh
       /\ Power(2) * top = Base * (Base * High(mid)) + Base * (Base * High(up)) + Base * (Base * hh)
  <2>1. Base * Lower(mid) = Base * mid - Base * (Base * High(mid))
    <3>1. Lower(mid) = mid - Base * High(mid) /\ Base * High(mid) \in Int
      BY <1>2, <1>9, <1>10
    <3> QED BY <1>2, <1>9, <1>10, <3>1, Products
  <2>2. Base * mid = Base * hl + Base * Lower(up)
    BY <1>2, <1>4, <1>8, Products DEF mid
  <2>3. Base * Lower(up) = Base * up - Base * (Base * High(up))
    <3>1. Lower(up) = up - Base * High(up) /\ Base * High(up) \in Int
      BY <1>2, <1>7, <1>8
    <3> QED BY <1>2, <1>7, <1>8, <3>1, Products
  <2>4. Base * up = Base * High(ll) + Base * lh
    BY <1>2, <1>4, <1>6, Products DEF up
  <2>5. Power(2) * top
          = Base * (Base * High(mid)) + Base * (Base * High(up)) + Base * (Base * hh)
    <3> DEFINE x == High(mid)
               y == High(up)
    <3>1. x \in Int /\ y \in Int /\ hh \in Int /\ Base \in Int
      BY <1>2, <1>4, <1>8, <1>10
    <3> HIDE DEF x, y
    <3>2. (Base * Base) * (x + y + hh)
            = Base * (Base * x) + Base * (Base * y) + Base * (Base * hh)
      BY <3>1
    <3> QED BY <1>2, <3>2 DEF x, y
  <2> QED BY <2>1, <2>2, <2>3, <2>4, <2>5, Zenon
<1>14. n * m = ll + Base * lh + Base * hl + Base * (Base * hh)
  <2>1. nl \in Int /\ nh \in Int /\ ml \in Int /\ mh \in Int /\ Base \in Int
    BY <1>1, <1>2
  <2>2. (Base * nh + nl) * (Base * mh + ml)
           = nl * ml + Base * (nl * mh) + Base * (nh * ml) + Base * (Base * (nh * mh))
    BY <2>1, FourProducts
  <2> QED BY <1>1, <2>2, Zenon DEF ll, lh, hl, hh
<1> DEFINE e1 == Base * Lower(mid)
           e2 == Base * mid
           e3 == Base * (Base * High(mid))
           e4 == Base * hl
           e5 == Base * Lower(up)
           e6 == Base * up
           e7 == Base * (Base * High(up))
           e8 == Base * High(ll)
           e9 == Base * lh
           e10 == Power(2) * top
           e11 == Base * (Base * hh)
<1>15. /\ e1 \in Int /\ e2 \in Int /\ e3 \in Int /\ e4 \in Int /\ e5 \in Int /\ e6 \in Int
       /\ e7 \in Int /\ e8 \in Int /\ e9 \in Int /\ e10 \in Int /\ e11 \in Int
  BY <1>2, <1>4, <1>6, <1>7, <1>8, <1>9, <1>10, <1>11, <1>5, Products
<1>16. /\ e1 = e2 - e3 /\ e2 = e4 + e5 /\ e5 = e6 - e7 /\ e6 = e8 + e9 /\ e10 = e3 + e7 + e11
       /\ ll = e8 + Lower(ll) /\ FourLimbs(n, m) = Lower(ll) + e1 + e10
       /\ n * m = ll + e9 + e4 + e11
  BY <1>6, <1>12, <1>13, <1>14, Zenon
<1> HIDE DEF e1, e2, e3, e4, e5, e6, e7, e8, e9, e10, e11
<1>17. Lower(ll) \in Int /\ ll \in Int
  BY <1>4, <1>6, <1>2
<1> QED BY <1>15, <1>16, <1>17

\* Of two that are half as large, both middle products are added up at once.
LEMMA FourSignedLimbsExact ==
  ASSUME NEW n \in Nat, NEW m \in Nat, 2 * n < Power(2), 2 * m < Power(2)
  PROVE  FourSignedLimbs(n, m) = n * m
<1> DEFINE nh == High(n)
           nl == Lower(n)
           mh == High(m)
           ml == Lower(m)
           ll == nl * ml
           lh == nl * mh
           hl == nh * ml
           hh == nh * mh
           square == Base * Base
<1>1. Base \in Nat /\ Base >= 2 /\ Power(2) = Base * Base /\ Base * Base \in Nat
  BY Square
<1>2. /\ nh \in 0 .. Base - 1 /\ nl \in 0 .. Base - 1 /\ n = Base * nh + nl
      /\ mh \in 0 .. Base - 1 /\ ml \in 0 .. Base - 1 /\ m = Base * mh + ml
  <2>1. n < Power(2) /\ m < Power(2)
    BY <1>1
  <2> QED BY <2>1, Halves, Zenon
<1> HIDE DEF nh, nl, mh, ml
<1>3. \A h, l \in 0 .. Base - 1 : 2 * (Base * h + l) < Base * Base => 2 * h \in 0 .. Base - 1
  <2> SUFFICES ASSUME NEW h \in 0 .. Base - 1, NEW l \in 0 .. Base - 1,
                      2 * (Base * h + l) < Base * Base
               PROVE  2 * h \in 0 .. Base - 1
    OBVIOUS
  <2>1. Base * (2 * h) = 2 * (Base * h) /\ Base * h \in Int /\ Base * (2 * h) \in Int
    BY <1>1
  <2>2. Base * (2 * h) < Base * Base
    BY <1>1, <2>1
  <2> QED BY <1>1, <2>2, Cancel
<1>4. 2 * nh \in 0 .. Base - 1 /\ 2 * mh \in 0 .. Base - 1
  BY <1>1, <1>2, <1>3
<1>5. /\ ll \in Nat /\ ll < square
      /\ lh \in Nat /\ 2 * lh + 2 * (Base - 1) < square
      /\ hl \in Nat /\ 2 * hl + 2 * (Base - 1) < square
      /\ hh \in Nat /\ hh + 2 * (Base - 1) < square
  <2>1. ll \in Nat /\ lh \in Nat /\ hl \in Nat /\ hh \in Nat
    BY <1>2, LimbProducts
  <2>2. ll + 2 * (Base - 1) < square /\ hh + 2 * (Base - 1) < square
    BY <1>2, LimbProducts
  <2>3. nl * (2 * mh) + 2 * (Base - 1) < square /\ ml * (2 * nh) + 2 * (Base - 1) < square
    BY <1>2, <1>4, LimbProducts
  <2>4. nl * (2 * mh) = 2 * lh /\ ml * (2 * nh) = 2 * hl
    BY <1>1, <1>2
  <2> HIDE DEF ll, lh, hl, hh, square
  <2>5. ll < square
    BY <2>1, <2>2, <1>1 DEF square
  <2> QED BY <2>1, <2>2, <2>3, <2>4, <2>5
<1> HIDE DEF ll, lh, hl, hh, square
<1>6. square \in Nat /\ Power(2) = square
  BY <1>1 DEF square
<1>7. /\ High(ll) \in 0 .. Base - 1 /\ Lower(ll) \in 0 .. Base - 1
      /\ ll = Base * High(ll) + Lower(ll)
  BY <1>5, <1>6, Halves, Zenon
<1> DEFINE mid == High(ll) + lh + hl
<1>8. mid \in Nat /\ mid < Power(2) /\ mid % Power(2) = mid
  <2>1. mid \in Nat /\ mid < Power(2) /\ Power(2) \in Nat
    BY <1>1, <1>5, <1>6, <1>7
  <2> QED BY <2>1, Whole
<1> HIDE DEF mid
<1>9. /\ High(mid) \in 0 .. Base - 1 /\ Lower(mid) \in 0 .. Base - 1
      /\ mid = Base * High(mid) + Lower(mid)
  BY <1>8, Halves, Zenon
<1> DEFINE top == High(mid) + hh
<1>10. top \in Nat /\ top % Power(2) = top
  <2>1. top \in Nat /\ top < Power(2) /\ Power(2) \in Nat
    BY <1>1, <1>5, <1>6, <1>9
  <2> QED BY <2>1, Whole
<1>11. FourSignedLimbs(n, m) = Lower(ll) + Base * Lower(mid) + Power(2) * top
  BY <1>8, <1>10 DEF FourSignedLimbs, nh, nl, mh, ml, ll, lh, hl, hh, mid
<1>12. /\ Base * Lower(mid) = Base * mid - Base * (Base * High(mid))
       /\ Base * mid = Base * High(ll) + Base * lh + Base * hl
       /\ Power(2) * top = Base * (Base * High(mid)) + Base * (Base * hh)
  <2>1. Base * Lower(mid) = Base * mid - Base * (Base * High(mid))
    <3>1. Lower(mid) = mid - Base * High(mid) /\ Base * High(mid) \in Int
      BY <1>1, <1>8, <1>9
    <3> QED BY <1>1, <1>8, <1>9, <3>1, Products
  <2>2. Base * mid = Base * High(ll) + Base * lh + Base * hl
    <3> DEFINE x == High(ll)
    <3>1. x \in Int /\ lh \in Int /\ hl \in Int /\ Base \in Int
      BY <1>1, <1>5, <1>7
    <3> HIDE DEF x
    <3>2. Base * (x + lh + hl) = Base * x + Base * lh + Base * hl
      BY <3>1
    <3> QED BY <3>2 DEF x, mid
  <2>3. Power(2) * top = Base * (Base * High(mid)) + Base * (Base * hh)
    <3> DEFINE x == High(mid)
    <3>1. x \in Int /\ hh \in Int /\ Base \in Int
      BY <1>1, <1>5, <1>9
    <3> HIDE DEF x
    <3>2. (Base * Base) * (x + hh) = Base * (Base * x) + Base * (Base * hh)
      BY <3>1
    <3> QED BY <1>1, <3>2 DEF x
  <2> QED BY <2>1, <2>2, <2>3, Zenon
<1>13. n * m = ll + Base * lh + Base * hl + Base * (Base * hh)
  <2>1. nl \in Int /\ nh \in Int /\ ml \in Int /\ mh \in Int /\ Base \in Int
    BY <1>1, <1>2
  <2>2. (Base * nh + nl) * (Base * mh + ml)
           = nl * ml + Base * (nl * mh) + Base * (nh * ml) + Base * (Base * (nh * mh))
    BY <2>1, FourProducts
  <2> QED BY <1>2, <2>2, Zenon DEF ll, lh, hl, hh
<1> DEFINE e1 == Base * Lower(mid)
           e2 == Base * mid
           e3 == Base * (Base * High(mid))
           e4 == Base * hl
           e8 == Base * High(ll)
           e9 == Base * lh
           e10 == Power(2) * top
           e11 == Base * (Base * hh)
<1>14. /\ e1 \in Int /\ e2 \in Int /\ e3 \in Int /\ e4 \in Int
       /\ e8 \in Int /\ e9 \in Int /\ e10 \in Int /\ e11 \in Int
  BY <1>1, <1>5, <1>6, <1>7, <1>8, <1>9, <1>10, Products
<1>15. /\ e1 = e2 - e3 /\ e2 = e8 + e9 + e4 /\ e10 = e3 + e11
       /\ ll = e8 + Lower(ll) /\ FourSignedLimbs(n, m) = Lower(ll) + e1 + e10
       /\ n * m = ll + e9 + e4 + e11
  BY <1>7, <1>11, <1>12, <1>13, Zenon
<1> HIDE DEF e1, e2, e3, e4, e8, e9, e10, e11
<1>16. Lower(ll) \in Int /\ ll \in Int
  BY <1>1, <1>5, <1>7
<1> QED BY <1>14, <1>15, <1>16

----------------------------------------------------------------------------
(* The loops, in numbers.                                                  *)

\* A limb more of the product by a limb
LEMMA LimbProduct ==
  ASSUME NEW mem \in Nat, NEW n \in Nat, NEW i \in Nat,
         NEW val \in 0 .. Base - 1, NEW carry \in 0 .. Base - 1,
         (mem % Power(i)) + carry * Power(i) = (n % Power(i)) * val
  PROVE  LET c == carry + Limb(n, i) * val
             w == WithLimb(mem, i, c % Base)
         IN /\ c % Base \in 0 .. Base - 1 /\ c \div Base \in 0 .. Base - 1
            /\ (w % Power(i + 1)) + (c \div Base) * Power(i + 1) = (n % Power(i + 1)) * val
<1> DEFINE d == Power(i)
           x == Limb(n, i)
           c == carry + x * val
           u == c \div Base
           o == c % Base
           w == WithLimb(mem, i, o)
           low == mem % d
           nlow == n % d
<1>1. /\ d \in Nat /\ Power(i + 1) = Base * d /\ x \in 0 .. Base - 1 /\ low \in Nat /\ nlow \in Nat
      /\ n % Power(i + 1) = nlow + d * x
  <2>1. d \in Nat /\ Power(i + 1) = Base * d
    BY PowerFacts
  <2>2. x \in 0 .. Base - 1 /\ n % Power(i + 1) = nlow + d * x
    BY LimbFacts, Zenon
  <2>3. low \in Nat /\ nlow \in Nat
    BY Parts
  <2> QED BY <2>1, <2>2, <2>3, Zenon
<1>2. u \in 0 .. Base - 1 /\ o \in 0 .. Base - 1 /\ c = Base * u + o /\ c \in Nat
  <2> HIDE DEF x
  <2>1. 0 \in 0 .. Base - 1
    BY BaseAssumption
  <2>2. x * val \in Nat
    BY <1>1, Carries
  <2>3. carry + x * val + 0 = c
    BY <2>2
  <2> QED BY <1>1, <2>1, <2>3, Carries
<1>3. w % Power(i + 1) = low + d * o
  <2> HIDE DEF o
  <2> QED BY <1>2, WriteLimb, ZenonT(60)
<1>4. low + carry * d = nlow * val
  OBVIOUS
<1> HIDE DEF d, x, u, o, w, low, nlow, c
<1>5. (low + d * o) + u * (Base * d) = (nlow + d * x) * val
  <2>1. /\ x \in Int /\ u \in Int /\ o \in Int /\ val \in Int /\ carry \in Int /\ d \in Int
        /\ low \in Int /\ nlow \in Int /\ Base \in Int
    BY <1>1, <1>2, BaseAssumption
  <2>2. (nlow + d * x) * val = nlow * val + d * (x * val)
    BY <2>1
  <2>3. u * (Base * d) = d * (Base * u)
    BY <2>1
  <2>4. Base * u + o = carry + x * val
    BY <1>2 DEF c
  <2>5. d * (Base * u + o) = d * (Base * u) + d * o
    BY <2>1
  <2>6. d * (carry + x * val) = carry * d + d * (x * val)
    BY <2>1
  <2> DEFINE e1 == d * o
             e2 == d * (Base * u)
             e3 == carry * d
             e4 == d * (x * val)
             e5 == nlow * val
  <2>7. e1 \in Int /\ e2 \in Int /\ e3 \in Int /\ e4 \in Int /\ e5 \in Int
    BY <2>1
  <2>8. e2 + e1 = e3 + e4 /\ low + e3 = e5
    BY <1>4, <2>4, <2>5, <2>6, Zenon
  <2> HIDE DEF e1, e2, e3, e4, e5
  <2>9. (low + e1) + e2 = e5 + e4
    BY <2>1, <2>7, <2>8
  <2> QED BY <2>2, <2>3, <2>9 DEF e1, e2, e4, e5
<1> QED BY <1>1, <1>2, <1>3, <1>5, Zenon DEF d, x, u, o, w, low, nlow, c

\* By rows: what n * m is ahead of a result g by, after i rows and j limbs of the next
Excess(n, m, i, j, g, carry) ==
  (n % Power(i)) * m + Limb(n, i) * (m % Power(j)) * Power(i) - (g + carry * Power(i + j))

LEMMA ExcessIsInt ==
  ASSUME NEW n \in Nat, NEW m \in Nat, NEW i \in Nat, NEW j \in Nat,
         NEW g \in Int, NEW carry \in Int
  PROVE  Excess(n, m, i, j, g, carry) \in Int
<1> DEFINE x == Limb(n, i)
           p == Power(i)
           q == Power(i + j)
           nlow == n % p
           low == m % Power(j)
<1>1. x \in Int /\ p \in Int /\ q \in Int /\ nlow \in Int /\ low \in Int
  <2>1. x \in Nat /\ p \in Nat /\ nlow \in Nat /\ low \in Nat
    BY LimbFacts, PowerFacts, Parts, Zenon
  <2>2. i + j \in Nat
    OBVIOUS
  <2>3. q \in Nat
    BY <2>2, PowerFacts
  <2> QED BY <2>1, <2>3
<1>2. Excess(n, m, i, j, g, carry) = nlow * m + x * low * p - (g + carry * q)
  BY DEF Excess
<1> HIDE DEF x, p, q, nlow, low
<1> QED BY <1>1, <1>2

\* What a limb of a row comes to
RowSum(n, m, i, j, mem, carry) == carry + Limb(n, i) * Limb(m, j) + Limb(mem, i + j)

\* One limb and a carry is what it takes, and the excess stays.
RowLimbAdded(n, m, i, j, s, mem, carry) ==
  LET c == RowSum(n, m, i, j, mem, carry)
      w == WithLimb(mem, i + j, c % Base)
  IN /\ c % Base \in 0 .. Base - 1 /\ c \div Base \in 0 .. Base - 1
     /\ Excess(n, m, i, j + 1, w % Power(s), c \div Base)
          = Excess(n, m, i, j, mem % Power(s), carry)

\* A limb more of a row takes the excess nowhere.
LEMMA RowLimbExcess ==
  ASSUME NEW n \in Nat, NEW m \in Nat, NEW i \in Nat, NEW j \in Nat, NEW s \in Nat, i + j < s,
         NEW mem \in Nat, NEW carry \in 0 .. Base - 1
  PROVE  RowLimbAdded(n, m, i, j, s, mem, carry)
<1> DEFINE k == i + j
           x == Limb(n, i)
           y == Limb(m, j)
           z == Limb(mem, k)
           c == carry + x * y + z
           u == c \div Base
           o == c % Base
           w == WithLimb(mem, k, o)
           pi == Power(i)
           pj == Power(j)
           pk == Power(k)
           g == mem % Power(s)
           done == (n % pi) * m
           low == m % pj
<1>1. k \in Nat /\ k < s /\ k + 1 = i + (j + 1) /\ j + 1 \in Nat
  OBVIOUS
<1>2. /\ pi \in Nat /\ pj \in Nat /\ pk = pi * pj /\ Power(k + 1) = Base * pk /\ pk \in Nat
  BY <1>1, PowerFacts, PowerOfSum
<1>3. x \in 0 .. Base - 1 /\ y \in 0 .. Base - 1 /\ z \in 0 .. Base - 1
  <2> HIDE DEF k
  <2>1. x \in 0 .. Base - 1 /\ y \in 0 .. Base - 1
    BY LimbFacts
  <2>2. z \in 0 .. Base - 1
    BY <1>1, LimbFacts
  <2> QED BY <2>1, <2>2
<1>4. u \in 0 .. Base - 1 /\ o \in 0 .. Base - 1 /\ c = Base * u + o /\ c \in Nat
  <2> HIDE DEF x, y, z
  <2> QED BY <1>3, Carries
<1>5. w % Power(s) = g + pk * o - pk * z
  <2> HIDE DEF o, k
  <2> QED BY <1>1, <1>4, WriteAbove
<1>6. m % Power(j + 1) = low + pj * y /\ low \in Nat
  BY LimbFacts, Parts, Zenon
<1>7. g \in Nat /\ done \in Nat
  <2>1. n % pi \in Nat /\ g \in Nat
    BY Parts
  <2> QED BY <2>1, Products
<1>8. Excess(n, m, i, j, g, carry) = done + x * low * pi - (g + carry * pk)
  BY DEF Excess
<1>9. Excess(n, m, i, j + 1, w % Power(s), u)
        = done + x * (low + pj * y) * pi - ((g + pk * o - pk * z) + u * (Base * pk))
  <2>1. Power(i + (j + 1)) = Base * pk
    BY <1>1, <1>2
  <2> HIDE DEF k, x, y, z, c, u, o, w, pk, g, low
  <2> QED BY <1>5, <1>6, <2>1, Zenon DEF Excess, x
<1> HIDE DEF k, x, y, z, u, o, w, pi, pj, pk, g, done, low
<1>10. x * (low + pj * y) * pi = x * low * pi + pk * (x * y)
  <2>1. x \in Int /\ y \in Int /\ low \in Int /\ pi \in Int /\ pj \in Int
    BY <1>2, <1>3, <1>6, BaseAssumption
  <2>2. x * (low + pj * y) * pi = x * low * pi + (pi * pj) * (x * y)
    BY <2>1
  <2> QED BY <1>2, <2>2
<1>11. pk * o + u * (Base * pk) = carry * pk + pk * (x * y) + pk * z
  <2>1. /\ x * y \in Int /\ z \in Int /\ u \in Int /\ o \in Int /\ carry \in Int /\ pk \in Int
        /\ Base \in Int
    BY <1>2, <1>3, <1>4, BaseAssumption, Products
  <2>2. pk * o + u * (Base * pk) = pk * (Base * u + o)
    BY <2>1
  <2> DEFINE xy == x * y
  <2> HIDE DEF xy
  <2>3. pk * (carry + xy + z) = carry * pk + pk * xy + pk * z
    BY <2>1 DEF xy
  <2> QED BY <1>4, <2>2, <2>3 DEF xy
<1> DEFINE e1 == pk * o
           e2 == u * (Base * pk)
           e3 == carry * pk
           e4 == pk * (x * y)
           e5 == pk * z
           e6 == x * low * pi
<1>12. /\ e1 \in Int /\ e2 \in Int /\ e3 \in Int /\ e4 \in Int /\ e5 \in Int /\ e6 \in Int
  BY <1>2, <1>3, <1>4, <1>6, BaseAssumption, Products
<1> HIDE DEF e1, e2, e3, e4, e5, e6
<1>13. done + (e6 + e4) - ((g + e1 - e5) + e2) = done + e6 - (g + e3)
  <2>1. e1 + e2 = e3 + e4 + e5
    BY <1>11, Zenon DEF e1, e2, e3, e4, e5
  <2> QED BY <1>7, <1>12, <2>1
<1>14. Excess(n, m, i, j + 1, w % Power(s), u) = Excess(n, m, i, j, g, carry)
  BY <1>8, <1>9, <1>10, <1>13, Zenon DEF e1, e2, e3, e4, e5, e6
<1> QED BY <1>4, <1>14, Zenon DEF RowLimbAdded, RowSum, u, o, w, g, k, x, y, z, c

\* Between two rows
LEMMA RowStartExcess ==
  ASSUME NEW n \in Nat, NEW m \in Nat, NEW i \in Nat, NEW g \in Int
  PROVE  Excess(n, m, i, 0, g, 0) = (n % Power(i)) * m - g
<1> DEFINE y == Limb(n, i)
           p == Power(i)
           e == (n % p) * m
<1>1. m % Power(0) = 0
  <2>1. m % Power(0) \in 0 .. Power(0) - 1 /\ Power(0) = 1
    BY Parts, PowerFacts
  <2> QED BY <2>1
<1>2. y \in Int /\ p \in Int /\ e \in Int /\ i + 0 = i
  <2>1. y \in Nat /\ p \in Nat /\ n % p \in Nat
    BY LimbFacts, PowerFacts, Parts, Zenon
  <2> QED BY <2>1, Products
<1>3. Excess(n, m, i, 0, g, 0) = e + y * 0 * p - (g + 0 * p)
  <2> HIDE DEF y
  <2> QED BY <1>1, <1>2 DEF Excess, y
<1> HIDE DEF y, p, e
<1>4. y * 0 * p = 0 /\ 0 * p = 0
  BY <1>2
<1>5. e + 0 - (g + 0) = e - g
  BY <1>2
<1> QED BY <1>3, <1>4, <1>5 DEF e, p

\* The end of a row: the excess grows by what the row has not got of its product and
\* by its carry, less what is written.
RowEnded(n, m, i, j, g, h, carry) ==
  Excess(n, m, i + 1, 0, h, 0)
    = Excess(n, m, i, j, g, carry)
        + (carry + Limb(n, i) * (m \div Power(j))) * Power(i + j) - (h - g)

LEMMA RowEndExcess ==
  ASSUME NEW n \in Nat, NEW m \in Nat, NEW i \in Nat, NEW j \in Nat,
         NEW g \in Int, NEW h \in Int, NEW carry \in Int
  PROVE  RowEnded(n, m, i, j, g, h, carry)
<1> DEFINE x == Limb(n, i)
           pi == Power(i)
           pj == Power(j)
           pk == Power(i + j)
           q == m \div pj
           low == m % pj
           nlow == n % pi
<1>1. pi \in Nat /\ pj \in Nat /\ pk = pi * pj /\ pk \in Nat
  <2>1. pi \in Nat /\ pj \in Nat
    BY PowerFacts
  <2>2. pk = pi * pj
    BY PowerOfSum
  <2> QED BY <2>1, <2>2, Products
<1>2. x \in Nat /\ n % Power(i + 1) = nlow + pi * x /\ nlow \in Nat
  BY LimbFacts, Parts, Zenon
<1>3. q \in Nat /\ low \in Nat /\ m = pj * q + low
  BY Parts, Zenon
<1>4. Excess(n, m, i, j, g, carry) = nlow * m + x * low * pi - (g + carry * pk)
  BY DEF Excess
<1>5. Excess(n, m, i + 1, 0, h, 0) = (nlow + pi * x) * m - h
  <2>1. i + 1 \in Nat
    OBVIOUS
  <2>2. Excess(n, m, i + 1, 0, h, 0) = (n % Power(i + 1)) * m - h
    BY <2>1, RowStartExcess
  <2> QED BY <1>2, <2>2, Zenon
<1> HIDE DEF x, pi, pj, pk, q, low, nlow
<1>6. (nlow + pi * x) * m = nlow * m + x * low * pi + (x * q) * pk
  <2>1. (nlow + pi * x) * m = nlow * m + pi * x * m
    BY <1>1, <1>2, <1>3
  <2>2. pi * x * (pj * q + low) = x * low * pi + (x * q) * (pi * pj)
    BY <1>1, <1>2, <1>3
  <2> DEFINE e1 == nlow * m
             e2 == x * low * pi
             e3 == (x * q) * pk
  <2>3. e1 \in Int /\ e2 \in Int /\ e3 \in Int
    BY <1>1, <1>2, <1>3, Products
  <2>4. pi * x * m = e2 + e3
    BY <1>1, <1>3, <2>2
  <2> HIDE DEF e1, e2, e3
  <2>5. e1 + (e2 + e3) = e1 + e2 + e3
    BY <2>3
  <2> QED BY <2>1, <2>4, <2>5 DEF e1, e2, e3
<1>7. (carry + x * q) * pk = carry * pk + (x * q) * pk
  <2>1. x * q \in Int
    BY <1>2, <1>3, Products
  <2> QED BY <1>1, <2>1
<1> DEFINE e1 == nlow * m
           e2 == x * low * pi
           e3 == (x * q) * pk
           e4 == carry * pk
<1>8. e1 \in Int /\ e2 \in Int /\ e3 \in Int /\ e4 \in Int
  BY <1>1, <1>2, <1>3, Products
<1> HIDE DEF e1, e2, e3, e4
<1>9. e1 + e2 + e3 - h = e1 + e2 - (g + e4) + (e4 + e3) - (h - g)
  BY <1>8
<1>10. Excess(n, m, i + 1, 0, h, 0) = e1 + e2 + e3 - h
  <2> DEFINE e == (nlow + pi * x) * m
  <2>1. e = e1 + e2 + e3
    BY <1>6, Zenon DEF e1, e2, e3
  <2>2. Excess(n, m, i + 1, 0, h, 0) = e - h
    BY <1>5, Zenon
  <2> HIDE DEF e
  <2> QED BY <1>8, <2>1, <2>2
<1>11. Excess(n, m, i, j, g, carry) = e1 + e2 - (g + e4)
  BY <1>4, Zenon DEF e1, e2, e4
<1>12. (carry + x * q) * pk = e4 + e3
  BY <1>7, Zenon DEF e3, e4
<1>13. Excess(n, m, i + 1, 0, h, 0)
         = Excess(n, m, i, j, g, carry) + (carry + x * q) * pk - (h - g)
  BY <1>9, <1>10, <1>11, <1>12, Zenon
<1> QED BY <1>13, Zenon DEF x, pj, pk, q, RowEnded

----------------------------------------------------------------------------
(* The inductive invariant.                                                *)

given1 == call.given[1]
given2 == call.given[2]
negative == (given1 < 0) # (given2 < 0)   \* the sign of the product, on paper

WellFormed ==
  /\ call \in [type : Types, fn : Functions, a : Objects, b : Objects, given : Int \X Int]
  /\ num \in [Objects -> Numbers]
  /\ \A o \in Objects : Fits(num[o], type)
  /\ pc \in {"idle", "entered", "limbs", "rows", "returned", "threw"}
  /\ loop \in [i : 0..type.limbs, j : 0..type.limbs, val : 0 .. Base - 1,
               carry : 0 .. Base - 1, neg : BOOLEAN]
  /\ pc \notin {"limbs", "rows"} => loop = NoLoop
  /\ pc = "idle" => num = [o \in Objects |-> Number(0, 0)]

\* What a call was given: u and v hold it as long as it runs.
Operands ==
  pc # "idle" =>
    /\ Holds(num["u"], given1) /\ Holds(num["v"], given2)
    /\ call.fn = "by_number" /\ (given1 < 0 \/ given2 < 0) => type.signed
    /\ call.fn \in {"by_limb", "by_signed_limb"} => second \in 0 .. Base - 1
    /\ call.fn = "by_limb" => given2 >= 0
    /\ call.fn = "double_limbs" => given1 >= 0 /\ given2 >= 0
    /\ call.fn \in {"double_limbs", "signed_double_limbs"} =>
         type.limbs >= 4 /\ type.top = Base /\ first < Power(2) /\ second < Power(2)
    /\ call.fn = "signed_double_limbs" => 2 * first < Power(2) /\ 2 * second < Power(2)

\* The operands before the loops, whatever has been copied
OnEntry ==
  pc = "entered" =>
    /\ call.a \in {"r", "u", "a_copy"} /\ call.b \in {"r", "v", "b_copy"}
    /\ call.fn \in {"by_number", "by_limb", "by_signed_limb"} => Holds(a, given1)
    /\ call.fn = "by_number" => Holds(b, given2)

\* By a limb, the limbs of the multiplicand from loop.i on are still there, and those
\* below have been replaced by the product's.
LimbsSoFar ==
  pc = "limbs" =>
    LET n == Multiplicand IN
    /\ call.fn \in {"by_number", "by_limb", "by_signed_limb"}
    /\ loop.i <= r.size /\ r.size = a.size /\ a.size = Size(n)
    /\ n * loop.val = first * second /\ loop.neg = negative
    /\ (r.mem % Power(loop.i)) + loop.carry * Power(loop.i) = (n % Power(loop.i)) * loop.val
    /\ \A k \in loop.i .. a.size - 1 : Limb(a.mem, k) = Limb(n, k)

\* What the result lacks, it has no room for; in a checked type that is nothing.  No
\* limb above the rows' end has been written yet.
RowsSoFar ==
  pc = "rows" =>
    /\ call.fn = "by_number" /\ call.a # "r" /\ call.b # "r"
    /\ Holds(a, given1) /\ Holds(b, given2) /\ a.size # 1 /\ b.size # 1
    /\ r.size = Smaller(a.size + b.size, type.limbs) /\ loop.neg = negative
    /\ Checked => a.size + b.size - 1 <= r.size
    /\ loop.i <= a.size
    /\ IF loop.i = a.size THEN loop.j = 0 /\ loop.carry = 0 ELSE loop.j <= inner_limit
    /\ Magnitude(r) < Power(loop.i + b.size)
    /\ LET excess == Excess(first, second, loop.i, loop.j, Magnitude(r), loop.carry)
       IN excess % Power(r.size) = 0 /\ (Checked => excess = 0)

Inv ==
  /\ WellFormed /\ Operands /\ OnEntry /\ LimbsSoFar /\ RowsSoFar /\ MultipliesExactly

----------------------------------------------------------------------------
(* Results.                                                                *)

\* The product's magnitude and its sign
LEMMA ProductOfSigned ==
  ASSUME NEW x \in Int, NEW y \in Int
  PROVE  /\ x * y \in Int /\ Abs(x) * Abs(y) \in Nat /\ Abs(x * y) = Abs(x) * Abs(y)
         /\ x * y < 0 <=> ((x < 0) # (y < 0)) /\ Abs(x) * Abs(y) # 0
<1>1. \A p, q \in Nat : p * q \in Nat
  BY Products
<1>2. (-x) * y = -(x * y) /\ x * (-y) = -(x * y) /\ (-x) * (-y) = x * y /\ x * y \in Int
  OBVIOUS
<1>3. CASE x < 0 /\ y < 0
  <2>1. Abs(x) = -x /\ Abs(y) = -y /\ -x \in Nat /\ -y \in Nat
    BY <1>3 DEF Abs
  <2>2. x * y \in Nat
    BY <1>1, <1>2, <2>1
  <2> QED BY <1>2, <1>3, <2>1, <2>2 DEF Abs
<1>4. CASE x < 0 /\ ~(y < 0)
  <2>1. Abs(x) = -x /\ Abs(y) = y /\ -x \in Nat /\ y \in Nat
    BY <1>4 DEF Abs
  <2>2. -(x * y) \in Nat
    BY <1>1, <1>2, <2>1
  <2> QED BY <1>2, <1>4, <2>1, <2>2 DEF Abs
<1>5. CASE ~(x < 0) /\ y < 0
  <2>1. Abs(x) = x /\ Abs(y) = -y /\ x \in Nat /\ -y \in Nat
    BY <1>5 DEF Abs
  <2>2. -(x * y) \in Nat
    BY <1>1, <1>2, <2>1
  <2> QED BY <1>2, <1>5, <2>1, <2>2 DEF Abs
<1>6. CASE ~(x < 0) /\ ~(y < 0)
  <2>1. Abs(x) = x /\ Abs(y) = y /\ x \in Nat /\ y \in Nat
    BY <1>6 DEF Abs
  <2>2. x * y \in Nat
    BY <1>1, <2>1
  <2> QED BY <1>6, <2>1, <2>2 DEF Abs
<1> QED BY <1>3, <1>4, <1>5, <1>6

\* What the proofs below know of a state
LEMMA Basics ==
  ASSUME WellFormed
  PROVE  /\ type \in Types /\ type.limbs \in Nat /\ type.limbs >= 3 /\ type.signed \in BOOLEAN
         /\ Checked \in BOOLEAN /\ type.fixed \in BOOLEAN
         /\ Modulus = RangeOf(type) /\ Modulus \in Nat \ {0}
         /\ given1 \in Int /\ given2 \in Int /\ first \in Nat /\ second \in Nat
         /\ first * second \in Nat /\ negative \in BOOLEAN
         /\ given1 * given2 \in Int /\ Abs(given1 * given2) = first * second
         /\ given1 * given2 < 0 <=> negative /\ first * second # 0
         /\ Fits(a, type) /\ Fits(b, type) /\ Fits(r, type) /\ "r" \in Objects
<1>1. type \in Types /\ given1 \in Int /\ given2 \in Int
  BY DEF WellFormed, type, given1, given2
<1>2. Modulus = RangeOf(type)
  BY DEF Modulus, RangeOf
<1>3. /\ type.limbs \in Nat /\ type.limbs >= 3 /\ type.signed \in BOOLEAN
      /\ Checked \in BOOLEAN /\ type.fixed \in BOOLEAN /\ Modulus \in Nat \ {0}
  BY <1>1, <1>2, TypeFacts DEF Checked
<1>4. first = Abs(given1) /\ second = Abs(given2)
  BY DEF first, second, given1, given2
<1>5. first \in Nat /\ second \in Nat
  BY <1>1, <1>4, Absolute
<1>6. negative \in BOOLEAN
  BY DEF negative
<1>7. Fits(a, type) /\ Fits(b, type) /\ Fits(r, type) /\ "r" \in Objects
  BY DEF WellFormed, a, b, r, Objects
<1>8. /\ first * second \in Nat /\ given1 * given2 \in Int
      /\ Abs(given1 * given2) = first * second
      /\ given1 * given2 < 0 <=> negative /\ first * second # 0
  BY <1>1, <1>4, ProductOfSigned, Zenon DEF negative
<1> QED BY <1>1, <1>2, <1>3, <1>5, <1>6, <1>7, <1>8

\* A type has no more numbers than its limbs.
LEMMA ModulusFacts ==
  ASSUME WellFormed
  PROVE  Modulus \in Nat \ {0} /\ Modulus <= Power(type.limbs)
<1>1. type \in Types /\ Modulus = RangeOf(type) /\ Modulus \in Nat \ {0}
  BY Basics
<1> PICK o \in Nat \ {0} : Power(type.limbs) = Modulus * o
  BY <1>1, TypeFacts
<1>2. Modulus * 1 <= Modulus * o /\ Modulus * 1 = Modulus
  BY <1>1, Monotone
<1> QED BY <1>1, <1>2

\* n is what the call has to return.
Correct(n) ==
  /\ Value(n) = Kept(given1 * given2) /\ (Checked => Kept(given1 * given2) = given1 * given2)
  /\ n.size = Size(Magnitude(n)) /\ Magnitude(n) < Modulus
  /\ n.sign => type.signed /\ (Magnitude(n) # 0 \/ SignStays)

\* A running call
Running == Inv /\ pc \in {"entered", "limbs", "rows"}

\* What a call leaves alone while it runs
LEMMA Unchanged ==
  ASSUME Inv, pc # "idle",
         call'.type = call.type, call'.fn = call.fn, call'.given = call.given,
         NEW n, Fits(n, type), num' = [num EXCEPT !["r"] = n]
  PROVE  /\ num' \in [Objects -> Numbers] /\ \A o \in Objects : Fits(num'[o], type')
         /\ Operands' /\ type' = type /\ given1' = given1 /\ given2' = given2
         /\ num'["r"] = n /\ num'["u"] = num["u"] /\ num'["v"] = num["v"]
<1> USE DEF Inv, WellFormed
<1>1. type' = type /\ given1' = given1 /\ given2' = given2 /\ first' = first /\ second' = second
  BY DEF type, given1, given2, first, second
<1>2. n \in Numbers
  BY DEF Fits
<1>3. num' \in [Objects -> Numbers]
  BY <1>2
<1>4. \A o \in Objects : num'[o] = IF o = "r" THEN n ELSE num[o]
  BY DEF Objects
<1>5. \A o \in Objects : Fits(num'[o], type')
  BY <1>1, <1>4
<1>6. num'["r"] = n /\ num'["u"] = num["u"] /\ num'["v"] = num["v"]
  BY <1>4 DEF Objects
<1>7. Operands'
  <2>1. Operands
    OBVIOUS
  <2> QED BY <1>1, <1>6, <2>1 DEF Operands
<1> QED BY <1>1, <1>3, <1>5, <1>6, <1>7

\* Returning the right number keeps the invariant.
LEMMA Finished ==
  ASSUME Running, NEW n, Fits(n, type), Correct(n), Finish(n)
  PROVE  Inv'
<1>1. pc # "idle" /\ Inv
  BY DEF Running
<1>2. pc' = "returned" /\ call' = call /\ num' = [num EXCEPT !["r"] = n] /\ loop' = NoLoop
  BY DEF Finish
<1>3. /\ num' \in [Objects -> Numbers] /\ \A o \in Objects : Fits(num'[o], type')
      /\ Operands' /\ type' = type /\ given1' = given1 /\ given2' = given2
      /\ num'["r"] = n /\ num'["u"] = num["u"] /\ num'["v"] = num["v"]
  BY <1>1, <1>2, Unchanged
<1>4. WellFormed'
  <2>1. WellFormed /\ type.limbs \in Nat /\ 0 \in 0 .. Base - 1
    BY <1>1, Basics, BaseAssumption DEF Inv
  <2>2. loop' \in [i : 0..type'.limbs, j : 0..type'.limbs, val : 0 .. Base - 1,
                   carry : 0 .. Base - 1, neg : BOOLEAN]
    BY <1>2, <1>3, <2>1 DEF NoLoop
  <2> QED BY <1>2, <1>3, <2>1, <2>2 DEF WellFormed
<1>5. OnEntry' /\ LimbsSoFar' /\ RowsSoFar'
  BY <1>2 DEF OnEntry, LimbsSoFar, RowsSoFar
<1>6. MultipliesExactly'
  <2>1. r' = n /\ Value(num["u"]) = given1 /\ Value(num["v"]) = given2
    <3>1. WellFormed /\ Operands
      BY <1>1 DEF Inv
    <3>2. /\ Holds(num["u"], given1) /\ Holds(num["v"], given2)
          /\ Fits(num["u"], type) /\ Fits(num["v"], type)
      BY <1>1, <3>1 DEF WellFormed, Operands, Objects
    <3> QED BY <1>3, <3>1, <3>2, HeldNumber, Basics DEF r
  <2>2. Modulus' = Modulus /\ Checked' = Checked /\ SignStays' = SignStays
    BY <1>2, <1>3 DEF Modulus, Checked, SignStays
  <2>3. Kept(given1 * given2)' = Kept(given1 * given2)
    BY <1>3, <2>2 DEF Kept
  <2> QED BY <1>2, <1>3, <2>1, <2>2, <2>3 DEF MultipliesExactly, Correct, given1, given2
<1> QED BY <1>3, <1>4, <1>5, <1>6 DEF Inv

\* So does throwing, for a product that the type does not hold.
LEMMA Threw ==
  ASSUME Running, NEW n, Fits(n, type), Throw(n),
         Checked, first * second >= Modulus \/ (~type.signed /\ negative)
  PROVE  Inv'
<1>1. pc # "idle" /\ Inv
  BY DEF Running
<1>2. pc' = "threw" /\ call' = call /\ num' = [num EXCEPT !["r"] = n] /\ loop' = NoLoop
  BY DEF Throw
<1>3. /\ num' \in [Objects -> Numbers] /\ \A o \in Objects : Fits(num'[o], type')
      /\ Operands' /\ type' = type /\ given1' = given1 /\ given2' = given2
  BY <1>1, <1>2, Unchanged
<1>4. WellFormed'
  <2>1. WellFormed /\ type.limbs \in Nat /\ 0 \in 0 .. Base - 1
    BY <1>1, Basics, BaseAssumption DEF Inv
  <2>2. loop' \in [i : 0..type'.limbs, j : 0..type'.limbs, val : 0 .. Base - 1,
                   carry : 0 .. Base - 1, neg : BOOLEAN]
    BY <1>2, <1>3, <2>1 DEF NoLoop
  <2> QED BY <1>2, <1>3, <2>1, <2>2 DEF WellFormed
<1>5. OnEntry' /\ LimbsSoFar' /\ RowsSoFar'
  BY <1>2 DEF OnEntry, LimbsSoFar, RowsSoFar
<1>6. MultipliesExactly'
  <2>1. Modulus' = Modulus /\ Checked' = Checked /\ first' = first /\ second' = second
    BY <1>2, <1>3 DEF Modulus, Checked, first, second
  <2> QED BY <1>2, <1>3, <2>1 DEF MultipliesExactly, negative, given1, given2
<1> QED BY <1>3, <1>4, <1>5, <1>6 DEF Inv

\* What the type keeps of a product whose low part is q
LEMMA KeptProduct ==
  ASSUME WellFormed, NEW q, q = (first * second) % Modulus
  PROVE  /\ q \in Nat /\ q < Modulus
         /\ type.signed => Kept(given1 * given2) = Signed(q, negative /\ q # 0)
         /\ ~type.signed /\ (~negative \/ q = 0) => Kept(given1 * given2) = q
         /\ ~type.signed /\ negative /\ q # 0 => Kept(given1 * given2) = Modulus - q
         /\ q = first * second /\ (~negative \/ type.signed \/ q = 0) =>
              Kept(given1 * given2) = given1 * given2
<1> DEFINE p == given1 * given2
           n == first * second
<1>1. /\ p \in Int /\ n \in Nat /\ Abs(p) = n /\ (p < 0 <=> negative /\ n # 0)
      /\ Modulus \in Nat \ {0} /\ negative \in BOOLEAN /\ type.signed \in BOOLEAN
  BY Basics
<1>2. Signed(n, p < 0) = p
  <2>1. Signed(Abs(p), p < 0) = p
    BY <1>1, Absolute
  <2> QED BY <1>1, <2>1, Zenon
<1>3. q = n % Modulus /\ Abs(p) % Modulus = q
  BY <1>1, Zenon DEF n
<1> HIDE DEF p, n
<1>4. q \in Nat /\ q < Modulus /\ (n = 0 => q = 0)
  <2>1. n \in Int
    BY <1>1
  <2>2. n % Modulus \in 0 .. Modulus - 1
    BY <1>1, <2>1, Division, Zenon
  <2>3. n % Modulus \in Nat /\ n % Modulus <= n
    BY <1>1, NaturalDivision, Zenon
  <2> QED BY <1>1, <1>3, <2>2, <2>3
<1>5. Modulus % Modulus = 0
  <2>1. Modulus \in Int /\ Modulus = Modulus * 1 + 0 /\ 0 \in 0 .. Modulus - 1
    BY <1>1
  <2> QED BY <1>1, <2>1, DivisionUnique
<1>6. /\ type.signed => Kept(p) = Signed(q, p < 0)
      /\ ~type.signed /\ p < 0 => Kept(p) = (Modulus - q) % Modulus
      /\ ~type.signed /\ ~(p < 0) => Kept(p) = q
  <2>1. Kept(p) = IF type.signed THEN Signed(Abs(p) % Modulus, p < 0)
                  ELSE IF p < 0 THEN (Modulus - (Abs(p) % Modulus)) % Modulus
                  ELSE Abs(p) % Modulus
    BY Zenon DEF Kept
  <2>2. Kept(p) = IF type.signed THEN Signed(q, p < 0)
                  ELSE IF p < 0 THEN (Modulus - q) % Modulus ELSE q
    BY <1>3, <2>1, Zenon
  <2> QED BY <2>2, Zenon
<1>7. Signed(q, p < 0) = Signed(q, negative /\ q # 0)
  <2>1. CASE q = 0
    <3>1. -q = q
      BY <1>4, <2>1
    <3>2. \A o : Signed(q, o) = q
      BY <3>1, Zenon DEF Signed
    <3> QED BY <3>2, Zenon
  <2>2. CASE q # 0 /\ negative
    <3>1. p < 0
      BY <1>1, <1>4, <2>2
    <3> QED BY <2>2, <3>1, Zenon DEF Signed
  <2>3. CASE q # 0 /\ ~negative
    <3>1. ~(p < 0)
      BY <1>1, <2>3, Zenon
    <3> QED BY <2>3, <3>1, Zenon DEF Signed
  <2> QED BY <1>1, <2>1, <2>2, <2>3
<1>8. q # 0 => (Modulus - q) % Modulus = Modulus - q
  <2>1. q # 0 => Modulus - q \in Nat /\ Modulus - q < Modulus
    BY <1>1, <1>4
  <2> QED BY <1>1, <2>1, NaturalDivision
<1>9. type.signed => Kept(p) = Signed(q, negative /\ q # 0)
  BY <1>6, <1>7
<1>10. ~type.signed /\ (~negative \/ q = 0) => Kept(p) = q
  <2>1. q = 0 => (Modulus - q) % Modulus = 0
    <3>1. Modulus - 0 = Modulus
      BY <1>1
    <3> QED BY <1>5, <3>1
  <2>2. ~negative => ~(p < 0)
    BY <1>1, Zenon
  <2> QED BY <1>6, <2>1, <2>2, Zenon
<1>11. ~type.signed /\ negative /\ q # 0 => Kept(p) = Modulus - q
  BY <1>1, <1>4, <1>6, <1>8
<1>12. q = n /\ (~negative \/ type.signed \/ q = 0) => Kept(p) = p
  <2>1. ASSUME q = n, type.signed PROVE Kept(p) = p
    BY <1>2, <1>6, <2>1
  <2>2. ASSUME q = n, ~type.signed, ~negative \/ q = 0 PROVE Kept(p) = p
    <3>1. ~(p < 0)
      BY <1>1, <2>2, Zenon
    <3>2. p = n
      BY <1>2, <3>1 DEF Signed
    <3> QED BY <1>10, <2>2, <3>2
  <2> QED BY <1>1, <2>1, <2>2
<1> QED BY <1>4, <1>9, <1>10, <1>11, <1>12 DEF p, n

\* Normalizing a number that has the low limbs of the product
LEMMA Normalized ==
  ASSUME WellFormed, NEW n, Fits(n, type), Magnitude(n) = (first * second) % Power(n.size),
         first * second < Power(n.size) \/ n.size = type.limbs
  PROVE  LET q == (first * second) % Modulus
         IN /\ Fits(normalized(n), type) /\ Magnitude(normalized(n)) = q
            /\ normalized(n).size = Size(q) /\ q \in Nat /\ q < Modulus
            /\ normalized(n).sign = (n.sign /\ (type.fixed => q # 0))
            /\ first * second < Power(n.size) /\ ~(n.size = type.limbs /\ Magnitude(n) >= Modulus)
                 => q = first * second
<1> DEFINE p == first * second
           mem == n.mem
           s == n.size
           m == Modulus
           q == (mem % m) % Power(s)
           k == Size(q)
<1>1. /\ type \in Types /\ m = RangeOf(type) /\ p \in Nat /\ m \in Nat \ {0}
      /\ type.fixed \in BOOLEAN /\ type.limbs \in Nat
  BY Basics
<1>2. /\ mem \in Nat /\ mem < Power(type.limbs) /\ s \in Nat \ {0} /\ s <= type.limbs
      /\ n.sign \in BOOLEAN /\ mem % Power(s) = p % Power(s)
  BY DEF Fits, Numbers, Magnitude
<1>3. p < Power(s) \/ s = type.limbs
  OBVIOUS
<1> HIDE DEF p, mem, s, m
<1>4. /\ mem % m \in Nat /\ mem % m < Power(type.limbs) /\ q = p % m /\ q \in Nat /\ q < m
      /\ k \in Nat \ {0} /\ k <= s /\ (mem % m) % Power(k) = q
      /\ p < Power(s) /\ ~(s = type.limbs /\ mem % Power(s) >= m) => q = p
  BY <1>1, <1>2, <1>3, CutOff
<1>5. normalized(n) = [mem |-> mem % m, size |-> k,
                       sign |-> n.sign /\ (type.fixed => (mem % m) % Power(k) # 0)]
  BY Zenon DEF normalized, mem, m, s
<1> DEFINE low == mem % m
           t == type
<1> HIDE DEF q, k, low
<1>6. normalized(n).mem = low /\ normalized(n).size = k
      /\ normalized(n).sign = (n.sign /\ (type.fixed => q # 0))
  BY <1>4, <1>5 DEF low
<1>7. Fits(normalized(n), type)
  <2>1. normalized(n) \in Numbers
    BY <1>2, <1>1, <1>4, <1>5 DEF Numbers, low
  <2> QED BY <1>1, <1>2, <1>4, <1>6, <2>1 DEF Fits, low
<1>8. Magnitude(normalized(n)) = q
  BY <1>4, <1>6 DEF Magnitude, low
<1>9. /\ q = (first * second) % Modulus
      /\ first * second < Power(n.size) /\ ~(n.size = type.limbs /\ Magnitude(n) >= Modulus)
           => q = first * second
  BY <1>4 DEF Magnitude, p, s, m, mem
<1>10. k = Size((first * second) % Modulus)
  BY <1>9 DEF k
<1> QED BY <1>4, <1>6, <1>7, <1>8, <1>9, <1>10 DEF m

\* The end of a call whose result has the low limbs of the product, and all of them if
\* the type is checked
LEMMA Delivered ==
  ASSUME Running, NEW n, Fits(n, type), NEW neg, neg = negative, Deliver(n, neg),
         Magnitude(n) = (first * second) % Power(n.size),
         first * second < Power(n.size) \/ (n.size = type.limbs /\ ~Checked)
  PROVE  Inv'
<1> DEFINE p == first * second
           q == p % Modulus
           kept == Kept(given1 * given2)
<1>1. WellFormed
  BY DEF Running, Inv
<1>2. /\ Modulus \in Nat \ {0} /\ p \in Nat /\ negative \in BOOLEAN
      /\ type.signed \in BOOLEAN /\ Checked \in BOOLEAN /\ type \in Types
      /\ type.limbs \in Nat /\ Modulus = RangeOf(type)
  BY <1>1, Basics
<1>3. CASE LosesBits(n)
  <2>1. Throw(n)
    BY <1>3 DEF Deliver
  <2>2. Checked /\ Magnitude(n) >= Modulus /\ p < Power(n.size)
    BY <1>3 DEF LosesBits
  <2>3. n.size \in Nat
    BY DEF Fits, Numbers
  <2>4. p % Power(n.size) = p
    BY <1>2, <2>2, <2>3, Parts
  <2> QED BY <2>1, <2>2, <2>4, Threw
<1>4. CASE ~LosesBits(n)
  <2> PICK c : c = normalized(n)
    OBVIOUS
  <2>1. Signing(c, neg)
    BY <1>4 DEF Deliver
  <2>2. /\ Fits(c, type) /\ Magnitude(c) = q /\ c.size = Size(q) /\ q \in Nat /\ q < Modulus
        /\ p < Power(n.size) /\ ~(n.size = type.limbs /\ Magnitude(n) >= Modulus) => q = p
    BY <1>1, Normalized
  <2>3. Checked => q = p
    BY <1>4, <2>2 DEF LosesBits
  <2>4. /\ type.signed => kept = Signed(q, negative /\ q # 0)
        /\ ~type.signed /\ (~negative \/ q = 0) => kept = q
        /\ ~type.signed /\ negative /\ q # 0 => kept = Modulus - q
        /\ q = p /\ (~negative \/ type.signed \/ q = 0) => kept = given1 * given2
    BY <1>1, KeptProduct
  <2> HIDE DEF p, q, kept
  <2>5. CASE type.signed \/ ~negative \/ q = 0
    <3> PICK e : e = [c EXCEPT !.sign = type.signed /\ neg /\ Magnitude(c) # 0]
      OBVIOUS
    <3>1. Finish(e)
      BY <2>1, <2>2, <2>5 DEF Signing
    <3>2. /\ e.mem = c.mem /\ e.size = c.size /\ e.sign = (type.signed /\ negative /\ q # 0)
          /\ Fits(e, type)
      BY <1>2, <2>2 DEF Fits, Numbers
    <3>3. Magnitude(e) = q /\ e.size = Size(q)
      BY <2>2, <3>2 DEF Magnitude
    <3>4. Value(e) = kept
      <4>1. Value(e) = Signed(q, type.signed /\ negative /\ q # 0)
        BY <3>2, <3>3, Zenon DEF Value
      <4>2. CASE type.signed
        BY <2>4, <4>1, <4>2
      <4>3. CASE ~type.signed
        BY <2>4, <2>5, <4>1, <4>3 DEF Signed
      <4> QED BY <1>2, <4>2, <4>3
    <3>5. Checked => kept = given1 * given2
      BY <2>3, <2>4, <2>5
    <3>6. Correct(e)
      BY <2>2, <3>2, <3>3, <3>4, <3>5 DEF Correct, kept
    <3> QED BY <3>1, <3>2, <3>6, Finished
  <2>6. CASE ~type.signed /\ negative /\ q # 0 /\ Checked
    <3>1. Throw(c)
      BY <2>1, <2>2, <2>6 DEF Signing
    <3> QED BY <2>2, <2>6, <3>1, Threw
  <2>7. CASE ~type.signed /\ negative /\ q # 0 /\ ~Checked
    <3> PICK e : e = Number(Modulus - q, 0)
      OBVIOUS
    <3>1. Finish(e)
      BY <2>1, <2>2, <2>7 DEF Signing
    <3> DEFINE v == Modulus - q
    <3>2. v \in Nat /\ v < Modulus /\ v # 0 /\ v \in Int /\ ~(v < 0)
      BY <1>2, <2>2, <2>7
    <3>3. Abs(v) = v
      BY <3>2 DEF Abs
    <3>4. v < Power(type.limbs) /\ 0 < Power(type.limbs)
      <4> PICK o \in Nat \ {0} : Power(type.limbs) = Modulus * o
        BY <1>2, TypeFacts
      <4>1. Modulus * 1 <= Modulus * o /\ Modulus * 1 = Modulus
        BY <1>2, Monotone
      <4>2. Power(type.limbs) \in Nat
        BY <1>2, PowerFacts
      <4> QED BY <1>2, <3>2, <4>1, <4>2
    <3>5. Fits(e, type) /\ Holds(e, v)
      BY <1>2, <3>2, <3>3, <3>4, NumberFacts
    <3>6. Value(e) = v /\ Magnitude(e) = v /\ e.size = Size(v) /\ e.sign = FALSE
      <4> HIDE DEF v
      <4>1. Value(e) = v /\ Magnitude(e) = Abs(v)
        BY <1>2, <3>2, <3>5, HeldNumber
      <4>2. e.size = Size(v) /\ e.sign = (v < 0)
        BY <3>3, <3>5 DEF Holds
      <4>3. (v < 0) = FALSE
        BY <3>2
      <4> QED BY <3>3, <4>1, <4>2, <4>3
    <3>7. Correct(e)
      BY <2>4, <2>7, <3>2, <3>6 DEF Correct, kept
    <3> QED BY <3>1, <3>5, <3>7, Finished
  <2> QED BY <1>2, <2>5, <2>6, <2>7
<1> QED BY <1>3, <1>4

----------------------------------------------------------------------------
(* By a limb.                                                              *)

\* A product of two limbs is exact.
LEMMA TwoLimbsKeep ==
  ASSUME Inv, TwoLimbs
  PROVE  Inv'
<1> DEFINE p == first * second
           w == (r.mem \div Power(2)) * Power(2) + p
           k == Size(p)
<1>1. WellFormed /\ Operands /\ Running /\ call.fn = "by_number"
  BY DEF Inv, Running, TwoLimbs, Entered
<1>2. /\ type \in Types /\ type.limbs \in Nat /\ type.limbs >= 3 /\ p \in Nat
      /\ negative \in BOOLEAN /\ Fits(a, type) /\ Fits(b, type) /\ Fits(r, type)
      /\ given1 \in Int /\ given2 \in Int /\ Modulus = RangeOf(type) /\ Modulus \in Nat \ {0}
      /\ first \in Nat /\ second \in Nat /\ type.signed \in BOOLEAN
  BY <1>1, Basics
<1>3. Holds(a, given1) /\ Holds(b, given2) /\ a.size = 1 /\ b.size = 1
  BY DEF Inv, OnEntry, TwoLimbs, Entered, OneLimb, a, b
<1>4. first = Abs(given1) /\ second = Abs(given2)
  BY DEF first, second, given1, given2
<1>5. /\ Magnitude(a) = first /\ first < Base /\ Magnitude(b) = second /\ second < Base
  BY <1>2, <1>3, <1>4, HeldNumber
<1>6. Differ = negative
  BY <1>3 DEF Holds, Differ, negative
<1>7. p < Power(2)
  <2>1. first \in 0 .. Base - 1 /\ second \in 0 .. Base - 1
    BY <1>2, <1>5, Square
  <2>2. first * second + 2 * (Base - 1) < Base * Base
    BY <2>1, LimbProducts
  <2> HIDE DEF p
  <2>3. p + 2 * (Base - 1) < Power(2) /\ Power(2) \in Nat
    BY <2>2, Square DEF p
  <2> QED BY <1>2, <2>3, Square
<1>8. Power(2) < Modulus
  BY <1>2, TypeFacts
<1> PICK e : e = [mem |-> w, size |-> k, sign |-> Differ /\ p # 0]
  OBVIOUS
<1>9. Finish(e)
  BY <1>5 DEF TwoLimbs
<1>10. r.mem \in Nat /\ r.mem < Power(type.limbs)
  BY <1>2 DEF Fits, Numbers
<1>11. w \in Nat /\ w % Power(2) = p /\ w < Power(type.limbs)
  <2> HIDE DEF p
  <2>1. 2 \in Nat /\ 2 <= type.limbs
    BY <1>2
  <2> QED BY <1>2, <1>7, <1>10, <2>1, ReplaceLow, SMTT(60)
<1> HIDE DEF p, w
<1>12. k \in Nat \ {0} /\ k <= 2 /\ p < Power(k)
  BY <1>2, <1>7, Sizes
<1>13. w % Power(k) = p
  <2>1. (w % Power(2)) % Power(k) = w % Power(k)
    BY <1>11, <1>12, LowOfLow
  <2>2. p % Power(k) = p
    BY <1>2, <1>12, Parts
  <2> QED BY <1>11, <2>1, <2>2
<1> HIDE DEF k
<1>14. /\ e.mem = w /\ e.size = k /\ e.sign = (negative /\ p # 0) /\ Fits(e, type)
  BY <1>2, <1>6, <1>11, <1>12 DEF Fits, Numbers
<1>15. Magnitude(e) = p /\ e.size = Size(p)
  BY <1>13, <1>14 DEF Magnitude, k
<1>16. p < Modulus /\ p % Modulus = p
  <2>1. p < Modulus
    BY <1>2, <1>7, <1>8, Square
  <2> QED BY <1>2, <2>1, NaturalDivision
<1> DEFINE kept == Kept(given1 * given2)
<1>17. /\ type.signed => kept = Signed(p, negative /\ p # 0)
       /\ ~type.signed /\ (~negative \/ p = 0) => kept = p
       /\ ~negative \/ type.signed \/ p = 0 => kept = given1 * given2
  BY <1>1, <1>16, KeptProduct DEF p
<1>18. ~type.signed => ~negative
  BY <1>1 DEF Operands, negative, Inv, Running
<1> HIDE DEF kept
<1>19. Value(e) = kept
  <2>1. Value(e) = Signed(p, negative /\ p # 0)
    BY <1>14, <1>15, Zenon DEF Value
  <2>2. CASE type.signed
    BY <1>17, <2>1, <2>2
  <2>3. CASE ~type.signed
    BY <1>17, <1>18, <2>1, <2>3 DEF Signed
  <2> QED BY <1>2, <2>2, <2>3
<1>20. Correct(e)
  BY <1>2, <1>14, <1>15, <1>16, <1>17, <1>18, <1>19 DEF Correct, kept
<1> QED BY <1>1, <1>9, <1>14, <1>20, Finished

\* The beginning of the product by a limb: of the operand x, that holds v
LEMMA EnterLimbsKeeps ==
  ASSUME Inv, pc = "entered", call.fn \in {"by_number", "by_limb", "by_signed_limb"},
         NEW x \in Objects, NEW val \in 0 .. Base - 1, NEW neg, NEW v \in Int,
         Holds(num[x], v), Abs(v) = Multiplicand, Multiplicand * val = first * second,
         neg \in BOOLEAN, val # 0 => neg = negative, EnterLimbs(x, val, neg)
  PROVE  Inv'
<1>1. WellFormed /\ Running /\ pc # "idle"
  BY DEF Inv, Running
<1>2. /\ type \in Types /\ type.limbs \in Nat /\ type.limbs >= 3 /\ Fits(r, type)
      /\ Modulus = RangeOf(type) /\ Modulus \in Nat \ {0}
      /\ negative \in BOOLEAN /\ type.signed \in BOOLEAN
  BY <1>1, Basics
<1>3. Fits(num[x], type)
  BY <1>1 DEF WellFormed
<1>4. CASE val = 0
  <2> DEFINE w == WithLimb(r.mem, 0, 0)
  <2> PICK e : e = [r EXCEPT !.mem = WithLimb(@, 0, 0), !.size = 1, !.sign = FALSE]
    OBVIOUS
  <2>1. Finish(e)
    BY <1>4 DEF EnterLimbs
  <2>2. r \in Numbers /\ r.mem \in Nat /\ r.mem < Power(type.limbs)
    BY <1>2 DEF Fits, Numbers
  <2>3. w \in Nat /\ w % Power(0 + 1) = (r.mem % Power(0)) + Power(0) * 0 /\ w < Power(type.limbs)
    <3>1. 0 \in 0 .. Base - 1 /\ 0 \in Nat /\ 0 < type.limbs
      BY <1>2, BaseAssumption
    <3>2. w \in Nat /\ w % Power(0 + 1) = (r.mem % Power(0)) + Power(0) * 0
      BY <2>2, <3>1, WriteLimb
    <3>3. w < Power(type.limbs)
      BY <1>2, <2>2, <3>1, WriteAbove
    <3> QED BY <3>2, <3>3
  <2>4. w % Power(1) = 0
    <3>1. r.mem % Power(0) \in 0 .. Power(0) - 1 /\ Power(0) = 1
      BY <2>2, Parts, PowerFacts
    <3> QED BY <2>3, <3>1
  <2> HIDE DEF w
  <2>5. e.mem = w /\ e.size = 1 /\ e.sign = FALSE /\ Fits(e, type)
    <3> DEFINE c == r
    <3>1. w \in Nat /\ 1 \in Nat \ {0} /\ c \in Numbers
      BY <2>2, <2>3
    <3>2. e = [c EXCEPT !.mem = w, !.size = 1, !.sign = FALSE]
      BY DEF w
    <3> HIDE DEF c
    <3>3. e \in Numbers
      BY <3>1, <3>2 DEF Numbers
    <3>4. e.mem = w /\ e.size = 1
      BY <3>1, <3>2 DEF Numbers
    <3>5. e.sign = FALSE
      BY <3>1, <3>2 DEF Numbers
    <3> QED BY <1>2, <2>3, <3>3, <3>4, <3>5 DEF Fits
  <2>6. Magnitude(e) = 0
    BY <2>4, <2>5 DEF Magnitude
  <2>7. Value(e) = 0
    BY <2>5, <2>6 DEF Value, Signed
  <2>8. first * second = 0
    <3>1. Multiplicand \in Nat
      BY Absolute
    <3> QED BY <1>4, <3>1
  <2>9. 0 % Modulus = 0
    BY <1>2, NaturalDivision
  <2>10. Kept(given1 * given2) = 0 /\ Kept(given1 * given2) = given1 * given2
    <3>1. /\ type.signed => Kept(given1 * given2) = Signed(0, negative /\ 0 # 0)
          /\ ~type.signed /\ (~negative \/ 0 = 0) => Kept(given1 * given2) = 0
          /\ 0 = first * second /\ (~negative \/ type.signed \/ 0 = 0) =>
               Kept(given1 * given2) = given1 * given2
      BY <1>1, <2>8, <2>9, KeptProduct
    <3>2. Signed(0, negative /\ 0 # 0) = 0
      BY DEF Signed
    <3> QED BY <1>2, <2>8, <3>1, <3>2
  <2>11. Correct(e)
    BY <1>2, <2>5, <2>6, <2>7, <2>10, SizeOfZero DEF Correct
  <2> QED BY <1>1, <2>1, <2>5, <2>11, Finished
<1>5. CASE val # 0
  <2> PICK e : e = [r EXCEPT !.size = num[x].size]
    OBVIOUS
  <2>1. /\ num' = [num EXCEPT !["r"] = e] /\ call' = [call EXCEPT !.a = x]
        /\ loop' = [NoLoop EXCEPT !.val = val, !.neg = neg] /\ pc' = "limbs"
    BY <1>5 DEF EnterLimbs, r
  <2>2. Fits(e, type)
    BY <1>2, <1>3 DEF Fits, Numbers
  <2>3. /\ call'.type = call.type /\ call'.fn = call.fn /\ call'.given = call.given /\ call'.a = x
        /\ call' \in [type : Types, fn : Functions, a : Objects, b : Objects, given : Int \X Int]
    BY <1>1, <2>1 DEF WellFormed
  <2>4. /\ num' \in [Objects -> Numbers] /\ \A o \in Objects : Fits(num'[o], type')
        /\ Operands' /\ type' = type /\ given1' = given1 /\ given2' = given2
        /\ num'["r"] = e
    BY <1>1, <2>1, <2>2, <2>3, Unchanged
  <2>5. /\ loop'.i = 0 /\ loop'.j = 0 /\ loop'.val = val /\ loop'.carry = 0 /\ loop'.neg = neg
    BY <2>1 DEF NoLoop
  <2>6. WellFormed'
    <3>1. 0 \in 0 .. type.limbs /\ 0 \in 0 .. Base - 1
      BY <1>2, BaseAssumption
    <3>2. loop' \in [i : 0..type'.limbs, j : 0..type'.limbs, val : 0 .. Base - 1,
                     carry : 0 .. Base - 1, neg : BOOLEAN]
      BY <2>1, <2>4, <3>1 DEF NoLoop
    <3> QED BY <2>1, <2>3, <2>4, <3>2 DEF WellFormed
  <2>7. OnEntry' /\ RowsSoFar' /\ MultipliesExactly'
    BY <2>1 DEF OnEntry, RowsSoFar, MultipliesExactly
  <2>8. LimbsSoFar'
    <3> PICK n : n = Multiplicand
      OBVIOUS
    <3>1. /\ Multiplicand' = n /\ first' = first /\ second' = second /\ negative' = negative
      <4>1. first' = first /\ second' = second
        BY <2>3 DEF first, second
      <4> QED BY <2>3, <2>4, <4>1 DEF Multiplicand, negative
    <3>2. n \in Nat /\ num[x].size = Size(n) /\ num[x].size \in Nat \ {0}
          /\ \A k \in Nat : k < num[x].size => Limb(num[x].mem, k) = Limb(n, k)
      <4>1. n = Abs(v) /\ n \in Nat
        BY Absolute
      <4> QED BY <1>2, <1>3, <4>1, HeldNumber DEF Holds
    <3>3. a'.size = num[x].size /\ a'.mem = num[x].mem /\ r'.size = num[x].size /\ r'.mem = r.mem
      <4>1. a' = num'[x] /\ r' = num'["r"]
        BY <2>3 DEF a, r
      <4>2. r = num["r"] /\ r \in Numbers
        BY <1>2 DEF r, Fits
      <4>3. e.size = num[x].size /\ e.mem = r.mem
        BY <4>2 DEF Numbers
      <4>4. CASE x = "r"
        BY <2>4, <4>1, <4>2, <4>3, <4>4
      <4>5. CASE x # "r"
        <5>1. num'[x] = num[x]
          BY <1>1, <2>1, <4>5 DEF WellFormed
        <5> QED BY <2>4, <4>1, <4>3, <5>1
      <4> QED BY <4>4, <4>5
    <3>4. (r.mem % Power(0)) + 0 * Power(0) = (n % Power(0)) * val
      <4>1. Power(0) = 1
        BY PowerFacts
      <4>2. r.mem \in Nat
        BY <1>2 DEF Fits, Numbers
      <4>3. r.mem % Power(0) \in 0 .. Power(0) - 1 /\ n % Power(0) \in 0 .. Power(0) - 1
        BY <3>2, <4>2, Parts
      <4>4. r.mem % Power(0) = 0 /\ n % Power(0) = 0 /\ 0 * Power(0) = 0 /\ 0 * val = 0
        BY <4>1, <4>3, BaseAssumption
      <4> QED BY <4>4
    <3>5. n * val = first * second /\ neg = negative
      BY <1>5
    <3>6. \A k \in 0 .. num[x].size - 1 : Limb(num[x].mem, k) = Limb(n, k)
      BY <3>2
    <3>7. /\ call'.fn \in {"by_number", "by_limb", "by_signed_limb"}
          /\ loop'.i <= r'.size /\ r'.size = a'.size /\ a'.size = Size(n)
          /\ n * loop'.val = first' * second' /\ loop'.neg = negative'
          /\ (r'.mem % Power(loop'.i)) + loop'.carry * Power(loop'.i)
               = (n % Power(loop'.i)) * loop'.val
          /\ \A k \in loop'.i .. a'.size - 1 : Limb(a'.mem, k) = Limb(n, k)
      <4>1. 0 <= num[x].size
        BY <3>2
      <4> QED BY <2>3, <2>5, <3>1, <3>2, <3>3, <3>4, <3>5, <3>6, <4>1
    <3> QED BY <3>1, <3>7 DEF LimbsSoFar
  <2> QED BY <2>4, <2>6, <2>7, <2>8 DEF Inv
<1> QED BY <1>4, <1>5

LEMMA ByLimbKeeps ==
  ASSUME Inv, ByLimb
  PROVE  Inv'
<1>1. WellFormed /\ Operands /\ pc = "entered" /\ call.fn = "by_limb"
  BY DEF Inv, ByLimb, Entered
<1>2. /\ Holds(a, given1) /\ second \in 0 .. Base - 1 /\ given2 >= 0
      /\ EnterLimbs(call.a, call.given[2], a.sign)
  BY <1>1 DEF Operands, OnEntry, Inv, ByLimb
<1>3. given1 \in Int /\ given2 \in Int /\ call.a \in Objects
  BY <1>1, Basics DEF WellFormed
<1>4. second = given2 /\ Abs(given1) = first /\ Multiplicand = first
  BY <1>1, <1>2, <1>3 DEF second, first, Abs, Multiplicand, given1, given2
<1>5. a.sign = (given1 < 0) /\ a.sign = negative /\ a.sign \in BOOLEAN
  BY <1>2, <1>3 DEF Holds, negative
<1> PICK neg : neg = a.sign
  OBVIOUS
<1> PICK val : val = second
  OBVIOUS
<1> PICK x : x = call.a
  OBVIOUS
<1> PICK v : v = given1
  OBVIOUS
<1>6. /\ x \in Objects /\ val \in 0 .. Base - 1 /\ v \in Int /\ Holds(num[x], v)
      /\ Abs(v) = Multiplicand /\ Multiplicand * val = first * second
      /\ neg \in BOOLEAN /\ neg = negative
      /\ call.fn \in {"by_number", "by_limb", "by_signed_limb"}
  BY <1>1, <1>2, <1>3, <1>4, <1>5 DEF a
<1>7. EnterLimbs(x, val, neg)
  BY <1>2, <1>4 DEF given2
<1> QED BY <1>1, <1>6, <1>7, EnterLimbsKeeps

LEMMA BySignedLimbKeeps ==
  ASSUME Inv, BySignedLimb
  PROVE  Inv'
<1>1. WellFormed /\ Operands /\ pc = "entered" /\ call.fn = "by_signed_limb"
  BY DEF Inv, BySignedLimb, Entered
<1>2. /\ Holds(a, given1) /\ second \in 0 .. Base - 1
      /\ EnterLimbs(call.a, Abs(call.given[2]), a.sign # (call.given[2] <= 0))
  BY <1>1 DEF Operands, OnEntry, Inv, BySignedLimb
<1>3. given1 \in Int /\ given2 \in Int /\ call.a \in Objects
  BY <1>1, Basics DEF WellFormed
<1>4. second = Abs(given2) /\ Abs(given1) = first /\ Multiplicand = first
  BY <1>1 DEF second, first, Multiplicand, given1, given2
<1> PICK neg : neg = (a.sign # (given2 <= 0))
  OBVIOUS
<1>5. neg \in BOOLEAN
  OBVIOUS
<1>6. second # 0 => neg = negative
  <2>1. second # 0 => given2 # 0
    BY <1>3, <1>4, Absolute
  <2>2. given2 # 0 => (given2 <= 0) = (given2 < 0)
    BY <1>3
  <2>3. a.sign = (given1 < 0)
    BY <1>2 DEF Holds
  <2> QED BY <2>1, <2>2, <2>3 DEF negative
<1> PICK val : val = second
  OBVIOUS
<1> PICK x : x = call.a
  OBVIOUS
<1> PICK v : v = given1
  OBVIOUS
<1>7. /\ x \in Objects /\ val \in 0 .. Base - 1 /\ v \in Int /\ Holds(num[x], v)
      /\ Abs(v) = Multiplicand /\ Multiplicand * val = first * second
      /\ val # 0 => neg = negative
      /\ call.fn \in {"by_number", "by_limb", "by_signed_limb"}
  BY <1>1, <1>2, <1>3, <1>4, <1>6 DEF a
<1>8. EnterLimbs(x, val, neg)
  BY <1>2, <1>4 DEF given2
<1> QED BY <1>1, <1>5, <1>7, <1>8, EnterLimbsKeeps

LEMMA NumberByLimbKeeps ==
  ASSUME Inv, NumberByLimb
  PROVE  Inv'
<1>1. WellFormed /\ Operands /\ pc = "entered" /\ call.fn = "by_number"
  BY DEF Inv, NumberByLimb, Entered
<1>2. Holds(a, given1) /\ Holds(b, given2)
  BY <1>1 DEF OnEntry, Inv
<1>3. /\ given1 \in Int /\ given2 \in Int /\ call.a \in Objects /\ call.b \in Objects
      /\ Fits(a, type) /\ Fits(b, type) /\ type \in Types /\ first \in Nat /\ second \in Nat
  BY <1>1, Basics DEF WellFormed
<1>4. first = Abs(given1) /\ second = Abs(given2)
  BY DEF first, second, given1, given2
<1>5. /\ Magnitude(a) = first /\ (a.size = 1 <=> first < Base) /\ a.size = Size(first)
      /\ Magnitude(b) = second /\ (b.size = 1 <=> second < Base) /\ b.size = Size(second)
  BY <1>2, <1>3, <1>4, HeldNumber DEF Holds
<1>6. Differ = negative
  BY <1>2 DEF Holds, Differ, negative
<1> PICK neg : neg = Differ
  OBVIOUS
<1>7. neg \in BOOLEAN /\ neg = negative
  BY <1>6 DEF Differ
<1>8. CASE OneLimb(call.a)
  <2>1. a.size = 1
    BY <1>8 DEF OneLimb, a
  <2>2. first \in 0 .. Base - 1 /\ Multiplicand = second
    BY <1>1, <1>3, <1>5, <2>1, BaseAssumption DEF Multiplicand
  <2> PICK val : val = first
    OBVIOUS
  <2> PICK x : x = call.b
    OBVIOUS
  <2> PICK v : v = given2
    OBVIOUS
  <2>3. second * first = first * second
    BY <1>3, Products
  <2>4. /\ x \in Objects /\ val \in 0 .. Base - 1 /\ v \in Int /\ Holds(num[x], v)
        /\ Abs(v) = Multiplicand /\ Multiplicand * val = first * second
        /\ call.fn \in {"by_number", "by_limb", "by_signed_limb"}
    BY <1>1, <1>2, <1>3, <1>4, <2>2, <2>3 DEF b
  <2>5. EnterLimbs(x, val, neg)
    BY <1>5, <1>8 DEF NumberByLimb
  <2> QED BY <1>1, <1>7, <2>4, <2>5, EnterLimbsKeeps
<1>9. CASE ~OneLimb(call.a)
  <2>1. a.size # 1 /\ b.size = 1
    BY <1>9 DEF OneLimb, a, b, NumberByLimb
  <2>2. second \in 0 .. Base - 1 /\ Multiplicand = first
    BY <1>1, <1>3, <1>5, <2>1, BaseAssumption DEF Multiplicand
  <2> PICK val : val = second
    OBVIOUS
  <2> PICK x : x = call.a
    OBVIOUS
  <2> PICK v : v = given1
    OBVIOUS
  <2>3. /\ x \in Objects /\ val \in 0 .. Base - 1 /\ v \in Int /\ Holds(num[x], v)
        /\ Abs(v) = Multiplicand /\ Multiplicand * val = first * second
        /\ call.fn \in {"by_number", "by_limb", "by_signed_limb"}
    BY <1>1, <1>2, <1>3, <1>4, <2>2 DEF a
  <2>4. EnterLimbs(x, val, neg)
    BY <1>5, <1>9 DEF NumberByLimb
  <2> QED BY <1>1, <1>7, <2>3, <2>4, EnterLimbsKeeps
<1> QED BY <1>8, <1>9

\* Each limb of the result is written after the operand's has been read, which may be
\* the same.
LEMMA LimbStepKeeps ==
  ASSUME Inv, LimbStep
  PROVE  Inv'
<1>1. WellFormed /\ Operands /\ LimbsSoFar /\ pc = "limbs" /\ pc # "idle"
  BY DEF Inv, LimbStep
<1>2. /\ type \in Types /\ type.limbs \in Nat /\ Fits(r, type) /\ Fits(a, type)
      /\ first \in Nat /\ second \in Nat
  BY <1>1, Basics
<1> PICK n : n = Multiplicand
  OBVIOUS
<1> PICK i : i = loop.i
  OBVIOUS
<1> PICK val : val = loop.val
  OBVIOUS
<1> PICK carry : carry = loop.carry
  OBVIOUS
<1> PICK rr : rr = r
  OBVIOUS
<1> PICK aa : aa = a
  OBVIOUS
<1>3. /\ call.fn \in {"by_number", "by_limb", "by_signed_limb"}
      /\ rr.size = aa.size /\ aa.size = Size(n)
      /\ n * val = first * second /\ loop.neg = negative
      /\ (rr.mem % Power(i)) + carry * Power(i) = (n % Power(i)) * val
      /\ \A k \in i .. aa.size - 1 : Limb(aa.mem, k) = Limb(n, k)
  BY <1>1 DEF LimbsSoFar
<1>4. n \in Nat
  BY <1>2 DEF Multiplicand
<1>5. i \in Nat /\ i < rr.size /\ val \in 0 .. Base - 1 /\ carry \in 0 .. Base - 1
  BY <1>1 DEF WellFormed, LimbStep
<1>6. /\ rr.mem \in Nat /\ rr.mem < Power(type.limbs) /\ rr.size \in Nat /\ rr.size <= type.limbs
      /\ rr \in Numbers
  BY <1>2 DEF Fits, Numbers
<1>7. Limb(aa.mem, i) = Limb(n, i)
  BY <1>3, <1>5, <1>6
<1> DEFINE c == carry + Limb(n, i) * val
           o == c % Base
           u == c \div Base
           w == WithLimb(rr.mem, i, o)
<1>8. /\ o \in 0 .. Base - 1 /\ u \in 0 .. Base - 1
      /\ (w % Power(i + 1)) + u * Power(i + 1) = (n % Power(i + 1)) * val
  BY <1>3, <1>4, <1>5, <1>6, LimbProduct, SMTT(60)
<1>9. /\ num' = [num EXCEPT !["r"].mem = WithLimb(@, i, o)]
      /\ loop' = [loop EXCEPT !.i = @ + 1, !.carry = u]
      /\ call' = call /\ pc' = "limbs"
  BY <1>7 DEF LimbStep
<1> HIDE DEF c, o, u
<1>10. w \in Nat /\ w < Power(type.limbs)
  <2> HIDE DEF w
  <2>1. w \in Nat
    BY <1>5, <1>6, <1>8, WriteLimb DEF w
  <2>2. i < type.limbs
    BY <1>2, <1>5, <1>6
  <2>3. w < Power(type.limbs)
    BY <1>2, <1>5, <1>6, <1>8, <2>2, WriteAbove DEF w
  <2> QED BY <2>1, <2>3
<1> PICK e : e = [rr EXCEPT !.mem = w]
  OBVIOUS
<1>11. num' = [num EXCEPT !["r"] = e]
  BY <1>1, <1>6, <1>9 DEF r
<1> HIDE DEF w
<1>12. e.mem = w /\ e.size = rr.size /\ Fits(e, type)
  BY <1>2, <1>6, <1>10 DEF Numbers, Fits
<1>13. /\ num' \in [Objects -> Numbers] /\ \A ob \in Objects : Fits(num'[ob], type')
       /\ Operands' /\ type' = type /\ given1' = given1 /\ given2' = given2
       /\ num'["r"] = e
  BY <1>1, <1>9, <1>11, <1>12, Unchanged
<1>14. /\ loop'.i = i + 1 /\ loop'.j = loop.j /\ loop'.val = val /\ loop'.carry = u
       /\ loop'.neg = loop.neg
       /\ loop' \in [i : 0..type'.limbs, j : 0..type'.limbs, val : 0 .. Base - 1,
                     carry : 0 .. Base - 1, neg : BOOLEAN]
  <2>1. loop \in [i : 0..type.limbs, j : 0..type.limbs, val : 0 .. Base - 1,
                  carry : 0 .. Base - 1, neg : BOOLEAN]
    BY <1>1 DEF WellFormed
  <2>2. i + 1 \in 0 .. type.limbs
    BY <1>2, <1>5, <1>6
  <2> QED BY <1>8, <1>9, <1>13, <2>1, <2>2
<1>15. WellFormed'
  BY <1>1, <1>9, <1>13, <1>14 DEF WellFormed
<1>16. OnEntry' /\ RowsSoFar' /\ MultipliesExactly'
  BY <1>9 DEF OnEntry, RowsSoFar, MultipliesExactly
<1>17. LimbsSoFar'
  <2>1. /\ Multiplicand' = n /\ first' = first /\ second' = second /\ negative' = negative
    <3>1. first' = first /\ second' = second
      BY <1>9 DEF first, second
    <3> QED BY <1>9, <1>13, <3>1 DEF Multiplicand, negative
  <2>2. r'.size = rr.size /\ r'.mem = w
    BY <1>12, <1>13 DEF r
  <2>3. a'.size = aa.size /\ \A k \in i + 1 .. aa.size - 1 : Limb(a'.mem, k) = Limb(n, k)
    <3>1. a' = num'[call.a] /\ aa = num[call.a] /\ call.a \in Objects
      BY <1>1, <1>9 DEF a, WellFormed
    <3>2. CASE call.a = "r"
      <4>1. a' = e /\ aa = rr
        BY <1>13, <3>1, <3>2 DEF r
      <4>2. ASSUME NEW k \in i + 1 .. aa.size - 1 PROVE Limb(w, k) = Limb(n, k)
        <5>1. k \in Nat /\ k # i /\ k \in i .. aa.size - 1
          BY <1>3, <1>5, <1>6
        <5>2. Limb(w, k) = Limb(rr.mem, k)
          BY <1>5, <1>6, <1>8, <5>1, WrittenLimbs DEF w
        <5> QED BY <1>3, <4>1, <5>1, <5>2
      <4> QED BY <1>12, <4>1, <4>2
    <3>3. CASE call.a # "r"
      <4>1. a' = aa
        BY <1>1, <1>11, <3>1, <3>3 DEF WellFormed
      <4>2. \A k \in i + 1 .. aa.size - 1 : k \in i .. aa.size - 1
        BY <1>3, <1>5, <1>6
      <4> QED BY <1>3, <4>1, <4>2
    <3> QED BY <3>2, <3>3
  <2>4. i + 1 <= rr.size
    BY <1>5, <1>6
  <2>5. /\ call'.fn \in {"by_number", "by_limb", "by_signed_limb"}
        /\ loop'.i <= r'.size /\ r'.size = a'.size /\ a'.size = Size(n)
        /\ n * loop'.val = first' * second' /\ loop'.neg = negative'
        /\ (r'.mem % Power(loop'.i)) + loop'.carry * Power(loop'.i)
             = (n % Power(loop'.i)) * loop'.val
        /\ \A k \in loop'.i .. a'.size - 1 : Limb(a'.mem, k) = Limb(n, k)
    BY <1>3, <1>8, <1>9, <1>14, <2>1, <2>2, <2>3, <2>4
  <2> QED BY <2>1, <2>5 DEF LimbsSoFar
<1> QED BY <1>13, <1>15, <1>16, <1>17 DEF Inv

\* The last carry makes the result longer, or shows that the product does not fit.
LEMMA LimbsDoneKeeps ==
  ASSUME Inv, LimbsDone
  PROVE  Inv'
<1>1. WellFormed /\ LimbsSoFar /\ pc = "limbs" /\ Running
  BY DEF Inv, LimbsDone, Running
<1>2. /\ type \in Types /\ type.limbs \in Nat /\ Fits(r, type) /\ first * second \in Nat
      /\ first \in Nat /\ second \in Nat /\ Modulus = RangeOf(type) /\ Modulus \in Nat \ {0}
      /\ Checked \in BOOLEAN
  BY <1>1, Basics
<1> PICK n : n = Multiplicand
  OBVIOUS
<1> PICK val : val = loop.val
  OBVIOUS
<1> PICK carry : carry = loop.carry
  OBVIOUS
<1> PICK rr : rr = r
  OBVIOUS
<1> PICK neg : neg = loop.neg
  OBVIOUS
<1> DEFINE p == first * second
           s == rr.size
           d == Power(s)
           low == rr.mem % d
<1>3. /\ s = Size(n) /\ n * val = p /\ neg = negative
      /\ low + carry * d = (n % d) * val
  BY <1>1 DEF LimbsSoFar, LimbsDone
<1>4. n \in Nat
  BY <1>2 DEF Multiplicand
<1>5. val \in 0 .. Base - 1 /\ carry \in 0 .. Base - 1 /\ carry \in Nat
  BY <1>1, BaseAssumption DEF WellFormed
<1>6. /\ rr.mem \in Nat /\ rr.mem < Power(type.limbs) /\ s \in Nat \ {0} /\ s <= type.limbs
      /\ rr \in Numbers
  BY <1>2 DEF Fits, Numbers
<1>7. d \in Nat \ {0} /\ low \in Nat /\ low \in 0 .. d - 1
  BY <1>6, PowerFacts, Parts
<1>8. low + carry * d = p
  <2>1. n % d = n
    BY <1>3, <1>4, <1>6, LowBySize
  <2> QED BY <1>3, <2>1
<1>9. p % d = low /\ p \div d = carry
  <2> HIDE DEF p, d, low
  <2>1. p = d * carry + low /\ p \in Int /\ carry \in Int
    BY <1>2, <1>5, <1>7, <1>8, Products DEF p
  <2> QED BY <1>7, <2>1, DivisionUnique
<1>10. carry = 0 => p < d
  <2> HIDE DEF p, d, low
  <2> QED BY <1>7, <1>8
<1>11. Magnitude(rr) = low
  BY DEF Magnitude
<1>12. CASE Checked /\ carry # 0 /\ s = type.limbs
  <2>1. Throw(rr)
    BY <1>12 DEF LimbsDone
  <2>2. p >= Modulus
    <3> PICK f \in Nat \ {0} : Power(type.limbs) = Modulus * f
      BY <1>2, TypeFacts
    <3>1. Modulus * 1 <= Modulus * f /\ Modulus * 1 = Modulus
      BY <1>2, Monotone
    <3>2. 1 * d <= carry * d /\ 1 * d = d
      BY <1>5, <1>7, <1>12, Monotone
    <3> DEFINE cd == carry * d
    <3>3. cd \in Nat
      BY <1>5, <1>7, Products
    <3>4. d = Power(type.limbs)
      BY <1>12
    <3> HIDE DEF p, d, low, cd
    <3>5. d <= cd /\ low + cd = p
      BY <1>8, <3>2 DEF cd
    <3>6. d <= p
      BY <1>7, <3>3, <3>5
    <3>7. Modulus <= d
      BY <3>1, <3>4
    <3> QED BY <1>2, <1>7, <3>6, <3>7 DEF p
  <2> QED BY <1>1, <1>2, <1>12, <2>1, <2>2, Threw
<1>13. CASE ~(Checked /\ carry # 0 /\ s = type.limbs)
  <2> PICK e : e = Carried(rr)
    OBVIOUS
  <2>1. Deliver(e, neg)
    BY <1>13 DEF LimbsDone
  <2>2. CASE carry = 0 \/ s = type.limbs
    <3>1. e = rr
      BY <2>2 DEF Carried
    <3>2. p < d \/ (s = type.limbs /\ ~Checked)
      BY <1>10, <1>13, <2>2
    <3> QED BY <1>1, <1>2, <1>3, <1>9, <1>11, <2>1, <3>1, <3>2, Delivered
  <2>3. CASE ~(carry = 0 \/ s = type.limbs)
    <3> DEFINE w == WithLimb(rr.mem, s, carry)
    <3>1. e = [rr EXCEPT !.mem = w, !.size = @ + 1]
      BY <2>3 DEF Carried
    <3>2. w \in Nat /\ w % Power(s + 1) = low + d * carry
      <4> HIDE DEF s
      <4>1. s \in Nat /\ rr.mem \in Nat /\ carry \in 0 .. Base - 1
        BY <1>5, <1>6
      <4> QED BY <4>1, WriteLimb, Zenon
    <3>3. s < type.limbs
      BY <1>2, <1>6, <2>3
    <3>4. w < Power(type.limbs)
      BY <1>2, <1>5, <1>6, <3>3, WriteAbove
    <3> HIDE DEF w
    <3>5. e.mem = w /\ e.size = s + 1 /\ Fits(e, type)
      <4>1. w \in Nat /\ rr.size + 1 \in Nat \ {0}
        BY <1>6, <3>2
      <4>2. e.mem = w /\ e.size = rr.size + 1 /\ e \in Numbers
        BY <1>6, <3>1, <4>1 DEF Numbers
      <4> QED BY <1>2, <1>6, <3>3, <3>4, <4>2 DEF Fits
    <3>6. low + d * carry = p
      <4>1. d * carry = carry * d
        BY <1>5, <1>7, Products
      <4> QED BY <1>8, <4>1
    <3>7. Magnitude(e) = p
      BY <3>2, <3>5, <3>6 DEF Magnitude
    <3>8. p < Power(s + 1) /\ p % Power(s + 1) = p
      <4>1. s + 1 \in Nat
        BY <1>6
      <4>2. w % Power(s + 1) \in 0 .. Power(s + 1) - 1
        BY <3>2, <4>1, Parts
      <4>3. p < Power(s + 1)
        BY <1>2, <3>2, <3>6, <4>1, <4>2, PowerFacts
      <4> QED BY <1>2, <4>1, <4>3, Parts
    <3> QED BY <1>1, <1>3, <2>1, <3>5, <3>7, <3>8, Delivered
  <2> QED BY <2>2, <2>3
<1> QED BY <1>12, <1>13

----------------------------------------------------------------------------
(* By rows.                                                                *)

\* An operand that is the result is copied before the result is written.
LEMMA CopyOperandKeeps ==
  ASSUME Inv, CopyOperand
  PROVE  Inv'
<1>1. WellFormed /\ Operands /\ OnEntry /\ pc = "entered" /\ call.fn = "by_number"
  BY DEF Inv, CopyOperand, Entered
<1>2. pc' = "entered" /\ loop' = loop
  BY <1>1 DEF CopyOperand
<1>3. ASSUME NEW y \in {"a_copy", "b_copy"}, num' = [num EXCEPT ![y] = r],
             call'.type = call.type, call'.fn = call.fn, call'.given = call.given,
             call' \in [type : Types, fn : Functions, a : Objects, b : Objects,
                        given : Int \X Int],
             Holds(a, given1)' /\ Holds(b, given2)',
             call'.a \in {"r", "u", "a_copy"}, call'.b \in {"r", "v", "b_copy"}
      PROVE  Inv'
  <2>1. type' = type /\ given1' = given1 /\ given2' = given2 /\ first' = first /\ second' = second
    BY <1>3 DEF type, given1, given2, first, second
  <2>2. r \in Numbers /\ Fits(r, type)
    BY <1>1, Basics DEF Fits
  <2>3. num' \in [Objects -> Numbers]
    BY <1>1, <1>3, <2>2 DEF WellFormed
  <2>4. \A o \in Objects : num'[o] = IF o = y THEN r ELSE num[o]
    BY <1>1, <1>3 DEF WellFormed, Objects
  <2>5. \A o \in Objects : Fits(num'[o], type')
    BY <1>1, <2>1, <2>2, <2>4 DEF WellFormed
  <2>6. num'["u"] = num["u"] /\ num'["v"] = num["v"]
    BY <2>4, <1>3 DEF Objects
  <2>7. WellFormed'
    BY <1>1, <1>2, <1>3, <2>1, <2>3, <2>5 DEF WellFormed
  <2>8. Operands'
    BY <1>1, <1>2, <1>3, <2>1, <2>6 DEF Operands
  <2>9. LimbsSoFar' /\ RowsSoFar' /\ MultipliesExactly'
    BY <1>2 DEF LimbsSoFar, RowsSoFar, MultipliesExactly
  <2>10. OnEntry'
    BY <1>3 DEF OnEntry
  <2> QED BY <2>7, <2>8, <2>9, <2>10 DEF Inv
<1>4. Holds(a, given1) /\ Holds(b, given2)
  BY <1>1 DEF OnEntry
<1>5. call.a \in {"r", "u", "a_copy"} /\ call.b \in {"r", "v", "b_copy"}
  BY <1>1 DEF OnEntry
<1>6. CASE call.a = "r"
  <2>1. num' = [num EXCEPT !["a_copy"] = r] /\ call' = [call EXCEPT !.a = "a_copy"]
    BY <1>6 DEF CopyOperand, Aliased
  <2>2. /\ call'.type = call.type /\ call'.fn = call.fn /\ call'.given = call.given
        /\ call'.a = "a_copy" /\ call'.b = call.b
        /\ call' \in [type : Types, fn : Functions, a : Objects, b : Objects, given : Int \X Int]
    BY <1>1, <2>1 DEF WellFormed, Objects
  <2>3. a' = a
    <3>1. num'["a_copy"] = r
      BY <1>1, <2>1 DEF WellFormed, Objects
    <3> QED BY <1>6, <2>2, <3>1 DEF a, r
  <2>4. b' = b
    <3>1. num'[call.b] = num[call.b]
      BY <1>1, <1>5, <2>1 DEF WellFormed
    <3> QED BY <2>2, <3>1 DEF b
  <2>5. Holds(a, given1)' /\ Holds(b, given2)'
    <3>1. given1' = given1 /\ given2' = given2
      BY <2>2 DEF given1, given2
    <3> QED BY <1>4, <2>3, <2>4, <3>1
  <2> QED BY <1>3, <1>5, <2>1, <2>2, <2>5
<1>7. CASE call.a # "r"
  <2>1. /\ num' = [num EXCEPT !["b_copy"] = r] /\ call' = [call EXCEPT !.b = "b_copy"]
        /\ call.b = "r"
    BY <1>7 DEF CopyOperand, Aliased
  <2>2. /\ call'.type = call.type /\ call'.fn = call.fn /\ call'.given = call.given
        /\ call'.b = "b_copy" /\ call'.a = call.a
        /\ call' \in [type : Types, fn : Functions, a : Objects, b : Objects, given : Int \X Int]
    BY <1>1, <2>1 DEF WellFormed, Objects
  <2>3. b' = b
    <3>1. num'["b_copy"] = r
      BY <1>1, <2>1 DEF WellFormed, Objects
    <3> QED BY <2>1, <2>2, <3>1 DEF b, r
  <2>4. a' = a
    <3>1. num'[call.a] = num[call.a]
      BY <1>1, <1>5, <2>1 DEF WellFormed
    <3> QED BY <2>2, <3>1 DEF a
  <2>5. Holds(a, given1)' /\ Holds(b, given2)'
    <3>1. given1' = given1 /\ given2' = given2
      BY <2>2 DEF given1, given2
    <3> QED BY <1>4, <2>3, <2>4, <3>1
  <2> QED BY <1>3, <1>5, <2>1, <2>2, <2>5
<1> QED BY <1>6, <1>7

\* A checked product that is longer than the type by two limbs or more does not fit.
LEMMA TooLong ==
  ASSUME NEW t \in Types, NEW n \in Nat, NEW m \in Nat, NEW k \in Nat \ {0}, NEW l \in Nat \ {0},
         Power(k) <= n, Power(l) <= m, t.limbs <= k + l
  PROVE  n * m >= RangeOf(t)
<1> DEFINE pk == Power(k)
           pl == Power(l)
           p == Power(t.limbs)
           range == RangeOf(t)
<1>1. /\ pk \in Nat /\ pl \in Nat /\ Power(k + l) = pk * pl /\ p \in Nat /\ p <= Power(k + l)
      /\ t.limbs \in Nat
  <2>1. t.limbs \in Nat /\ k + l \in Nat
    BY TypeFacts
  <2> QED BY <2>1, PowerFacts, PowerOfSum, PowersGrow
<1>2. pk * pl <= n * pl /\ n * pl <= n * m
  BY <1>1, Monotone
<1>3. range <= p /\ range \in Nat
  <2> PICK f \in Nat \ {0} : Power(t.limbs) = RangeOf(t) * f
    BY TypeFacts
  <2>1. RangeOf(t) \in Nat
    BY TypeFacts
  <2>2. RangeOf(t) * 1 <= RangeOf(t) * f /\ RangeOf(t) * 1 = RangeOf(t)
    BY <2>1, Monotone
  <2> QED BY <2>1, <2>2
<1> DEFINE kl == pk * pl
           nl == n * pl
           nm == n * m
<1>4. kl \in Nat /\ nl \in Nat /\ nm \in Nat
  BY <1>1, Products
<1>5. kl <= nl /\ nl <= nm /\ p <= kl
  BY <1>1, <1>2
<1> HIDE DEF kl, nl, nm, pk, pl, p, range
<1>6. nm >= range
  BY <1>1, <1>3, <1>4, <1>5
<1> QED BY <1>6 DEF nm, range

\* The result is cleared before the first row.
LEMMA BeginRowsKeeps ==
  ASSUME Inv, BeginRows
  PROVE  Inv'
<1>1. WellFormed /\ OnEntry /\ pc = "entered" /\ pc # "idle" /\ call.fn = "by_number" /\ Running
  BY DEF Inv, Running, BeginRows, Entered
<1>2. /\ type \in Types /\ type.limbs \in Nat /\ type.limbs >= 3
      /\ Fits(a, type) /\ Fits(b, type) /\ Fits(r, type) /\ Modulus = RangeOf(type)
      /\ given1 \in Int /\ given2 \in Int /\ first \in Nat /\ second \in Nat /\ Checked \in BOOLEAN
  BY <1>1, Basics
<1>3. Holds(a, given1) /\ Holds(b, given2)
  BY <1>1 DEF OnEntry
<1>4. a.size # 1 /\ b.size # 1 /\ call.a # "r" /\ call.b # "r"
  BY DEF BeginRows, OneLimb, a, b, Aliased
<1>5. first = Abs(given1) /\ second = Abs(given2)
  BY DEF first, second, given1, given2
<1> PICK sa : sa = a.size
  OBVIOUS
<1> PICK sb : sb = b.size
  OBVIOUS
<1>6. /\ sa \in Nat \ {0} /\ sa - 1 \in Nat \ {0} /\ Power(sa - 1) <= first
      /\ sb \in Nat \ {0} /\ sb - 1 \in Nat \ {0} /\ Power(sb - 1) <= second
      /\ sa <= type.limbs /\ sb <= type.limbs
  BY <1>2, <1>3, <1>4, <1>5, HeldNumber DEF Fits
<1> PICK size : size = Smaller(sa + sb, type.limbs)
  OBVIOUS
<1>7. size \in Nat \ {0} /\ size <= type.limbs /\ (size = sa + sb \/ size = type.limbs)
  BY <1>2, <1>6 DEF Smaller
<1> PICK rr : rr = r
  OBVIOUS
<1>8. rr \in Numbers /\ rr.mem \in Nat /\ rr.mem < Power(type.limbs) /\ rr.sign \in BOOLEAN
  BY <1>2 DEF Fits, Numbers
<1>9. CASE Checked /\ size < sa + sb - 1
  <2> PICK e : e = [rr EXCEPT !.size = size]
    OBVIOUS
  <2>1. Throw(e)
    BY <1>9 DEF BeginRows
  <2>2. Fits(e, type)
    BY <1>2, <1>7, <1>8 DEF Fits, Numbers
  <2>3. type.limbs <= (sa - 1) + (sb - 1)
    BY <1>2, <1>6, <1>7, <1>9
  <2>4. first * second >= Modulus
    BY <1>2, <1>6, <2>3, TooLong
  <2> QED BY <1>1, <1>9, <2>1, <2>2, <2>4, Threw
<1>10. CASE ~(Checked /\ size < sa + sb - 1)
  <2> DEFINE w == (rr.mem \div Power(size)) * Power(size)
  <2> PICK e : e = [mem |-> w, size |-> size, sign |-> rr.sign]
    OBVIOUS
  <2>1. /\ num' = [num EXCEPT !["r"] = e] /\ loop' = [NoLoop EXCEPT !.neg = Differ]
        /\ pc' = "rows" /\ call' = call
    BY <1>10 DEF BeginRows
  <2>2. w \in Nat /\ w % Power(size) = 0 /\ w < Power(type.limbs)
    <3>1. /\ w \in Nat /\ w % Power(size) = 0
          /\ \A s \in Nat : size <= s /\ rr.mem < Power(s) => w < Power(s)
      BY <1>7, <1>8, ClearLow, ZenonT(60)
    <3> QED BY <1>2, <1>7, <1>8, <3>1
  <2> HIDE DEF w
  <2>3. e.mem = w /\ e.size = size /\ Fits(e, type)
    <3>1. e \in Numbers
      BY <1>7, <1>8, <2>2 DEF Numbers
    <3>2. e.mem = w /\ e.size = size
      OBVIOUS
    <3> QED BY <1>7, <2>2, <3>1, <3>2 DEF Fits
  <2>4. /\ num' \in [Objects -> Numbers] /\ \A o \in Objects : Fits(num'[o], type')
        /\ Operands' /\ type' = type /\ given1' = given1 /\ given2' = given2
        /\ num'["r"] = e
    BY <1>1, <2>1, <2>3, Unchanged DEF Inv
  <2>5. loop'.i = 0 /\ loop'.j = 0 /\ loop'.carry = 0 /\ loop'.neg = Differ
    BY <2>1 DEF NoLoop
  <2>6. WellFormed'
    <3>1. 0 \in 0 .. type.limbs /\ 0 \in 0 .. Base - 1 /\ Differ \in BOOLEAN
      BY <1>2, BaseAssumption DEF Differ
    <3>2. loop' \in [i : 0..type'.limbs, j : 0..type'.limbs, val : 0 .. Base - 1,
                     carry : 0 .. Base - 1, neg : BOOLEAN]
      BY <2>1, <2>4, <3>1 DEF NoLoop
    <3> QED BY <1>1, <2>1, <2>4, <3>2 DEF WellFormed
  <2>7. OnEntry' /\ LimbsSoFar' /\ MultipliesExactly'
    BY <2>1 DEF OnEntry, LimbsSoFar, MultipliesExactly
  <2>8. RowsSoFar'
    <3>1. a' = a /\ b' = b /\ r' = e
      <4>1. call.a \in Objects /\ call.b \in Objects
        BY <1>1 DEF WellFormed
      <4>2. num'[call.a] = num[call.a] /\ num'[call.b] = num[call.b]
        BY <1>1, <1>4, <2>1, <4>1 DEF WellFormed
      <4> QED BY <2>1, <2>4, <4>2 DEF a, b, r
    <3>2. first' = first /\ second' = second /\ negative' = negative /\ Checked' = Checked
      BY <2>1, <2>4 DEF first, second, negative, Checked
    <3>3. Magnitude(e) = 0
      BY <2>2, <2>3 DEF Magnitude
    <3>4. Excess(first, second, 0, 0, 0, 0) = 0
      <4>1. Excess(first, second, 0, 0, 0, 0) = (first % Power(0)) * second - 0
        BY <1>2, RowStartExcess
      <4>2. first % Power(0) \in 0 .. Power(0) - 1 /\ Power(0) = 1
        BY <1>2, Parts, PowerFacts
      <4>3. first % Power(0) = 0
        BY <4>2
      <4> QED BY <1>2, <4>1, <4>3
    <3>5. 0 % Power(size) = 0 /\ 0 < Power(0 + sb)
      <4>1. 0 \in Nat /\ size \in Nat /\ 0 + sb \in Nat
        BY <1>6, <1>7
      <4>2. 0 < Power(size) /\ 0 < Power(0 + sb)
        BY <4>1, PowerFacts
      <4> QED BY <4>1, <4>2, Parts
    <3>6. Differ = negative
      BY <1>3 DEF Holds, Differ, negative
    <3>7. Checked => sa + sb - 1 <= size
      BY <1>6, <1>7, <1>10
    <3>8. 0 <= sa /\ 0 # sa /\ 0 <= Smaller(size - 0, sb)
      BY <1>6, <1>7 DEF Smaller
    <3>9. inner_limit' = Smaller(size - 0, sb)
      BY <2>3, <2>5, <3>1 DEF inner_limit
    <3>10. /\ call'.fn = "by_number" /\ call'.a # "r" /\ call'.b # "r"
           /\ Holds(a', given1') /\ Holds(b', given2') /\ a'.size # 1 /\ b'.size # 1
           /\ r'.size = Smaller(a'.size + b'.size, type'.limbs) /\ loop'.neg = negative'
           /\ Checked' => a'.size + b'.size - 1 <= r'.size
      BY <1>1, <1>3, <1>4, <2>1, <2>3, <2>4, <2>5, <3>1, <3>2, <3>6, <3>7
    <3>11. /\ loop'.i <= a'.size /\ loop'.i # a'.size /\ loop'.j <= inner_limit'
           /\ Magnitude(r') < Power(loop'.i + b'.size)
           /\ Excess(first', second', loop'.i, loop'.j, Magnitude(r'), loop'.carry) = 0
           /\ 0 % Power(r'.size) = 0
      BY <2>3, <2>5, <3>1, <3>2, <3>3, <3>4, <3>5, <3>8, <3>9
    <3> QED BY <3>10, <3>11 DEF RowsSoFar
  <2> QED BY <2>4, <2>6, <2>7, <2>8 DEF Inv
<1> QED BY <1>9, <1>10

\* What the rows' invariant says, of numbers that are not state
LEMMA RowsFacts ==
  ASSUME Inv, pc = "rows"
  PROVE  /\ WellFormed /\ Operands /\ pc # "idle" /\ Running
         /\ type \in Types /\ type.limbs \in Nat /\ Checked \in BOOLEAN
         /\ Fits(a, type) /\ Fits(b, type) /\ Fits(r, type) /\ r \in Numbers
         /\ first \in Nat /\ second \in Nat
         /\ loop.i \in Nat /\ loop.j \in Nat /\ loop.carry \in 0 .. Base - 1
         /\ a.size \in Nat \ {0} /\ b.size \in Nat \ {0} /\ r.size \in Nat \ {0}
         /\ a.size <= type.limbs /\ b.size <= type.limbs /\ r.size <= type.limbs
         /\ r.size = a.size + b.size \/ r.size = type.limbs
         /\ r.mem \in Nat /\ r.mem < Power(type.limbs) /\ Magnitude(r) = r.mem % Power(r.size)
         /\ Magnitude(r) \in Nat
         /\ first < Power(a.size) /\ second < Power(b.size)
         /\ \A k \in Nat : k < a.size => Limb(a.mem, k) = Limb(first, k)
         /\ \A k \in Nat : k < b.size => Limb(b.mem, k) = Limb(second, k)
<1>1. WellFormed /\ Operands /\ RowsSoFar /\ Running
  BY DEF Inv, Running
<1>2. /\ type \in Types /\ type.limbs \in Nat /\ Checked \in BOOLEAN
      /\ Fits(a, type) /\ Fits(b, type) /\ Fits(r, type)
      /\ given1 \in Int /\ given2 \in Int /\ first \in Nat /\ second \in Nat
  BY <1>1, Basics
<1>3. Holds(a, given1) /\ Holds(b, given2) /\ r.size = Smaller(a.size + b.size, type.limbs)
  BY <1>1 DEF RowsSoFar
<1>4. first = Abs(given1) /\ second = Abs(given2)
  BY DEF first, second, given1, given2
<1>5. loop.i \in Nat /\ loop.j \in Nat /\ loop.carry \in 0 .. Base - 1
  BY <1>1 DEF WellFormed
<1>6. /\ a.size \in Nat \ {0} /\ b.size \in Nat \ {0} /\ r.size \in Nat \ {0}
      /\ a.size <= type.limbs /\ b.size <= type.limbs /\ r.size <= type.limbs
      /\ r.mem \in Nat /\ r.mem < Power(type.limbs) /\ r \in Numbers
  BY <1>2 DEF Fits, Numbers
<1>7. r.size = a.size + b.size \/ r.size = type.limbs
  BY <1>3 DEF Smaller
<1>8. Magnitude(r) = r.mem % Power(r.size) /\ Magnitude(r) \in Nat
  BY <1>6, Parts DEF Magnitude
<1>9. /\ first < Power(a.size) /\ second < Power(b.size)
      /\ \A k \in Nat : k < a.size => Limb(a.mem, k) = Limb(first, k)
      /\ \A k \in Nat : k < b.size => Limb(b.mem, k) = Limb(second, k)
  BY <1>2, <1>3, <1>4, HeldNumber
<1> QED BY <1>1, <1>2, <1>5, <1>6, <1>7, <1>8, <1>9

\* One limb of a row
LEMMA RowLimbKeeps ==
  ASSUME Inv, RowLimb
  PROVE  Inv'
<1>1. pc = "rows" /\ RowsSoFar
  BY DEF Inv, RowLimb
<1> PICK n : n = first
  OBVIOUS
<1> PICK m : m = second
  OBVIOUS
<1> PICK i : i = loop.i
  OBVIOUS
<1> PICK j : j = loop.j
  OBVIOUS
<1> PICK carry : carry = loop.carry
  OBVIOUS
<1> PICK rr : rr = r
  OBVIOUS
<1> PICK sb : sb = b.size
  OBVIOUS
<1> PICK s : s = rr.size
  OBVIOUS
<1>2. /\ type \in Types /\ type.limbs \in Nat /\ WellFormed /\ pc # "idle"
      /\ n \in Nat /\ m \in Nat /\ i \in Nat /\ j \in Nat /\ carry \in 0 .. Base - 1
      /\ a.size \in Nat \ {0} /\ sb \in Nat \ {0} /\ s \in Nat \ {0} /\ s <= type.limbs
      /\ rr.mem \in Nat /\ rr.mem < Power(type.limbs) /\ rr \in Numbers
      /\ Magnitude(r) = rr.mem % Power(s) /\ a.size <= type.limbs /\ sb <= type.limbs
      /\ \A k \in Nat : k < a.size => Limb(a.mem, k) = Limb(n, k)
      /\ \A k \in Nat : k < sb => Limb(b.mem, k) = Limb(m, k)
  BY <1>1, RowsFacts
<1>3. i < a.size /\ j < s - i /\ j < sb /\ j < inner_limit
  <2>1. loop.i < a.size /\ loop.j < inner_limit
    BY DEF RowLimb
  <2>2. inner_limit = Smaller(s - i, sb)
    BY DEF inner_limit
  <2>3. Smaller(s - i, sb) <= s - i /\ Smaller(s - i, sb) <= sb /\ Smaller(s - i, sb) \in Int
    BY <1>2 DEF Smaller
  <2> QED BY <1>2, <2>1, <2>2, <2>3
<1> DEFINE k == i + j
           g == rr.mem % Power(s)
           c == carry + Limb(n, i) * Limb(m, j) + Limb(rr.mem, k)
           o == c % Base
           u == c \div Base
           w == WithLimb(rr.mem, k, o)
<1>4. k \in Nat /\ k < s /\ k < i + sb /\ i + sb \in Nat
  BY <1>2, <1>3
<1>5. /\ o \in 0 .. Base - 1 /\ u \in 0 .. Base - 1
      /\ Excess(n, m, i, j + 1, w % Power(s), u) = Excess(n, m, i, j, g, carry)
  <2> PICK mem \in Nat : mem = rr.mem
    BY <1>2
  <2>1. i + j < s /\ s \in Nat
    BY <1>2, <1>4
  <2>2. c = RowSum(n, m, i, j, mem, carry)
    BY Zenon DEF RowSum
  <2> HIDE DEF c, k
  <2>3. RowLimbAdded(n, m, i, j, s, mem, carry)
    BY <1>2, <2>1, RowLimbExcess, Zenon
  <2> QED BY <2>2, <2>3, Zenon DEF RowLimbAdded, k
<1>6. /\ num' = [num EXCEPT !["r"].mem = WithLimb(@, k, o)]
      /\ loop' = [loop EXCEPT !.j = @ + 1, !.carry = u]
      /\ call' = call /\ pc' = "rows"
  <2>1. Limb(a.mem, i) = Limb(n, i) /\ Limb(b.mem, j) = Limb(m, j)
    BY <1>2, <1>3
  <2> QED BY <1>1, <2>1 DEF RowLimb
<1> HIDE DEF c, o, u, k
<1>7. w \in Nat /\ w < Power(type.limbs)
  <2>1. k < type.limbs
    BY <1>2, <1>4
  <2> HIDE DEF w
  <2>2. w \in Nat
    BY <1>2, <1>4, <1>5, WriteLimb DEF w
  <2>3. w < Power(type.limbs)
    BY <1>2, <1>4, <1>5, <2>1, WriteAbove DEF w
  <2> QED BY <2>2, <2>3
<1>8. w % Power(s) < Power(i + sb)
  <2>1. g \in Nat
    BY <1>2, Parts
  <2>2. g < Power(i + sb)
    BY <1>1, <1>2 DEF RowsSoFar
  <2> HIDE DEF g
  <2>3. WithLimb(g, k, o) < Power(i + sb)
    BY <1>4, <1>5, <2>1, <2>2, WriteAbove
  <2>4. w % Power(s) = WithLimb(g, k, o)
    BY <1>2, <1>4, <1>5, WriteLow DEF g
  <2> QED BY <2>3, <2>4
<1> HIDE DEF w
<1> PICK e : e = [rr EXCEPT !.mem = w]
  OBVIOUS
<1>9. num' = [num EXCEPT !["r"] = e]
  BY <1>2, <1>6 DEF r, w
<1>10. e.mem = w /\ e.size = s /\ Fits(e, type)
  BY <1>2, <1>7 DEF Numbers, Fits
<1>11. /\ num' \in [Objects -> Numbers] /\ \A ob \in Objects : Fits(num'[ob], type')
       /\ Operands' /\ type' = type /\ given1' = given1 /\ given2' = given2
       /\ num'["r"] = e
  BY <1>2, <1>6, <1>9, <1>10, Unchanged
<1>12. /\ loop'.i = i /\ loop'.j = j + 1 /\ loop'.carry = u /\ loop'.neg = loop.neg
       /\ loop' \in [i : 0..type'.limbs, j : 0..type'.limbs, val : 0 .. Base - 1,
                     carry : 0 .. Base - 1, neg : BOOLEAN]
  <2>1. loop \in [i : 0..type.limbs, j : 0..type.limbs, val : 0 .. Base - 1,
                  carry : 0 .. Base - 1, neg : BOOLEAN]
    BY <1>2 DEF WellFormed
  <2>2. j + 1 \in 0 .. type.limbs
    BY <1>2, <1>3
  <2> QED BY <1>5, <1>6, <1>11, <2>1, <2>2
<1>13. WellFormed'
  BY <1>2, <1>6, <1>11, <1>12 DEF WellFormed
<1>14. OnEntry' /\ LimbsSoFar' /\ MultipliesExactly'
  BY <1>6 DEF OnEntry, LimbsSoFar, MultipliesExactly
<1>15. RowsSoFar'
  <2>1. a' = a /\ b' = b /\ r' = e
    <3>1. call.a \in Objects /\ call.b \in Objects /\ call.a # "r" /\ call.b # "r"
      BY <1>1, <1>2 DEF WellFormed, RowsSoFar
    <3>2. num'[call.a] = num[call.a] /\ num'[call.b] = num[call.b]
      BY <1>2, <1>9, <3>1 DEF WellFormed
    <3> QED BY <1>6, <1>11, <3>2 DEF a, b, r
  <2>2. first' = n /\ second' = m /\ negative' = negative /\ Checked' = Checked
    BY <1>6, <1>11 DEF first, second, negative, Checked
  <2>3. Magnitude(e) = w % Power(s)
    BY <1>10 DEF Magnitude
  <2>4. inner_limit' = inner_limit
    BY <1>10, <1>12, <2>1 DEF inner_limit
  <2>5. j + 1 <= inner_limit
    <3>1. inner_limit \in Int
      BY <1>2 DEF inner_limit, Smaller
    <3> QED BY <1>2, <1>3, <3>1
  <2> PICK excess : excess = Excess(n, m, i, j, g, carry)
    OBVIOUS
  <2>6. excess % Power(s) = 0 /\ (Checked => excess = 0)
    BY <1>1, <1>2 DEF RowsSoFar
  <2>7. /\ call'.fn = "by_number" /\ call'.a # "r" /\ call'.b # "r"
        /\ Holds(a', given1') /\ Holds(b', given2') /\ a'.size # 1 /\ b'.size # 1
        /\ r'.size = Smaller(a'.size + b'.size, type'.limbs) /\ loop'.neg = negative'
        /\ Checked' => a'.size + b'.size - 1 <= r'.size
    BY <1>1, <1>6, <1>10, <1>11, <1>12, <2>1, <2>2 DEF RowsSoFar
  <2>8. /\ loop'.i <= a'.size /\ loop'.i # a'.size /\ loop'.j <= inner_limit'
    BY <1>2, <1>3, <1>12, <2>1, <2>4, <2>5
  <2>9. Magnitude(r') < Power(loop'.i + b'.size)
    BY <1>8, <1>12, <2>1, <2>3
  <2>10. Excess(first', second', loop'.i, loop'.j, Magnitude(r'), loop'.carry) = excess
    BY <1>5, <1>12, <2>1, <2>2, <2>3
  <2> QED BY <1>10, <2>1, <2>2, <2>6, <2>7, <2>8, <2>9, <2>10 DEF RowsSoFar
<1> QED BY <1>11, <1>13, <1>14, <1>15 DEF Inv

\* A row that has got all of its product, with its carry written, has kept the excess.
RowKept(n, m, i, j, g, carry) ==
  Excess(n, m, i + 1, 0, g + carry * Power(i + j), 0) = Excess(n, m, i, j, g, carry)

LEMMA RowEndKept ==
  ASSUME NEW n \in Nat, NEW m \in Nat, NEW i \in Nat, NEW j \in Nat, NEW g \in Nat,
         NEW carry \in Nat, m < Power(j)
  PROVE  RowKept(n, m, i, j, g, carry)
<1> PICK x \in Nat : x = Limb(n, i)
  BY LimbFacts
<1> PICK p \in Nat : p = Power(i + j)
  BY PowerFacts
<1> DEFINE cp == carry * p
           h == g + cp
<1>1. m \div Power(j) = 0
  BY Parts
<1>2. cp \in Nat /\ h \in Nat
  BY Products
<1>3. Excess(n, m, i + 1, 0, h, 0)
        = Excess(n, m, i, j, g, carry) + (carry + x * 0) * p - (h - g)
  <2>1. h \in Int /\ g \in Int /\ carry \in Int
    BY <1>2
  <2> HIDE DEF h
  <2>2. RowEnded(n, m, i, j, g, h, carry)
    BY <2>1, RowEndExcess, Zenon
  <2> QED BY <1>1, <2>2, Zenon DEF RowEnded
<1>4. (carry + x * 0) * p = cp
  <2>1. x * 0 = 0 /\ carry + 0 = carry
    OBVIOUS
  <2> QED BY <2>1
<1>5. Excess(n, m, i, j, g, carry) \in Int
  <2>1. g \in Int /\ carry \in Int
    OBVIOUS
  <2> QED BY <2>1, ExcessIsInt, Zenon
<1> DEFINE e == Excess(n, m, i, j, g, carry)
<1> HIDE DEF cp, e
<1>6. e + cp - (h - g) = e
  BY <1>2, <1>5 DEF e
<1>7. Excess(n, m, i + 1, 0, h, 0) = e + cp - (h - g)
  BY <1>3, <1>4, Zenon DEF e
<1> QED BY <1>6, <1>7 DEF e, cp, RowKept

\* A row that has been cut off at the end of the result lacks what there is no room for.
RowCut(n, m, i, j, g, carry) ==
  Excess(n, m, i, j, g, carry) % Power(i + j) = 0 => Excess(n, m, i + 1, 0, g, 0) % Power(i + j) = 0

LEMMA RowEndCut ==
  ASSUME NEW n \in Nat, NEW m \in Nat, NEW i \in Nat, NEW j \in Nat, NEW g \in Nat,
         NEW carry \in Nat
  PROVE  RowCut(n, m, i, j, g, carry)
<1> SUFFICES ASSUME Excess(n, m, i, j, g, carry) % Power(i + j) = 0
             PROVE  Excess(n, m, i + 1, 0, g, 0) % Power(i + j) = 0
  BY DEF RowCut
<1> PICK x \in Nat : x = Limb(n, i)
  BY LimbFacts
<1> PICK p \in Nat \ {0} : p = Power(i + j)
  BY PowerFacts
<1> PICK q \in Nat : q = m \div Power(j)
  BY Parts
<1> PICK e \in Int : e = Excess(n, m, i, j, g, carry)
  <2>1. g \in Int /\ carry \in Int
    OBVIOUS
  <2> QED BY <2>1, ExcessIsInt, Zenon
<1> DEFINE y == carry + x * q
<1>1. y \in Nat
  BY Products
<1>2. Excess(n, m, i + 1, 0, g, 0) = e + y * p - (g - g)
  <2>1. g \in Int /\ carry \in Int
    OBVIOUS
  <2>2. RowEnded(n, m, i, j, g, g, carry)
    BY <2>1, RowEndExcess, Zenon
  <2> QED BY <2>2, Zenon DEF RowEnded
<1> HIDE DEF y
<1> PICK c \in Int : c = e \div p
  BY Division
<1>3. e = p * c + 0
  BY Division, ZenonT(60)
<1> DEFINE f == p * c
           z == y * p
           w == p * (c + y)
<1>4. f \in Int /\ z \in Int /\ w \in Int /\ w = f + z
  BY <1>1, Products
<1> HIDE DEF f, z, w
<1>5. Excess(n, m, i + 1, 0, g, 0) = w + 0
  <2>1. e = f + 0
    BY <1>3 DEF f
  <2>2. Excess(n, m, i + 1, 0, g, 0) = e + z - (g - g)
    BY <1>2 DEF z
  <2> QED BY <1>4, <2>1, <2>2
<1>6. (w + 0) % p = 0
  <2>1. w + 0 = p * (c + y) + 0 /\ c + y \in Int /\ w + 0 \in Int /\ 0 \in 0 .. p - 1
    BY <1>1, <1>4 DEF w
  <2> QED BY <2>1, DivisionUnique
<1> QED BY <1>5, <1>6

\* Above a number's limbs, a limb is added by writing it.
LEMMA WriteNext ==
  ASSUME NEW g \in Nat, NEW k \in Nat, g < Power(k), NEW l \in 0 .. Base - 1
  PROVE  WithLimb(g, k, l) = g + l * Power(k) /\ g + l * Power(k) < Power(k + 1)
<1>1. Limb(g, k) = 0
  BY LimbFacts
<1> PICK p \in Nat : p = Power(k)
  BY PowerFacts
<1>2. g < Power(k + 1)
  <2>1. k + 1 \in Nat /\ k <= k + 1
    OBVIOUS
  <2>2. Power(k) <= Power(k + 1) /\ Power(k) \in Nat /\ Power(k + 1) \in Nat
    BY <2>1, PowersGrow, PowerFacts
  <2> QED BY <2>2
<1>3. WithLimb(g, k, l) < Power(k + 1)
  <2>1. k + 1 \in Nat /\ k < k + 1
    OBVIOUS
  <2> QED BY <1>2, <2>1, WriteAbove
<1>4. WithLimb(g, k, l) = g + l * Power(k)
  <2>1. l \in Int /\ l - 0 = l
    BY BaseAssumption
  <2> QED BY <1>1, <2>1 DEF WithLimb
<1> QED BY <1>3, <1>4

\* The end of a row, where its carry is written if there is room
LEMMA RowEndKeeps ==
  ASSUME Inv, RowEnd
  PROVE  Inv'
<1>1. pc = "rows" /\ RowsSoFar
  BY DEF Inv, RowEnd
<1> PICK n : n = first
  OBVIOUS
<1> PICK m : m = second
  OBVIOUS
<1> PICK i : i = loop.i
  OBVIOUS
<1> PICK j : j = loop.j
  OBVIOUS
<1> PICK carry : carry = loop.carry
  OBVIOUS
<1> PICK rr : rr = r
  OBVIOUS
<1> PICK sa : sa = a.size
  OBVIOUS
<1> PICK sb : sb = b.size
  OBVIOUS
<1> PICK s : s = rr.size
  OBVIOUS
<1> PICK limbs : limbs = type.limbs
  OBVIOUS
<1> PICK g : g = rr.mem % Power(s)
  OBVIOUS
<1>2. /\ type \in Types /\ limbs \in Nat /\ WellFormed /\ pc # "idle" /\ Running
      /\ n \in Nat /\ m \in Nat /\ i \in Nat /\ j \in Nat /\ carry \in 0 .. Base - 1
      /\ sa \in Nat \ {0} /\ sb \in Nat \ {0} /\ s \in Nat \ {0} /\ s <= limbs
      /\ rr.mem \in Nat /\ rr.mem < Power(limbs) /\ rr \in Numbers /\ Fits(rr, type)
      /\ Magnitude(r) = g /\ g \in Nat /\ sa <= limbs /\ sb <= limbs /\ m < Power(sb)
      /\ s = sa + sb \/ s = limbs
      /\ Checked \in BOOLEAN
  BY <1>1, RowsFacts
<1>3. /\ i < sa /\ i < s /\ j = Smaller(s - i, sb)
      /\ Checked => sa + sb - 1 <= s
  <2>1. loop.i < a.size /\ loop.j = inner_limit
    BY DEF RowEnd
  <2>2. inner_limit = Smaller(s - i, sb)
    BY DEF inner_limit
  <2>3. i < s
    BY <1>2, <2>1
  <2>4. Checked => sa + sb - 1 <= s
    BY <1>1 DEF RowsSoFar
  <2> QED BY <2>1, <2>2, <2>3, <2>4
<1>4. /\ j = sb \/ (j = s - i /\ j < sb)
      /\ Checked => j = sb
      /\ i + j <= s
      /\ Checked /\ i + j = s => s = limbs
  BY <1>2, <1>3 DEF Smaller
<1> DEFINE k == i + j
<1>5. k \in Nat /\ k <= s /\ k <= i + sb /\ i + sb \in Nat /\ i + 1 \in Nat /\ i + 1 + sb \in Nat
  BY <1>2, <1>4
<1>6. /\ Excess(n, m, i, j, g, carry) % Power(s) = 0
      /\ Checked => Excess(n, m, i, j, g, carry) = 0
      /\ g < Power(i + sb)
  <2> PICK excess : excess = Excess(n, m, i, j, g, carry)
    OBVIOUS
  <2>1. excess % Power(s) = 0 /\ (Checked => excess = 0)
    BY <1>1, <1>2 DEF RowsSoFar
  <2> QED BY <1>1, <1>2, <2>1 DEF RowsSoFar
<1>7. CASE Checked /\ carry # 0 /\ k >= limbs
  <2>1. Throw(rr)
    BY <1>7 DEF RowEnd
  <2>2. Checked /\ j = sb /\ k \in Nat /\ limbs <= k
    BY <1>2, <1>4, <1>5, <1>7
  <2> PICK p \in Nat : p = Power(k)
    BY <1>5, PowerFacts
  <2> PICK l \in Nat : l = n % Power(i + 1)
    BY <1>2, <1>5, Parts
  <2> DEFINE h == g + carry * p
             lm == l * m
             nm == n * m
  <2>3. h \in Nat /\ p <= h
    <3>1. carry \in Nat /\ 1 <= carry
      BY <1>2, <1>7, BaseAssumption
    <3>2. 1 * p <= carry * p /\ 1 * p = p /\ carry * p \in Nat
      BY <3>1, Monotone, Products
    <3> DEFINE cp == carry * p
    <3> HIDE DEF cp
    <3>3. g + cp \in Nat /\ p <= g + cp
      BY <1>2, <3>2 DEF cp
    <3> QED BY <3>3 DEF cp
  <2>4. lm - h = 0
    <3>1. m < Power(j) /\ carry \in Nat
      BY <1>2, <2>2, BaseAssumption
    <3>2. Excess(n, m, i + 1, 0, h, 0) = Excess(n, m, i, j, g, carry)
      <4>1. RowKept(n, m, i, j, g, carry)
        BY <1>2, <3>1, RowEndKept
      <4> QED BY <4>1, Zenon DEF RowKept, k
    <3>3. h \in Int
      BY <2>3
    <3> HIDE DEF h
    <3>4. Excess(n, m, i + 1, 0, h, 0) = (n % Power(i + 1)) * m - h
      BY <1>2, <1>5, <3>3, RowStartExcess
    <3> QED BY <1>6, <2>2, <3>2, <3>4
  <2>5. lm \in Nat /\ nm \in Nat /\ lm <= nm
    <3>1. l <= n
      BY <1>2, <1>5, Parts
    <3> QED BY <1>2, <3>1, Monotone, Products
  <2>6. Modulus \in Nat /\ Modulus <= Power(limbs) /\ Power(limbs) \in Nat /\ Power(limbs) <= p
    <3>1. Modulus <= Power(limbs) /\ Modulus \in Nat
      BY <1>2, ModulusFacts
    <3>2. Power(limbs) \in Nat /\ Power(limbs) <= Power(k)
      BY <1>2, <2>2, PowerFacts, PowersGrow
    <3> QED BY <3>1, <3>2
  <2> HIDE DEF h, lm, nm
  <2>7. nm >= Modulus
    BY <2>3, <2>4, <2>5, <2>6
  <2>8. first * second >= Modulus
    BY <2>7 DEF nm
  <2> QED BY <1>2, <2>1, <2>2, <2>8, Threw
<1>8. CASE ~(Checked /\ carry # 0 /\ k >= limbs)
  <2>1. /\ num' = IF carry = 0 \/ k >= s THEN num
                  ELSE [num EXCEPT !["r"].mem = WithLimb(@, k, carry)]
        /\ loop' = [loop EXCEPT !.i = @ + 1, !.j = 0, !.carry = 0]
        /\ call' = call /\ pc' = "rows"
    BY <1>1, <1>8 DEF RowEnd, RowCarry
  <2> PICK w : w = IF carry = 0 \/ k >= s THEN rr.mem ELSE WithLimb(rr.mem, k, carry)
    OBVIOUS
  <2> PICK h : h = w % Power(s)
    OBVIOUS
  <2>2. /\ w \in Nat /\ w < Power(limbs) /\ h < Power(i + 1 + sb) /\ h \in Nat
        /\ Excess(n, m, i + 1, 0, h, 0) % Power(s) = 0
        /\ Checked => Excess(n, m, i + 1, 0, h, 0) = 0
    <3>1. Power(i + sb) \in Nat /\ Power(i + 1 + sb) \in Nat /\ Power(i + sb) <= Power(i + 1 + sb)
      <4> HIDE DEF k
      <4>1. i + sb <= i + 1 + sb
        BY <1>2
      <4>2. Power(i + sb) \in Nat /\ Power(i + 1 + sb) \in Nat
        BY <1>5, PowerFacts, Zenon
      <4>3. Power(i + sb) <= Power(i + 1 + sb)
        BY <1>5, <4>1, PowersGrow, Zenon
      <4> QED BY <4>2, <4>3
    <3>2. carry \in Nat
      BY <1>2, BaseAssumption
    <3>3. CASE carry # 0 /\ k < s
      <4>1. j = sb /\ k = i + sb
        BY <1>2, <1>4, <3>3
      <4>2. w = WithLimb(rr.mem, k, carry)
        BY <1>2, <1>5, <3>3
      <4>3. k < limbs
        BY <1>2, <1>5, <3>3
      <4> HIDE DEF k
      <4>4. w \in Nat
        <5> PICK mem \in Nat : mem = rr.mem
          BY <1>2
        <5>1. k \in Nat /\ carry \in 0 .. Base - 1
          BY <1>2, <1>5
        <5>2. WithLimb(mem, k, carry) \in Nat
          BY <5>1, WriteLimb
        <5> QED BY <4>2, <5>2
      <4>5. w < Power(limbs)
        BY <1>2, <1>5, <4>2, <4>3, WriteAbove
      <4>6. h = WithLimb(g, k, carry)
        BY <1>2, <1>5, <3>3, <4>2, WriteLow
      <4>7. h = g + carry * Power(k) /\ h < Power(k + 1)
        BY <1>2, <1>5, <1>6, <4>1, <4>6, WriteNext
      <4>8. k + 1 = i + 1 + sb
        BY <1>2, <4>1
      <4>9. Excess(n, m, i + 1, 0, h, 0) = Excess(n, m, i, j, g, carry)
        <5>1. RowKept(n, m, i, j, g, carry)
          BY <1>2, <3>2, <4>1, RowEndKept
        <5> QED BY <4>7, <5>1, Zenon DEF RowKept, k
      <4>10. h \in Nat
        BY <1>2, <4>4, Parts
      <4> QED BY <1>6, <4>4, <4>5, <4>7, <4>8, <4>9, <4>10
    <3>4. CASE carry = 0 /\ j = sb
      <4>1. w = rr.mem /\ h = g
        BY <3>4
      <4>2. g < Power(i + 1 + sb)
        BY <1>2, <1>6, <3>1
      <4>3. Excess(n, m, i + 1, 0, g, 0) = Excess(n, m, i, j, g, carry)
        <5>1. Excess(n, m, i + 1, 0, g + carry * Power(i + j), 0) = Excess(n, m, i, j, g, carry)
          <6>1. RowKept(n, m, i, j, g, carry)
            BY <1>2, <3>2, <3>4, RowEndKept
          <6> QED BY <6>1, Zenon DEF RowKept
        <5>2. g + carry * Power(i + j) = g
          <6>1. Power(i + j) \in Int
            BY <1>5, PowerFacts
          <6>2. 0 * Power(i + j) = 0
            BY <6>1
          <6> QED BY <1>2, <3>4, <6>2
        <5> QED BY <5>1, <5>2
      <4> QED BY <1>2, <1>6, <4>1, <4>2, <4>3
    <3>5. CASE ~(carry # 0 /\ k < s) /\ ~(carry = 0 /\ j = sb)
      <4>1. k = s /\ w = rr.mem /\ h = g
        BY <1>2, <1>4, <1>5, <3>5
      <4>2. ~Checked
        BY <1>2, <1>4, <1>5, <1>8, <3>5, <4>1
      <4>3. g < Power(i + 1 + sb)
        BY <1>2, <1>6, <3>1
      <4>4. Excess(n, m, i + 1, 0, g, 0) % Power(i + j) = 0
        <5>1. RowCut(n, m, i, j, g, carry)
          BY <1>2, <3>2, RowEndCut
        <5> QED BY <1>6, <4>1, <5>1 DEF RowCut
      <4> QED BY <1>2, <4>1, <4>2, <4>3, <4>4
    <3> QED BY <3>3, <3>4, <3>5
  <2> PICK e : e = [rr EXCEPT !.mem = w]
    OBVIOUS
  <2>3. num' = [num EXCEPT !["r"] = e]
    <3>1. num \in [Objects -> Numbers] /\ "r" \in Objects /\ num["r"] = rr
      BY <1>2 DEF WellFormed, Objects, r
    <3>2. CASE carry = 0 \/ k >= s
      <4>1. e = rr
        BY <1>2, <3>2 DEF Numbers
      <4> QED BY <2>1, <3>1, <3>2, <4>1
    <3>3. CASE ~(carry = 0 \/ k >= s)
      <4>1. num' = [num EXCEPT !["r"].mem = WithLimb(@, k, carry)] /\ w = WithLimb(rr.mem, k, carry)
        BY <2>1, <3>3
      <4> QED BY <3>1, <4>1
    <3> QED BY <3>2, <3>3
  <2>4. e.mem = w /\ e.size = s /\ Fits(e, type)
    BY <1>2, <2>2 DEF Numbers, Fits
  <2>5. /\ num' \in [Objects -> Numbers] /\ \A ob \in Objects : Fits(num'[ob], type')
        /\ Operands' /\ type' = type /\ given1' = given1 /\ given2' = given2
        /\ num'["r"] = e
    BY <1>2, <2>1, <2>3, <2>4, Unchanged DEF Running
  <2>6. /\ loop'.i = i + 1 /\ loop'.j = 0 /\ loop'.carry = 0 /\ loop'.neg = loop.neg
        /\ loop' \in [i : 0..type'.limbs, j : 0..type'.limbs, val : 0 .. Base - 1,
                      carry : 0 .. Base - 1, neg : BOOLEAN]
    <3>1. loop \in [i : 0..type.limbs, j : 0..type.limbs, val : 0 .. Base - 1,
                    carry : 0 .. Base - 1, neg : BOOLEAN]
      BY <1>2 DEF WellFormed
    <3>2. i + 1 \in 0 .. type.limbs /\ 0 \in 0 .. type.limbs /\ 0 \in 0 .. Base - 1
      BY <1>2, <1>3, BaseAssumption
    <3> QED BY <2>1, <2>5, <3>1, <3>2
  <2>7. WellFormed'
    BY <1>2, <2>1, <2>5, <2>6 DEF WellFormed
  <2>8. OnEntry' /\ LimbsSoFar' /\ MultipliesExactly'
    BY <2>1 DEF OnEntry, LimbsSoFar, MultipliesExactly
  <2>9. RowsSoFar'
    <3>1. a' = a /\ b' = b /\ r' = e
      <4>1. call.a \in Objects /\ call.b \in Objects /\ call.a # "r" /\ call.b # "r"
        BY <1>1, <1>2 DEF WellFormed, RowsSoFar
      <4>2. num'[call.a] = num[call.a] /\ num'[call.b] = num[call.b]
        BY <1>2, <2>3, <4>1 DEF WellFormed
      <4> QED BY <2>1, <2>5, <4>2 DEF a, b, r
    <3>2. first' = n /\ second' = m /\ negative' = negative /\ Checked' = Checked
      BY <2>1, <2>5 DEF first, second, negative, Checked
    <3>3. Magnitude(e) = h
      BY <2>4 DEF Magnitude
    <3>4. i + 1 <= sa /\ 0 <= inner_limit'
      <4>1. inner_limit' = Smaller(s - (i + 1), sb)
        BY <2>4, <2>6, <3>1 DEF inner_limit
      <4>2. i + 1 <= s
        BY <1>2, <1>3
      <4> QED BY <1>2, <1>3, <4>1, <4>2 DEF Smaller
    <3> PICK excess : excess = Excess(n, m, i + 1, 0, h, 0)
      OBVIOUS
    <3>5. /\ call'.fn = "by_number" /\ call'.a # "r" /\ call'.b # "r"
          /\ Holds(a', given1') /\ Holds(b', given2') /\ a'.size # 1 /\ b'.size # 1
          /\ r'.size = Smaller(a'.size + b'.size, type'.limbs) /\ loop'.neg = negative'
          /\ Checked' => a'.size + b'.size - 1 <= r'.size
      BY <1>1, <2>1, <2>4, <2>5, <2>6, <3>1, <3>2 DEF RowsSoFar
    <3>6. /\ loop'.i <= a'.size
          /\ IF loop'.i = a'.size THEN loop'.j = 0 /\ loop'.carry = 0 ELSE loop'.j <= inner_limit'
      BY <2>6, <3>1, <3>4
    <3>7. Magnitude(r') < Power(loop'.i + b'.size)
      BY <2>2, <2>6, <3>1, <3>3
    <3>8. Excess(first', second', loop'.i, loop'.j, Magnitude(r'), loop'.carry) = excess
      BY <2>6, <3>1, <3>2, <3>3
    <3>9. excess % Power(r'.size) = 0 /\ (Checked' => excess = 0)
      BY <2>2, <2>4, <3>1, <3>2
    <3> QED BY <3>5, <3>6, <3>7, <3>8, <3>9 DEF RowsSoFar
  <2> QED BY <2>5, <2>7, <2>8, <2>9 DEF Inv
<1> QED BY <1>7, <1>8

\* A product is shorter than its factors together.
LEMMA ProductBelow ==
  ASSUME NEW n \in Nat, NEW m \in Nat, NEW k \in Nat, NEW l \in Nat, n < Power(k), m < Power(l)
  PROVE  n * m < Power(k + l)
<1> PICK pk \in Nat \ {0} : pk = Power(k)
  BY PowerFacts
<1> PICK pl \in Nat \ {0} : pl = Power(l)
  BY PowerFacts
<1> DEFINE x == n * m
           y == n * pl
           z == pk * pl
<1>1. Power(k + l) = z
  BY PowerOfSum
<1>2. x <= y
  BY Monotone
<1>3. y < z
  <2>1. (n + 1) * pl <= pk * pl
    BY Monotone
  <2>2. (n + 1) * pl = y + pl
    OBVIOUS
  <2>3. y \in Int /\ z \in Int
    BY Products
  <2> HIDE DEF y, z
  <2>4. y + pl <= z
    BY <2>1, <2>2 DEF z
  <2> QED BY <2>3, <2>4
<1>4. x \in Int /\ y \in Int /\ z \in Int
  BY Products
<1> HIDE DEF x, y, z
<1>5. x < z
  BY <1>2, <1>3, <1>4
<1> QED BY <1>1, <1>5 DEF x

\* Numbers that differ by a multiple have the same remainder.
LEMMA SameRemainder ==
  ASSUME NEW d \in Nat \ {0}, NEW p \in Nat, NEW g \in 0 .. d - 1, (p - g) % d = 0
  PROVE  p % d = g
<1>1. p - g \in Int /\ g \in Int
  OBVIOUS
<1> DEFINE e == p - g
           c == e \div d
<1>2. c \in Int /\ e = d * c + (e % d)
  <2> HIDE DEF e
  <2>1. e \in Int
    BY <1>1 DEF e
  <2> QED BY <2>1, Division, Zenon
<1> HIDE DEF c
<1>3. p - g = d * c + 0
  BY <1>2
<1> DEFINE dc == d * c
<1>4. dc \in Int
  BY <1>2, Products
<1> HIDE DEF dc
<1>5. p = dc + g
  BY <1>1, <1>3, <1>4 DEF dc
<1>6. p = d * c + g /\ p \in Int
  BY <1>5 DEF dc
<1> QED BY <1>2, <1>6, DivisionUnique, ZenonT(60)

\* After the last row, the result has what there is room for of the product.
LEMMA RowsDoneKeeps ==
  ASSUME Inv, RowsDone
  PROVE  Inv'
<1>1. pc = "rows" /\ RowsSoFar /\ loop.i = a.size /\ Deliver(r, loop.neg)
  BY DEF Inv, RowsDone
<1> PICK n : n = first
  OBVIOUS
<1> PICK m : m = second
  OBVIOUS
<1> PICK rr : rr = r
  OBVIOUS
<1> PICK sa : sa = a.size
  OBVIOUS
<1> PICK sb : sb = b.size
  OBVIOUS
<1> PICK s : s = rr.size
  OBVIOUS
<1> PICK g : g = rr.mem % Power(s)
  OBVIOUS
<1>2. /\ type.limbs \in Nat /\ Running
      /\ n \in Nat /\ m \in Nat
      /\ sa \in Nat \ {0} /\ sb \in Nat \ {0} /\ s \in Nat \ {0} /\ s <= type.limbs
      /\ rr.mem \in Nat /\ Fits(rr, type)
      /\ Magnitude(r) = g /\ g \in Nat /\ n < Power(sa) /\ m < Power(sb)
      /\ s = sa + sb \/ s = type.limbs
      /\ Checked \in BOOLEAN
  BY <1>1, RowsFacts
<1> DEFINE p == n * m
<1> PICK excess : excess = Excess(n, m, sa, 0, g, 0)
  OBVIOUS
<1>3. excess % Power(s) = 0 /\ (Checked => excess = 0) /\ loop.neg = negative
  BY <1>1, <1>2 DEF RowsSoFar
<1>4. excess = p - g
  <2>1. n \in Nat /\ m \in Nat /\ g \in Int /\ sa \in Nat
    BY <1>2
  <2>2. Excess(n, m, sa, 0, g, 0) = (n % Power(sa)) * m - g
    BY <2>1, RowStartExcess, SMT
  <2>3. n % Power(sa) = n
    BY <1>2, Parts
  <2> QED BY <2>2, <2>3
<1>5. p \in Nat
  BY <1>2, Products
<1>6. g \in 0 .. Power(s) - 1
  <2> PICK mem \in Nat : mem = rr.mem
    BY <1>2
  <2>1. s \in Nat
    BY <1>2
  <2>2. mem % Power(s) \in 0 .. Power(s) - 1
    BY <2>1, Parts
  <2> QED BY <2>2
<1>7. p % Power(s) = g
  <2> HIDE DEF p
  <2>1. Power(s) \in Nat \ {0}
    BY <1>2, PowerFacts
  <2>2. (p - g) % Power(s) = 0
    BY <1>3, <1>4
  <2> QED BY <1>5, <1>6, <2>1, <2>2, SameRemainder
<1>8. p < Power(s) \/ (s = type.limbs /\ ~Checked)
  <2>1. CASE s = sa + sb
    <3>1. p < Power(sa + sb)
      BY <1>2, ProductBelow
    <3> QED BY <2>1, <3>1
  <2>2. CASE s = type.limbs /\ Checked
    <3>1. p = g
      BY <1>2, <1>3, <1>4, <1>5, <2>2
    <3>2. Power(s) \in Nat
      BY <1>2, PowerFacts
    <3> QED BY <1>6, <3>1, <3>2
  <2> QED BY <1>2, <2>1, <2>2
<1> PICK neg : neg = loop.neg
  OBVIOUS
<1>9. Deliver(rr, neg) /\ neg = negative
  BY <1>1, <1>3
<1>10. Magnitude(rr) = (first * second) % Power(rr.size)
  BY <1>2, <1>7
<1>11. first * second < Power(rr.size) \/ (rr.size = type.limbs /\ ~Checked)
  BY <1>8
<1> QED BY <1>2, <1>9, <1>10, <1>11, Delivered

----------------------------------------------------------------------------
(* Products of double limbs.                                               *)

\* What is left of four limbs without leading zeros is the product.
LEMMA FourToNumberKeeps ==
  ASSUME Inv, pc = "entered", call.fn \in {"double_limbs", "signed_double_limbs"},
         call.fn = "double_limbs" => ~negative,
         NEW p, p = first * second, NEW neg, neg = negative, FourToNumber(p, neg)
  PROVE  Inv'
<1>1. WellFormed /\ Operands /\ Running
  BY DEF Inv, Running
<1>2. /\ type \in Types /\ type.limbs \in Nat /\ type.signed \in BOOLEAN
      /\ Checked \in BOOLEAN /\ type.fixed \in BOOLEAN
      /\ Modulus = RangeOf(type) /\ Modulus \in Nat \ {0} /\ p \in Nat
      /\ first \in Nat /\ second \in Nat /\ Fits(r, type) /\ negative \in BOOLEAN
  BY <1>1, Basics
<1>3. /\ type.limbs >= 4 /\ type.top = Base /\ first < Power(2) /\ second < Power(2)
  BY <1>1 DEF Operands
<1>4. p < Power(4) /\ p < Modulus /\ Power(4) \in Nat
  <2>1. p < Power(2 + 2)
    BY <1>2, <1>3, ProductBelow
  <2>2. Power(2 + 2) = Power(4)
    OBVIOUS
  <2>3. Modulus = Power(type.limbs)
    BY <1>2, <1>3, TypeFacts
  <2>4. Power(4) <= Power(type.limbs) /\ Power(4) \in Nat
    BY <1>2, <1>3, PowersGrow, PowerFacts
  <2> QED BY <1>2, <2>1, <2>2, <2>3, <2>4
<1>5. p = (first * second) % Modulus /\ p % Power(4) = p
  BY <1>2, <1>4, Whole
<1>6. /\ type.signed => Kept(given1 * given2) = Signed(p, negative /\ p # 0)
      /\ ~type.signed /\ (~negative \/ p = 0) => Kept(given1 * given2) = p
      /\ ~type.signed /\ negative /\ p # 0 => Kept(given1 * given2) = Modulus - p
      /\ ~negative \/ type.signed \/ p = 0 => Kept(given1 * given2) = given1 * given2
  BY <1>1, <1>5, KeptProduct
<1> DEFINE w == (r.mem \div Power(4)) * Power(4) + p
<1>7. w \in Nat /\ w % Power(4) = p /\ w < Power(type.limbs)
  <2> PICK mem \in Nat : mem = r.mem
    BY <1>2 DEF Fits, Numbers
  <2>1. mem < Power(type.limbs)
    BY <1>2 DEF Fits
  <2>2. w = (mem \div Power(4)) * Power(4) + p
    OBVIOUS
  <2> HIDE DEF w
  <2>3. 4 \in Nat /\ 4 <= type.limbs
    BY <1>2, <1>3
  <2> QED BY <1>2, <1>4, <2>1, <2>2, <2>3, ReplaceLow, SMTT(60)
<1> PICK product : product = [mem |-> w, size |-> 4, sign |-> FALSE]
  OBVIOUS
<1>8. /\ type.signed => Finish(normalized([product EXCEPT !.sign = neg]))
      /\ ~type.signed /\ ~neg => Finish(normalized(product))
      /\ ~type.signed /\ neg /\ Checked => Throw(product)
      /\ ~type.signed /\ neg /\ ~Checked => Finish(Number((Modulus - p) % Modulus, 0))
  BY <1>2 DEF FourToNumber
<1> HIDE DEF w
<1>8a. product = [product EXCEPT !.sign = FALSE]
  <2>1. product \in Numbers /\ product.sign = FALSE
    BY <1>7 DEF Numbers
  <2> HIDE DEF w
  <2> QED BY <2>1 DEF Numbers
<1>9. ASSUME NEW o \in BOOLEAN, NEW e, e = [product EXCEPT !.sign = o]
      PROVE  /\ Fits(e, type) /\ Fits(normalized(e), type) /\ Magnitude(normalized(e)) = p
             /\ normalized(e).size = Size(p) /\ normalized(e).sign = (o /\ (type.fixed => p # 0))
  <2>1. e.mem = w /\ e.size = 4 /\ e.sign = o /\ e \in Numbers
    BY <1>7, <1>9 DEF Numbers
  <2>2. Fits(e, type)
    BY <1>3, <1>7, <2>1 DEF Fits
  <2>3. Magnitude(e) = p /\ e.size = 4
    BY <1>7, <2>1 DEF Magnitude
  <2>4. Magnitude(e) = (first * second) % Power(e.size) /\ first * second < Power(e.size)
    BY <1>4, <1>5, <2>3
  <2> QED BY <1>1, <1>5, <2>1, <2>2, <2>4, Normalized
<1>10. CASE type.signed \/ ~neg
  <2> PICK o : o = (type.signed /\ neg)
    OBVIOUS
  <2> PICK e : e = [product EXCEPT !.sign = o]
    OBVIOUS
  <2> PICK c : c = normalized(e)
    OBVIOUS
  <2>1. o \in BOOLEAN /\ (~type.signed => o = FALSE) /\ (type.signed => o = neg)
    BY <1>2
  <2>2. Finish(c)
    <3>1. CASE type.signed
      BY <1>8, <2>1, <3>1
    <3>2. CASE ~type.signed
      <4>1. e = product
        BY <1>8a, <2>1, <3>2
      <4> QED BY <1>8, <1>10, <3>2, <4>1
    <3> QED BY <1>2, <3>1, <3>2
  <2>3. /\ Fits(c, type) /\ Magnitude(c) = p /\ c.size = Size(p)
        /\ c.sign = (o /\ (type.fixed => p # 0))
    BY <1>9, <2>1
  <2>4. Value(c) = Kept(given1 * given2)
    <3>1. Value(c) = Signed(p, o /\ (type.fixed => p # 0))
      BY <2>3, Zenon DEF Value
    <3>2. CASE p = 0
      <4>1. \A x : Signed(p, x) = 0
        BY <3>2 DEF Signed
      <4>2. Kept(given1 * given2) = 0
        <5>1. CASE type.signed
          BY <1>6, <4>1, <5>1
        <5>2. CASE ~type.signed
          BY <1>6, <3>2, <5>2
        <5> QED BY <1>2, <5>1, <5>2
      <4> QED BY <3>1, <4>1, <4>2
    <3>3. CASE p # 0 /\ o
      <4>1. Value(c) = Signed(p, TRUE) /\ type.signed /\ negative
        BY <2>1, <3>1, <3>3, <1>2 DEF Signed
      <4> QED BY <1>6, <3>3, <4>1 DEF Signed
    <3>4. CASE p # 0 /\ ~o
      <4>1. Value(c) = p
        BY <3>1, <3>4, Zenon DEF Signed
      <4>2. ~negative
        BY <1>2, <1>10, <2>1, <3>4
      <4>3. Kept(given1 * given2) = p
        <5>1. CASE type.signed
          BY <1>6, <4>2, <5>1, Zenon DEF Signed
        <5>2. CASE ~type.signed
          BY <1>6, <4>2, <5>2
        <5> QED BY <1>2, <5>1, <5>2
      <4> QED BY <4>1, <4>3
    <3> QED BY <2>1, <3>2, <3>3, <3>4
  <2>5. Checked => Kept(given1 * given2) = given1 * given2
    BY <1>6, <1>10
  <2>6. c.sign => type.signed /\ (Magnitude(c) # 0 \/ SignStays)
    <3>1. CASE p # 0
      BY <2>1, <2>3, <3>1
    <3>2. CASE p = 0
      <4> SUFFICES ASSUME c.sign PROVE type.signed /\ SignStays
        OBVIOUS
      <4>1. o /\ ~type.fixed
        BY <1>2, <2>3, <3>2
      <4>2. type.signed /\ negative
        BY <2>1, <4>1
      <4> QED BY <4>1, <4>2 DEF SignStays
    <3> QED BY <3>1, <3>2
  <2>7. Correct(c)
    BY <1>4, <2>3, <2>4, <2>5, <2>6 DEF Correct
  <2> QED BY <1>1, <2>2, <2>3, <2>7, Finished
<1>11. CASE ~type.signed /\ neg /\ Checked
  <2>1. Throw(product) /\ Fits(product, type)
    <3>1. Fits(product, type)
      BY <1>9, <1>8a
    <3> QED BY <1>8, <1>11, <3>1
  <2> QED BY <1>1, <1>11, <2>1, Threw
<1>12. CASE ~type.signed /\ neg /\ ~Checked
  <2> PICK v : v = (Modulus - p) % Modulus
    OBVIOUS
  <2> PICK e : e = Number(v, 0)
    OBVIOUS
  <2>1. v \in Nat /\ v < Modulus /\ v = Kept(given1 * given2)
    <3>1. CASE p = 0
      <4>1. Modulus % Modulus = 0
        <5>1. Modulus \in Int /\ Modulus = Modulus * 1 + 0 /\ 0 \in 0 .. Modulus - 1
          BY <1>2
        <5> QED BY <1>2, <5>1, DivisionUnique
      <4>2. Modulus - p = Modulus
        BY <1>2, <3>1
      <4>3. v = 0
        BY <4>1, <4>2
      <4>4. Kept(given1 * given2) = 0
        BY <1>6, <1>12, <3>1
      <4> QED BY <1>2, <4>3, <4>4
    <3>2. CASE p # 0
      <4>1. Modulus - p \in Nat /\ Modulus - p < Modulus
        BY <1>2, <1>4, <3>2
      <4>2. v = Modulus - p
        BY <1>2, <4>1, Whole
      <4> QED BY <1>6, <1>12, <3>2, <4>1, <4>2
    <3> QED BY <3>1, <3>2
  <2>2. v \in Int /\ Abs(v) = v /\ ~(v < 0)
    BY <2>1 DEF Abs
  <2>3. v < Power(type.limbs) /\ 0 < Power(type.limbs)
    <3>1. Modulus <= Power(type.limbs) /\ Power(type.limbs) \in Nat
      BY <1>1, <1>2, ModulusFacts, PowerFacts
    <3> QED BY <1>2, <2>1, <3>1
  <2>4. Fits(e, type) /\ Holds(e, v)
    BY <1>2, <2>2, <2>3, NumberFacts
  <2>5. Value(e) = v /\ Magnitude(e) = v /\ e.size = Size(v) /\ e.sign = FALSE
    <3>1. Value(e) = v /\ Magnitude(e) = Abs(v)
      BY <1>2, <2>2, <2>4, HeldNumber
    <3>2. e.size = Size(v) /\ e.sign = (v < 0)
      BY <2>2, <2>4 DEF Holds
    <3>3. (v < 0) = FALSE
      BY <2>2
    <3> QED BY <2>2, <3>1, <3>2, <3>3
  <2>6. Finish(e)
    BY <1>8, <1>12
  <2>7. Correct(e)
    BY <1>12, <2>1, <2>5 DEF Correct
  <2> QED BY <1>1, <2>4, <2>6, <2>7, Finished
<1> QED BY <1>2, <1>10, <1>11, <1>12

LEMMA ProductOfDoubleLimbsKeeps ==
  ASSUME Inv, ProductOfDoubleLimbs
  PROVE  Inv'
<1>1. WellFormed /\ Operands /\ pc = "entered" /\ pc # "idle"
  BY DEF Inv, ProductOfDoubleLimbs, Entered
<1>2. first \in Nat /\ second \in Nat /\ given1 \in Int /\ given2 \in Int /\ negative \in BOOLEAN
  BY <1>1, Basics
<1>3. first = Abs(call.given[1]) /\ second = Abs(call.given[2])
  BY DEF first, second
<1>4. CASE call.fn = "double_limbs" /\ FourToNumber(FourLimbs(call.given[1], call.given[2]), FALSE)
  <2>1. given1 >= 0 /\ given2 >= 0 /\ first < Power(2) /\ second < Power(2)
    BY <1>1, <1>4 DEF Operands
  <2>2. call.given[1] = first /\ call.given[2] = second
    BY <1>2, <2>1 DEF first, second, given1, given2, Abs
  <2>3. FourLimbs(first, second) = first * second
    BY <1>2, <2>1, FourLimbsExact
  <2>4. negative = FALSE
    <3>1. (given1 < 0) = FALSE /\ (given2 < 0) = FALSE
      BY <1>2, <2>1
    <3> QED BY <3>1 DEF negative
  <2>5. FourToNumber(first * second, FALSE)
    BY <1>4, <2>2, <2>3
  <2> QED BY <1>1, <1>4, <2>4, <2>5, FourToNumberKeeps
<1>5. CASE /\ call.fn = "signed_double_limbs"
           /\ FourToNumber(FourSignedLimbs(Abs(call.given[1]), Abs(call.given[2])),
                           (call.given[1] < 0) # (call.given[2] < 0))
  <2>1. 2 * first < Power(2) /\ 2 * second < Power(2)
    BY <1>1, <1>5 DEF Operands
  <2>2. FourSignedLimbs(first, second) = first * second
    BY <1>2, <2>1, FourSignedLimbsExact
  <2>3. FourToNumber(first * second, negative)
    BY <1>3, <1>5, <2>2, Zenon DEF negative, given1, given2
  <2> QED BY <1>1, <1>2, <1>5, <2>3, FourToNumberKeeps
<1> QED BY <1>4, <1>5 DEF ProductOfDoubleLimbs, Entered

----------------------------------------------------------------------------
(* The beginning and the end of a call.                                    *)

\* When nothing runs, all is zero.
LEMMA InitHolds == Init => Inv
<1> SUFFICES ASSUME Init PROVE Inv
  OBVIOUS
<1> USE DEF Init
<1> PICK t : t = CHOOSE s \in Types : TRUE
  OBVIOUS
<1>1. t \in Types
  BY TypesAssumption
<1>2. call.type = t /\ call \in [type : Types, fn : Functions, a : Objects, b : Objects,
                                   given : Int \X Int]
  <2>1. call = [type |-> t, fn |-> "by_number", a |-> "u", b |-> "v", given |-> <<0, 0>>]
    BY DEF NoCall
  <2>2. "by_number" \in Functions /\ "u" \in Objects /\ "v" \in Objects /\ <<0, 0>> \in Int \X Int
    BY DEF Functions, Objects
  <2> HIDE DEF NoCall
  <2> QED BY <1>1, <2>1, <2>2
<1> PICK zero : zero = Number(0, 0)
  OBVIOUS
<1>3. Fits(zero, t)
  <2>1. t.limbs \in Nat /\ 0 \in Nat /\ 0 \in Int /\ Abs(0) = 0
    BY <1>1, TypeFacts DEF Abs
  <2>2. 0 < Power(t.limbs)
    BY <2>1, PowerFacts
  <2> QED BY <1>1, <2>1, <2>2, NumberFacts
<1>4. zero \in Numbers
  BY <1>3 DEF Fits
<1>5. num \in [Objects -> Numbers] /\ \A o \in Objects : Fits(num[o], type)
  BY <1>2, <1>3, <1>4 DEF type
<1>6. WellFormed
  <2>1. t.limbs \in Nat /\ 0 \in 0 .. Base - 1
    BY <1>1, TypeFacts, BaseAssumption
  <2>2. loop \in [i : 0..type.limbs, j : 0..type.limbs, val : 0 .. Base - 1,
                   carry : 0 .. Base - 1, neg : BOOLEAN]
    BY <1>2, <2>1 DEF NoLoop, type
  <2> QED BY <1>2, <1>5, <2>2 DEF WellFormed
<1>7. Operands /\ OnEntry /\ LimbsSoFar /\ RowsSoFar /\ MultipliesExactly
  BY DEF Operands, OnEntry, LimbsSoFar, RowsSoFar, MultipliesExactly
<1> QED BY <1>6, <1>7 DEF Inv

\* What is given to a call is what its operands hold.
LEMMA BeginKeeps ==
  ASSUME Inv, pc = "idle", NEW t \in Types, NEW f \in Functions,
         NEW x \in {"r", "u"}, NEW y \in {"r", "v"}, NEW n \in Int, NEW m \in Int,
         NEW dirt \in Nat, dirt < Power(t.limbs),
         Abs(n) < Power(t.limbs), Abs(m) < Power(t.limbs),
         x = "r" /\ y = "r" => n = m,
         f # "by_number" => y = "v",
         f = "by_number" /\ (n < 0 \/ m < 0) => t.signed,
         f \in {"by_limb", "by_signed_limb"} => Abs(m) \in 0 .. Base - 1,
         f = "by_limb" => m >= 0,
         f = "double_limbs" => n >= 0 /\ m >= 0,
         f \in {"double_limbs", "signed_double_limbs"} =>
           t.limbs >= 4 /\ t.top = Base /\ Abs(n) < Power(2) /\ Abs(m) < Power(2),
         f = "signed_double_limbs" => 2 * Abs(n) < Power(2) /\ 2 * Abs(m) < Power(2),
         Begin(t, f, x, y, n, m, dirt)
  PROVE  Inv'
<1> PICK nn : nn = Number(n, 0)
  OBVIOUS
<1> PICK mm : mm = Number(m, 0)
  OBVIOUS
<1> PICK v : v = IF y = "r" THEN m ELSE n
  OBVIOUS
<1> PICK rr : rr = Number(v, dirt)
  OBVIOUS
<1>1. /\ call' = [type |-> t, fn |-> f, a |-> x, b |-> y, given |-> <<n, m>>]
      /\ num' = [num EXCEPT !["u"] = nn, !["v"] = mm, !["r"] = rr]
      /\ pc' = "entered" /\ loop' = loop
  BY DEF Begin
<1>2. WellFormed /\ loop = NoLoop /\ t.limbs \in Nat /\ 0 < Power(t.limbs)
  <2>1. WellFormed /\ t.limbs \in Nat
    BY TypeFacts DEF Inv
  <2>2. loop = NoLoop
    BY <2>1 DEF WellFormed
  <2>3. 0 < Power(t.limbs)
    BY <2>1, PowerFacts
  <2> QED BY <2>1, <2>2, <2>3
<1>3. /\ Fits(nn, t) /\ Holds(nn, n) /\ Fits(mm, t) /\ Holds(mm, m)
  BY <1>2, NumberFacts
<1>4. Fits(rr, t) /\ Holds(rr, v)
  <2>1. v \in Int /\ Abs(v) < Power(t.limbs)
    OBVIOUS
  <2> QED BY <2>1, NumberFacts
<1>5. /\ call'.type = t /\ type' = t /\ call'.fn = f /\ call'.a = x /\ call'.b = y
      /\ given1' = n /\ given2' = m /\ first' = Abs(n) /\ second' = Abs(m)
  BY <1>1 DEF type, given1, given2, first, second
<1>6. nn \in Numbers /\ mm \in Numbers /\ rr \in Numbers
  BY <1>3, <1>4 DEF Fits
<1>7. num \in [Objects -> Numbers]
  BY <1>2 DEF WellFormed
<1>8. num' \in [Objects -> Numbers]
  BY <1>1, <1>6, <1>7
<1>9. num'["u"] = nn /\ num'["v"] = mm /\ num'["r"] = rr
  BY <1>1, <1>7 DEF Objects
<1>10. \A o \in Objects : Fits(num'[o], t)
  <2> SUFFICES ASSUME NEW o \in Objects PROVE Fits(num'[o], t)
    OBVIOUS
  <2>1. CASE o \in {"u", "v", "r"}
    BY <1>3, <1>4, <1>9, <2>1
  <2>2. CASE o \notin {"u", "v", "r"}
    <3>1. Abs(0) = 0 /\ 0 \in Int /\ 0 \in Nat
      BY DEF Abs
    <3>2. Fits(Number(0, 0), t)
      BY <1>2, <3>1, NumberFacts
    <3>3. num'[o] = num[o] /\ num[o] = Number(0, 0)
      BY <1>1, <1>2, <1>7, <2>2 DEF WellFormed
    <3> QED BY <3>2, <3>3
  <2> QED BY <2>1, <2>2
<1>11. WellFormed'
  <2>1. call' \in [type : Types, fn : Functions, a : Objects, b : Objects, given : Int \X Int]
    <3>1. x \in Objects /\ y \in Objects /\ <<n, m>> \in Int \X Int
      BY DEF Objects
    <3> QED BY <1>1, <3>1
  <2>2. loop' = NoLoop /\ 0 \in 0 .. t.limbs /\ 0 \in 0 .. Base - 1
    BY <1>1, <1>2, BaseAssumption
  <2>3. loop' \in [i : 0..type'.limbs, j : 0..type'.limbs, val : 0 .. Base - 1,
                   carry : 0 .. Base - 1, neg : BOOLEAN]
    BY <1>5, <2>2 DEF NoLoop
  <2> QED BY <1>1, <1>5, <1>8, <1>10, <2>1, <2>2, <2>3 DEF WellFormed
<1>12. Operands'
  BY <1>1, <1>3, <1>5, <1>9 DEF Operands
<1>13. OnEntry'
  <2>1. a' = num'[x] /\ b' = num'[y]
    BY <1>5 DEF a, b
  <2>2. x = "r" /\ (y = "v" \/ f = "by_number") => v = n
    <3>1. x = "r" /\ y = "r" => n = m
      OBVIOUS
    <3> QED BY <3>1
  <2>3. f \in {"by_number", "by_limb", "by_signed_limb"} => Holds(a', n)
    <3>1. CASE x = "u"
      BY <1>3, <1>9, <2>1, <3>1
    <3>2. CASE x = "r"
      <4>1. f \in {"by_limb", "by_signed_limb"} => y = "v"
        OBVIOUS
      <4>2. v = n
        BY <2>2, <3>2, <4>1
      <4> QED BY <1>4, <1>9, <2>1, <3>2, <4>2
    <3> QED BY <3>1, <3>2
  <2>4. Holds(b', m)
    <3>1. CASE y = "v"
      BY <1>3, <1>9, <2>1, <3>1
    <3>2. CASE y = "r"
      BY <1>4, <1>9, <2>1, <3>2
    <3> QED BY <3>1, <3>2
  <2> QED BY <1>5, <2>3, <2>4 DEF OnEntry
<1>14. LimbsSoFar' /\ RowsSoFar' /\ MultipliesExactly'
  BY <1>1 DEF LimbsSoFar, RowsSoFar, MultipliesExactly
<1> QED BY <1>11, <1>12, <1>13, <1>14 DEF Inv

\* What a type's numbers and limbs are bounded by
LEMMA InTypeFacts ==
  ASSUME NEW t \in Types, NEW v \in Int
  PROVE  /\ InType(v, t) => Abs(v) < Power(t.limbs) /\ (v < 0 => t.signed)
         /\ Abs(v) \in 0 .. Base - 1 => Abs(v) < Power(t.limbs)
         /\ Abs(v) < Power(2) => Abs(v) < Power(t.limbs)
<1> PICK e \in Nat \ {0} : Power(t.limbs) = RangeOf(t) * e
  BY TypeFacts
<1>1. RangeOf(t) \in Nat /\ t.limbs \in Nat /\ t.limbs >= 3 /\ Abs(v) \in Nat
  BY TypeFacts, Absolute
<1>2. RangeOf(t) <= Power(t.limbs)
  <2>1. RangeOf(t) * 1 <= RangeOf(t) * e /\ RangeOf(t) * 1 = RangeOf(t)
    BY <1>1, Monotone
  <2> QED BY <1>1, <2>1
<1>3. Power(2) <= Power(t.limbs) /\ Power(1) <= Power(2) /\ Power(1) = Base
  BY <1>1, PowersGrow, Square
<1>4. Power(t.limbs) \in Nat /\ Power(2) \in Nat /\ Base \in Nat
  BY <1>1, PowerFacts, BaseAssumption
<1>5. InType(v, t) => Abs(v) < RangeOf(t) /\ (v < 0 => t.signed)
  BY DEF InType, RangeOf
<1> QED BY <1>1, <1>2, <1>3, <1>4, <1>5

\* The limits of double limbs
LEMMA DoubleLimbFacts ==
  ASSUME NEW f \in {"double_limbs", "signed_double_limbs"}, NEW n \in DoubleLimbs(f)
  PROVE  /\ n \in Int /\ Abs(n) < Power(2)
         /\ f = "double_limbs" => n >= 0
         /\ f = "signed_double_limbs" => 2 * Abs(n) < Power(2)
<1> PICK p : p = Power(2)
  OBVIOUS
<1>1. p \in Nat
  BY Square
<1> PICK h : h = p \div 2
  OBVIOUS
<1>2. h \in Nat /\ 2 * h <= p
  BY <1>1, NaturalDivision
<1>3. CASE f = "double_limbs"
  <2>1. n \in 0 .. p - 1
    BY <1>3 DEF DoubleLimbs
  <2> QED BY <1>1, <1>3, <2>1 DEF Abs
<1>4. CASE f = "signed_double_limbs"
  <2>1. n \in 1 - h .. h - 1
    BY <1>4 DEF DoubleLimbs
  <2> QED BY <1>1, <1>2, <1>4, <2>1 DEF Abs
<1> QED BY <1>3, <1>4

LEMMA CallKeeps ==
  ASSUME Inv, Call
  PROVE  Inv'
<1>1. pc = "idle"
  BY DEF Call
<1> PICK t \in Types : LET InT == {v \in Values : InType(v, t)} IN
       \E dirt \in {0, Power(t.limbs) - 1} :
       \/ \E n, m \in InT, x \in {"r", "u"}, y \in {"r", "v"} :
            (x = "r" /\ y = "r" => n = m) /\ Begin(t, "by_number", x, y, n, m, dirt)
       \/ \E n \in InT, l \in Limbs, x \in {"r", "u"}, f \in {"by_limb", "by_signed_limb"} :
            (f = "by_limb" => l >= 0) /\ Begin(t, f, x, "v", n, l, dirt)
       \/ \E f \in {"double_limbs", "signed_double_limbs"} :
            /\ t.limbs >= 4 /\ t.top = Base
            /\ \E n, m \in DoubleLimbs(f) : Begin(t, f, "u", "v", n, m, dirt)
  BY DEF Call
<1> PICK dirt \in {0, Power(t.limbs) - 1} :
       \/ \E n, m \in {v \in Values : InType(v, t)}, x \in {"r", "u"}, y \in {"r", "v"} :
            (x = "r" /\ y = "r" => n = m) /\ Begin(t, "by_number", x, y, n, m, dirt)
       \/ \E n \in {v \in Values : InType(v, t)}, l \in Limbs, x \in {"r", "u"},
             f \in {"by_limb", "by_signed_limb"} :
            (f = "by_limb" => l >= 0) /\ Begin(t, f, x, "v", n, l, dirt)
       \/ \E f \in {"double_limbs", "signed_double_limbs"} :
            /\ t.limbs >= 4 /\ t.top = Base
            /\ \E n, m \in DoubleLimbs(f) : Begin(t, f, "u", "v", n, m, dirt)
  OBVIOUS
<1>2. dirt \in Nat /\ dirt < Power(t.limbs)
  <2>1. t.limbs \in Nat
    BY TypeFacts
  <2>2. Power(t.limbs) \in Nat \ {0}
    BY <2>1, PowerFacts
  <2> QED BY <2>2
<1>3. ASSUME NEW n \in Values, NEW m \in Values, InType(n, t), InType(m, t),
             NEW x \in {"r", "u"}, NEW y \in {"r", "v"}, x = "r" /\ y = "r" => n = m,
             Begin(t, "by_number", x, y, n, m, dirt)
      PROVE  Inv'
  <2>1. n \in Int /\ m \in Int /\ "by_number" \in Functions
    BY ValuesAssumption DEF Functions
  <2>2. Abs(n) < Power(t.limbs) /\ Abs(m) < Power(t.limbs) /\ (n < 0 \/ m < 0 => t.signed)
    BY <1>3, <2>1, InTypeFacts
  <2> QED BY <1>1, <1>2, <1>3, <2>1, <2>2, BeginKeeps
<1>4. ASSUME NEW n \in Values, NEW l \in Limbs, InType(n, t), NEW x \in {"r", "u"},
             NEW f \in {"by_limb", "by_signed_limb"}, f = "by_limb" => l >= 0,
             Begin(t, f, x, "v", n, l, dirt)
      PROVE  Inv'
  <2>1. n \in Int /\ l \in Int /\ Abs(l) \in 0 .. Base - 1 /\ f \in Functions
    BY ValuesAssumption, LimbsAssumption, BaseAssumption DEF Functions, Abs
  <2>2. Abs(n) < Power(t.limbs) /\ Abs(l) < Power(t.limbs)
    BY <1>4, <2>1, InTypeFacts
  <2> QED BY <1>1, <1>2, <1>4, <2>1, <2>2, BeginKeeps
<1>5. ASSUME NEW f \in {"double_limbs", "signed_double_limbs"}, t.limbs >= 4, t.top = Base,
             NEW n \in DoubleLimbs(f), NEW m \in DoubleLimbs(f),
             Begin(t, f, "u", "v", n, m, dirt)
      PROVE  Inv'
  <2>1. /\ n \in Int /\ Abs(n) < Power(2) /\ m \in Int /\ Abs(m) < Power(2) /\ f \in Functions
        /\ f = "double_limbs" => n >= 0 /\ m >= 0
        /\ f = "signed_double_limbs" => 2 * Abs(n) < Power(2) /\ 2 * Abs(m) < Power(2)
    BY <1>5, DoubleLimbFacts DEF Functions
  <2>2. Abs(n) < Power(t.limbs) /\ Abs(m) < Power(t.limbs)
    BY <2>1, InTypeFacts
  <2> QED BY <1>1, <1>2, <1>5, <2>1, <2>2, BeginKeeps
<1> QED BY <1>3, <1>4, <1>5

LEMMA ReturnKeeps ==
  ASSUME Inv, Return
  PROVE  Inv'
<1>1. loop = NoLoop
  BY DEF Inv, WellFormed, Return
<1>2. Init'
  BY <1>1 DEF Init, Return, NoLoop, NoCall, Objects, Number
<1>3. Init' => Inv'
  BY InitHolds, PTL
<1> QED BY <1>2, <1>3

LEMMA StutterKeeps ==
  ASSUME Inv, UNCHANGED vars
  PROVE  Inv'
<1> USE DEF vars, type, a, b, r, given1, given2, first, second, negative, Checked, Modulus,
            Multiplicand, Kept, SignStays, inner_limit
<1>1. WellFormed'
  BY DEF Inv, WellFormed
<1>2. Operands'
  BY DEF Inv, Operands
<1>3. OnEntry'
  BY DEF Inv, OnEntry
<1>4. LimbsSoFar'
  BY DEF Inv, LimbsSoFar
<1>5. RowsSoFar'
  BY DEF Inv, RowsSoFar
<1>6. MultipliesExactly'
  BY DEF Inv, MultipliesExactly
<1> QED BY <1>1, <1>2, <1>3, <1>4, <1>5, <1>6 DEF Inv

THEOREM Invariant == Spec => []Inv
<1>1. ASSUME Inv, [Next]_vars
      PROVE  Inv'
  <2>1. CASE Call
    BY <1>1, <2>1, CallKeeps
  <2>2. CASE ByLimb
    BY <1>1, <2>2, ByLimbKeeps
  <2>3. CASE BySignedLimb
    BY <1>1, <2>3, BySignedLimbKeeps
  <2>4. CASE LimbStep
    BY <1>1, <2>4, LimbStepKeeps
  <2>5. CASE LimbsDone
    BY <1>1, <2>5, LimbsDoneKeeps
  <2>6. CASE TwoLimbs
    BY <1>1, <2>6, TwoLimbsKeep
  <2>7. CASE NumberByLimb
    BY <1>1, <2>7, NumberByLimbKeeps
  <2>8. CASE CopyOperand
    BY <1>1, <2>8, CopyOperandKeeps
  <2>9. CASE BeginRows
    BY <1>1, <2>9, BeginRowsKeeps
  <2>10. CASE RowLimb
    BY <1>1, <2>10, RowLimbKeeps
  <2>11. CASE RowEnd
    BY <1>1, <2>11, RowEndKeeps
  <2>12. CASE RowsDone
    BY <1>1, <2>12, RowsDoneKeeps
  <2>13. CASE ProductOfDoubleLimbs
    BY <1>1, <2>13, ProductOfDoubleLimbsKeeps
  <2>14. CASE Return
    BY <1>1, <2>14, ReturnKeeps
  <2>15. CASE UNCHANGED vars
    BY <1>1, <2>15, StutterKeeps
  <2> QED BY <1>1, <2>1, <2>2, <2>3, <2>4, <2>5, <2>6, <2>7, <2>8, <2>9, <2>10, <2>11, <2>12,
             <2>13, <2>14, <2>15 DEF Next, Step
<1> QED BY <1>1, InitHolds, PTL DEF Spec

\* No carry is more than a limb and no number more than its type's limbs, whatever the
\* operands: what BOOST_MP_ASSERT states at multiply.hpp:483 and what every loop of
\* cpp_int/multiply.hpp leaves in the storage.
THEOREM LimbsAndCarriesFit == Spec => []TypeOK
<1>1. Inv => TypeOK
  <2> SUFFICES ASSUME Inv PROVE TypeOK
    OBVIOUS
  <2>1. WellFormed /\ type.limbs \in Nat
    BY Basics DEF Inv
  <2>2. Power(type.limbs) \in Nat
    BY <2>1, PowerFacts
  <2>3. ASSUME NEW o \in Objects
        PROVE  /\ num[o].mem \in 0 .. Power(type.limbs) - 1
               /\ num[o].size \in 1..type.limbs /\ num[o].sign \in BOOLEAN
    <3> PICK e : e = num[o]
      OBVIOUS
    <3>1. e \in Numbers /\ e.mem < Power(type.limbs) /\ e.size <= type.limbs
      BY <2>1 DEF WellFormed, Fits
    <3>2. e.mem \in Nat /\ e.size \in Nat \ {0} /\ e.sign \in BOOLEAN
      BY <3>1 DEF Numbers
    <3> QED BY <2>1, <2>2, <3>1, <3>2
  <2>4. call.type \in Types /\ call.fn \in Functions /\ call.a \in Objects /\ call.b \in Objects
    BY <2>1 DEF WellFormed
  <2>5. /\ pc \in {"idle", "entered", "limbs", "rows", "returned", "threw"}
        /\ loop \in [i : 0..type.limbs, j : 0..type.limbs, val : 0 .. Base - 1,
                     carry : 0 .. Base - 1, neg : BOOLEAN]
    BY <2>1 DEF WellFormed
  <2> QED BY <2>3, <2>4, <2>5 DEF TypeOK
<1> QED BY <1>1, Invariant, PTL

\* Every product that eval_multiply returns is exact, or what the type keeps of it, in
\* normal form, also where the result is an operand and whatever its memory held; only
\* a checked type throws, when the product does not fit or would be negative in an
\* unsigned type.  Karatsuba's recursion ends in these products.
THEOREM ProductsAreExact == Spec => []MultipliesExactly
<1>1. Inv => MultipliesExactly
  BY DEF Inv
<1> QED BY <1>1, Invariant, PTL

\* In between, the rows that eval_multiply adds up (multiply.hpp:440) and the limbs it
\* replaces in place (multiply.hpp:50) are the product of what has been used, as far as
\* there is room for it: no carry is lost on the way.
THEOREM RowsAddUp == Spec => []PartialProducts
<1>1. Inv => PartialProducts
  <2> SUFFICES ASSUME Inv PROVE PartialProducts
    OBVIOUS
  <2>1. ASSUME pc = "limbs"
        PROVE  LET n == Multiplicand
               IN /\ (r.mem % Power(loop.i)) + loop.carry * Power(loop.i)
                       = (n % Power(loop.i)) * loop.val
                  /\ a.size = Size(n)
                  /\ \A k \in loop.i .. a.size - 1 : Limb(a.mem, k) = Limb(n, k)
    BY <2>1 DEF Inv, LimbsSoFar
  <2>2. ASSUME pc = "rows"
        PROVE  LET done == (first % Power(loop.i)) * second
                   row == IF loop.i = a.size THEN 0
                          ELSE Limb(first, loop.i) * (second % Power(loop.j)) * Power(loop.i)
                   shown == Magnitude(r) + loop.carry * Power(loop.i + loop.j)
               IN (done + row - shown) % Power(r.size) = 0
    <3>1. RowsSoFar
      BY <2>2 DEF Inv
    <3>2. /\ first \in Nat /\ second \in Nat /\ loop.i \in Nat /\ loop.j \in Nat
          /\ loop.carry \in 0 .. Base - 1 /\ Magnitude(r) \in Nat
      BY <2>2, RowsFacts
    <3> DEFINE done == (first % Power(loop.i)) * second
               row == Limb(first, loop.i) * (second % Power(loop.j)) * Power(loop.i)
               shown == Magnitude(r) + loop.carry * Power(loop.i + loop.j)
    <3>3. (done + row - shown) % Power(r.size) = 0
      <4> PICK excess : excess = Excess(first, second, loop.i, loop.j, Magnitude(r), loop.carry)
        OBVIOUS
      <4>1. excess % Power(r.size) = 0
        BY <2>2, <3>1 DEF RowsSoFar
      <4>2. excess = done + row - shown
        BY Zenon DEF Excess
      <4> QED BY <4>1, <4>2
    <3>4. loop.i = a.size => row = 0
      <4> SUFFICES ASSUME loop.i = a.size PROVE row = 0
        OBVIOUS
      <4>1. loop.j = 0
        BY <2>2, <3>1 DEF RowsSoFar
      <4> PICK n \in Nat : n = first
        BY <3>2
      <4> PICK m \in Nat : m = second
        BY <3>2
      <4> PICK i \in Nat : i = loop.i
        BY <3>2
      <4>2. m % Power(0) = 0
        <5>1. m % Power(0) \in 0 .. Power(0) - 1 /\ Power(0) = 1
          BY Parts, PowerFacts
        <5> QED BY <5>1
      <4>3. Limb(n, i) \in Nat /\ Power(i) \in Nat
        BY LimbFacts, PowerFacts, Zenon
      <4>4. Limb(n, i) * 0 * Power(i) = 0
        BY <4>3
      <4> QED BY <4>1, <4>2, <4>4
    <3> HIDE DEF done, row, shown
    <3>5. (done + (IF loop.i = a.size THEN 0 ELSE row) - shown) % Power(r.size) = 0
      BY <3>3, <3>4
    <3> QED BY <3>5, Zenon DEF done, row, shown
  <2> QED BY <2>1, <2>2, Zenon DEF PartialProducts
<1> QED BY <1>1, Invariant, PTL

----------------------------------------------------------------------------
(* Square roots: the root of a number, and that of a machine word.         *)

IsFloor(s, n) == s \in Nat /\ s * s <= n /\ n < (s + 1) * (s + 1)

\* Squares are ordered as their roots.
LEMMA SquaresGrow ==
  ASSUME NEW s \in Nat, NEW t \in Nat
  PROVE  /\ s * s \in Nat /\ (s + 1) * (s + 1) = s * s + 2 * s + 1
         /\ s <= t <=> s * s <= t * t
<1>1. s * s \in Nat /\ t * t \in Nat /\ s * t \in Nat /\ s * t = t * s
  BY Products
<1>2. (s + 1) * (s + 1) = s * s + 2 * s + 1
  BY SMT
<1>3. ASSUME s <= t PROVE s * s <= t * t
  <2>1. s * s <= t * s /\ t * s <= t * t
    BY <1>3, Monotone
  <2> QED BY <1>1, <2>1
<1>4. ASSUME t < s PROVE t * t < s * s
  <2>1. (t + 1) * (t + 1) = t * t + 2 * t + 1
    BY SMT
  <2>2. t + 1 \in Nat /\ t + 1 <= s
    BY <1>4
  <2>3. (t + 1) * (t + 1) <= s * (t + 1) /\ s * (t + 1) <= s * s
    BY <2>2, Monotone
  <2> QED BY <1>1, <2>1, <2>2, <2>3, Products
<1> QED BY <1>1, <1>2, <1>3, <1>4

\* Every number has one root.
LEMMA OneRoot ==
  ASSUME NEW n \in Nat
  PROVE  /\ \E s : IsFloor(s, n)
         /\ \A s, t : IsFloor(s, n) /\ IsFloor(t, n) => s = t
<1>1. \E s : IsFloor(s, n)
  <2> DEFINE S == {t \in Nat : n < t * t}
  <2>1. n + 1 \in S
    <3>1. (n + 1) * (n + 1) = n * n + 2 * n + 1 /\ n * n \in Nat
      BY SquaresGrow
    <3> QED BY <3>1
  <2>2. PICK t \in S : \A u \in S : t <= u
    BY <2>1, LeastNatural
  <2>3. t \in Nat /\ n < t * t
    BY <2>2
  <2>4. t # 0
    BY <2>3, Products
  <2> DEFINE s == t - 1
  <2>5. s \in Nat /\ s + 1 = t
    BY <2>3, <2>4
  <2>6. s \notin S
    BY <2>2, <2>5
  <2>7. s * s <= n
    BY <2>5, <2>6, Products
  <2> QED BY <2>3, <2>5, <2>7 DEF IsFloor
<1>2. ASSUME NEW s, NEW t, IsFloor(s, n), IsFloor(t, n) PROVE s <= t
  <2>1. s \in Nat /\ t \in Nat /\ s * s <= n /\ n < (t + 1) * (t + 1)
    BY <1>2 DEF IsFloor
  <2>2. s * s \in Nat /\ t + 1 \in Nat /\ (t + 1) * (t + 1) \in Nat
    BY <2>1, Products
  <2>3. ~((t + 1) * (t + 1) <= s * s)
    BY <2>1, <2>2
  <2>4. ~(t + 1 <= s)
    BY <2>1, <2>2, <2>3, SquaresGrow
  <2> QED BY <2>1, <2>4
<1>3. ASSUME NEW s, NEW t, IsFloor(s, n), IsFloor(t, n) PROVE s = t
  <2>1. s <= t /\ t <= s
    BY <1>2, <1>3
  <2> QED BY <1>3, <2>1 DEF IsFloor
<1> QED BY <1>1, <1>3

\* The root and what remains of the number
LEMMA RootOfFloor ==
  ASSUME NEW n \in Nat, NEW s, IsFloor(s, n)
  PROVE  IsRoot(s, n - s * s, n)
<1>1. s \in Nat /\ s * s \in Nat /\ (s + 1) * (s + 1) = s * s + 2 * s + 1
  BY SquaresGrow DEF IsFloor
<1> DEFINE ss == s * s
           l == n - ss
<1>2. ss \in Nat /\ ss <= n /\ n < ss + 2 * s + 1
  BY <1>1 DEF IsFloor
<1> HIDE DEF ss
<1>3. l \in 0 .. 2 * s /\ n = ss + l
  BY <1>1, <1>2
<1> QED BY <1>1, <1>3 DEF IsRoot, ss

LEMMA FloorOfRoot ==
  ASSUME NEW n \in Nat, NEW s, NEW l, IsRoot(s, l, n)
  PROVE  IsFloor(s, n) /\ l = n - s * s /\ l \in Nat
<1>1. s \in Nat /\ l \in 0 .. 2 * s /\ n = s * s + l
  BY DEF IsRoot
<1>2. s * s \in Nat /\ (s + 1) * (s + 1) = s * s + 2 * s + 1
  BY <1>1, SquaresGrow
<1> DEFINE ss == s * s
<1>3. ss \in Nat /\ n = ss + l /\ (s + 1) * (s + 1) = ss + 2 * s + 1
  BY <1>1, <1>2
<1> HIDE DEF ss
<1>4. ss <= n /\ n < ss + 2 * s + 1 /\ l = n - ss /\ l \in Nat
  BY <1>1, <1>3
<1> QED BY <1>1, <1>3, <1>4 DEF IsFloor, ss

\* Two bits more
LEMMA NextBits ==
  ASSUME NEW n \in Nat, NEW h, IsFloor(h, n \div 4)
  PROVE  IsFloor(IF (2 * h + 1) * (2 * h + 1) <= n THEN 2 * h + 1 ELSE 2 * h, n)
<1> DEFINE k == n \div 4
           hh == h * h
           s == 2 * h
<1>1. k \in Nat /\ 4 * k <= n /\ n < 4 * k + 4
  OBVIOUS
<1>2. h \in Nat /\ hh \in Nat /\ (h + 1) * (h + 1) = hh + 2 * h + 1 /\ hh <= k
      /\ k < (h + 1) * (h + 1)
  BY SquaresGrow DEF IsFloor
<1>3. s \in Nat /\ s * s = 4 * hh
  BY <1>2, SMT
<1>4. (s + 2) * (s + 2) = 4 * hh + 8 * h + 4
  BY <1>2, SMT
<1> HIDE DEF k, hh
<1>5. 4 * hh <= n /\ n < 4 * hh + 8 * h + 4
  BY <1>1, <1>2
<1>6. s + 1 \in Nat /\ (s + 1) + 1 = s + 2
  BY <1>2
<1> HIDE DEF s
<1> DEFINE odd == (s + 1) * (s + 1)
<1>7. CASE odd <= n
  <2>1. IsFloor(s + 1, n)
    BY <1>4, <1>5, <1>6, <1>7 DEF IsFloor
  <2> QED BY <1>7, <2>1 DEF s
<1>8. CASE ~(odd <= n)
  <2>1. odd \in Nat
    BY <1>6, Products
  <2>2. IsFloor(s, n)
    BY <1>3, <1>5, <1>8, <2>1 DEF IsFloor
  <2> QED BY <1>8, <2>2 DEF s
<1> QED BY <1>7, <1>8

\* The root by definition is the root.
LEMMA FloorRootIsFloor ==
  ASSUME NEW n \in Nat
  PROVE  IsFloor(FloorRoot(n), n)
<1> DEFINE step(g) == [m \in Nat |->
                         IF m = 0 THEN 0
                         ELSE LET s == 2 * g[m \div 4]
                              IN IF (s + 1) * (s + 1) <= m THEN s + 1 ELSE s]
           floor == CHOOSE g : g = step(g)
           f == [m \in Nat |-> CHOOSE s : IsFloor(s, m)]
<1>1. \A m \in Nat : IsFloor(f[m], m)
  BY OneRoot
<1> HIDE DEF f
<1>2. \A g : \A m \in Nat : (m # 0 => IsFloor(g[m \div 4], m \div 4)) => IsFloor(step(g)[m], m)
  <2> SUFFICES ASSUME NEW g, NEW m \in Nat, m # 0 => IsFloor(g[m \div 4], m \div 4)
               PROVE  IsFloor(step(g)[m], m)
    OBVIOUS
  <2>1. CASE m = 0
    <3>1. step(g)[m] = 0 /\ IsFloor(0, 0)
      BY <2>1 DEF IsFloor
    <3> QED BY <2>1, <3>1
  <2>2. CASE m # 0
    <3> DEFINE h == g[m \div 4]
    <3>1. IsFloor(IF (2 * h + 1) * (2 * h + 1) <= m THEN 2 * h + 1 ELSE 2 * h, m)
      BY <2>2, NextBits
    <3>2. step(g)[m] = IF (2 * h + 1) * (2 * h + 1) <= m THEN 2 * h + 1 ELSE 2 * h
      BY <2>2
    <3> HIDE DEF h, step
    <3> QED BY <3>1, <3>2
  <2> QED BY <2>1, <2>2
<1>3. f = step(f)
  <2>1. ASSUME NEW m \in Nat PROVE f[m] = step(f)[m]
    <3>1. m \div 4 \in Nat
      OBVIOUS
    <3>2. IsFloor(step(f)[m], m) /\ IsFloor(f[m], m)
      BY <1>1, <1>2, <3>1
    <3> HIDE DEF step
    <3> QED BY <3>2, OneRoot
  <2>2. f = [m \in Nat |-> f[m]]
    BY DEF f
  <2> QED BY <2>1, <2>2
<1>4. floor = step(floor)
  BY <1>3
<1>5. FloorRoot(n) = floor[n]
  BY Zenon DEF FloorRoot
<1> HIDE DEF floor
<1> DEFINE S == {m \in Nat : ~IsFloor(floor[m], m)}
<1>6. S = {}
  <2>1. SUFFICES ASSUME S # {} PROVE FALSE
    OBVIOUS
  <2>2. PICK m \in S : \A l \in S : m <= l
    BY <2>1, LeastNatural
  <2>3. floor[m] = step(floor)[m]
    BY <1>4, Zenon
  <2>4. m # 0 => m \div 4 \in Nat /\ m \div 4 < m
    OBVIOUS
  <2>5. m # 0 => m \div 4 \notin S
    BY <2>2, <2>4
  <2>6. IsFloor(step(floor)[m], m)
    BY <1>2, <2>2, <2>4, <2>5
  <2> HIDE DEF step
  <2> QED BY <2>2, <2>3, <2>6
<1> QED BY <1>5, <1>6

\* The root of a word, whatever the estimate of the processor was
LEMMA NativeRoot ==
  ASSUME NEW x \in Nat, NEW e \in Estimates(x)
  PROVE  LET top == Native(x, e) IN IsFloor(top.s, x) /\ IsRoot(top.s, top.r, x) /\ top.lost = {}
<1> DEFINE f == FloorRoot(x)
           s == sqrt_uint64_t(x, e)
<1>1. IsFloor(f, x) /\ e \in {f - 1, f} /\ e >= 0
  BY FloorRootIsFloor DEF Estimates
<1>2. f \in Nat /\ f * f <= x /\ x < (f + 1) * (f + 1)
  BY <1>1 DEF IsFloor
<1>3. f * f \in Nat /\ (f + 1) * (f + 1) = f * f + 2 * f + 1
  BY <1>2, SquaresGrow
<1> HIDE DEF f
<1>4. s = f
  <2>1. CASE e = f
    <3> DEFINE ff == f * f
    <3>1. ff \in Nat /\ ff <= x /\ x < ff + 2 * f + 1
      BY <1>2, <1>3
    <3> HIDE DEF ff
    <3>2. ~(2 * f < x - ff)
      BY <1>2, <3>1
    <3> QED BY <2>1, <3>2 DEF sqrt_uint64_t, ff
  <2>2. CASE e = f - 1
    <3> DEFINE ee == e * e
    <3>1. e \in Nat /\ e + 1 = f
      BY <1>1, <1>2, <2>2
    <3>2. ee \in Nat /\ f * f = ee + 2 * e + 1
      BY <3>1, SquaresGrow
    <3> HIDE DEF ee
    <3>3. 2 * e < x - ee
      BY <1>2, <3>1, <3>2
    <3> QED BY <3>1, <3>3 DEF sqrt_uint64_t, ee
  <2> QED BY <1>1, <2>1, <2>2
<1>5. IsRoot(s, x - s * s, x) /\ IsFloor(s, x)
  BY <1>1, <1>4, RootOfFloor
<1>6. /\ Native(x, e).s = s /\ Native(x, e).r = x - s * s /\ Native(x, e).lost = {}
  BY DEF Native
<1> QED BY <1>5, <1>6

----------------------------------------------------------------------------
(* Square roots: the base cases.                                           *)

OfRoots == INSTANCE LimbNumbersProofs WITH Base <- Half * Half

RootBase == Half * Half
OneAndAHalf == RootBase * Half

\* The widths of a limb's parts, of a limb and of a word
LEMMA Widths ==
  /\ Quarter \in Nat /\ Half \in Nat /\ RootBase \in Nat /\ OneAndAHalf \in Nat
  /\ ThreeQuarters \in Nat /\ Word \in Nat
  /\ Half >= 4 /\ ThreeQuarters >= 2 /\ ThreeQuarters = 2 * (ThreeQuarters \div 2)
  /\ 4 * Half <= RootBase /\ 4 * RootBase <= OneAndAHalf /\ 4 * OneAndAHalf <= Word
  /\ Word = Half * OneAndAHalf /\ Word = RootBase * RootBase
  /\ ThreeQuarters * ThreeQuarters = OneAndAHalf
  /\ OneAndAHalf * OneAndAHalf = (RootBase * RootBase) * RootBase
<1> DEFINE c == Quarter
           k == c \div 2
           h == Half
           l == RootBase
           m == OneAndAHalf
           t == ThreeQuarters
           w == Word
<1>1. c \in Nat /\ c >= 2 /\ k \in Nat /\ k >= 1 /\ c = 2 * k
  BY QuarterAssumption
<1>2. h = c * c /\ l = h * h /\ m = l * h /\ t = h * c /\ w = (h * h) * (h * h)
  BY DEF Half, RootBase, OneAndAHalf, ThreeQuarters, Word
<1> HIDE DEF c, k, h, l, m, t, w
<1>3. h \in Nat /\ l \in Nat /\ m \in Nat /\ t \in Nat /\ w \in Nat
  BY <1>1, <1>2, Products
<1>4. h >= 4
  <2>1. 2 * c <= c * c
    BY <1>1, Monotone
  <2> QED BY <1>1, <1>2, <2>1
<1>5. 4 * h <= l /\ 4 * l <= m
  <2>1. 4 * h <= h * h /\ 4 * l <= h * l /\ h * l = l * h
    BY <1>3, <1>4, Monotone, Products
  <2> QED BY <1>2, <1>3, <2>1
<1>6. w = h * m /\ w = l * l
  <2>1. l * l = l * (h * h) /\ l * (h * h) = (l * h) * h /\ (l * h) * h = h * (l * h)
    BY <1>2, <1>3, Products
  <2> QED BY <1>2, <2>1
<1>7. 4 * m <= w
  BY <1>3, <1>4, <1>6, Monotone
<1>8. t * t = m
  <2>1. t * t = (h * c) * (h * c) /\ (h * c) * (h * c) = (h * h) * (c * c)
    BY <1>1, <1>2, <1>3, SMT
  <2> QED BY <1>2, <2>1
<1>9. t = 2 * (h * k) /\ h * k \in Nat /\ h * k >= 4
  <2>1. h * (2 * k) = 2 * (h * k) /\ h * k \in Nat
    BY <1>1, <1>3, SMT
  <2>2. h * 1 <= h * k
    BY <1>1, <1>3, Monotone
  <2> QED BY <1>1, <1>2, <1>3, <1>4, <2>1, <2>2
<1>10. t \div 2 = h * k
  <2> DEFINE n == h * k
  <2>1. n \in Nat /\ t = 2 * n
    BY <1>9
  <2> HIDE DEF n
  <2>2. t \div 2 = n
    BY <2>1
  <2> QED BY <2>2 DEF n
<1>11. m * m = (l * l) * l
  BY <1>2, <1>3, SMT
<1> QED BY <1>1, <1>3, <1>4, <1>5, <1>6, <1>7, <1>8, <1>9, <1>10, <1>11
        DEF c, h, l, m, t, w

\* One level of the root, of a number that is cut into digits
LEMMA LevelRoot ==
  ASSUME NEW x \in Nat, NEW d \in Nat \ {0}, NEW t, NEW k, IsRoot(t, k, x \div (d * d)),
         d <= 2 * t
  PROVE  LET low == LowerHalf(t, k, d, (x \div d) % d, x % d)
         IN IsRoot(low.s, low.r, x) /\ (x \div d) % d \in 0 .. d - 1 /\ x % d \in 0 .. d - 1
<1> DEFINE n == x \div (d * d)
           y == x \div d
           a1 == y % d
           a0 == x % d
           low == LowerHalf(t, k, d, a1, a0)
<1>9. x \in Int
  OBVIOUS
<1>1. y \in Nat /\ a0 \in 0 .. d - 1 /\ x = d * y + a0
  <2> HIDE DEF low
  <2> QED BY <1>9, Division, NaturalDivision, Zenon
<1>2. n = y \div d
  BY DivisionTwice, Zenon
<1>3. n \in Nat /\ a1 \in 0 .. d - 1 /\ y = d * n + a1
  <2> HIDE DEF y
  <2>1. y \in Int
    BY <1>1
  <2> QED BY <1>1, <1>2, <2>1, Division, NaturalDivision, Zenon
<1>4. t \in Nat \ {0} /\ k \in Nat
  BY DEF IsRoot
<1> HIDE DEF n, a0, a1, y
<1>5. x = n * (d * d) + a1 * d + a0
  <2>1. d * (d * n + a1) = n * (d * d) + a1 * d
    BY <1>3, SMT
  <2> QED BY <1>1, <1>3, <2>1
<1>6. IsRoot(t, k, n)
  BY DEF n
<1>7. IsRoot(low.s, low.r, n * (d * d) + a1 * d + a0)
  BY <1>3, <1>1, <1>4, <1>6, OneCorrectionSuffices
<1>8. IsRoot(low.s, low.r, x)
  BY <1>5, <1>7
<1> QED BY <1>1, <1>3, <1>8 DEF a0, a1, y

\* A root is less than a number if that is more than the root of the square.
LEMMA RootLess ==
  ASSUME NEW x \in Nat, NEW t, IsFloor(t, x), NEW w \in Nat
  PROVE  /\ x < w * w => t < w
         /\ w * w <= x => w <= t
<1>1. t \in Nat /\ t * t <= x /\ x < (t + 1) * (t + 1)
  BY DEF IsFloor
<1>2. t * t \in Nat /\ w * w \in Nat /\ (t + 1) * (t + 1) \in Nat /\ t + 1 \in Nat
  BY <1>1, Products
<1>3. ASSUME x < w * w PROVE t < w
  <2>1. ~(w * w <= t * t)
    BY <1>1, <1>2, <1>3
  <2>2. ~(w <= t)
    BY <1>1, <2>1, SquaresGrow
  <2> QED BY <1>1, <2>2
<1>4. ASSUME w * w <= x PROVE w <= t
  <2>1. ~((t + 1) * (t + 1) <= w * w)
    BY <1>1, <1>2, <1>4
  <2>2. ~(t + 1 <= w)
    BY <1>2, <2>1, SquaresGrow
  <2> QED BY <1>1, <2>2
<1> QED BY <1>3, <1>4

\* Three limbs: the root is right, and nothing is lost.
LEMMA ThreeLimbsRoot ==
  ASSUME NEW x \in Nat, x \div RootBase < Word,
         RootBase <= x \div RootBase, NEW e \in Estimates(x \div RootBase)
  PROVE  IsRoot(OfThreeLimbs(x, e).s, OfThreeLimbs(x, e).r, x) /\ OfThreeLimbs(x, e).lost = {}
<1> DEFINE h == Half
           val == x \div (h * h)
           a0 == x % h
           a1 == (x \div h) % h
           top == Native(val, e)
           t == top.s
           k == top.r
           q == NextDigits(t, k, h, a1)
           u == NextRest(t, k, h, a1)
           low == LowerHalf(t, k, h, a1, a0)
           vp == k * h + a1
           s == t * h + q
           rp == u * h + a0
<1>1. /\ h \in Nat /\ h >= 4 /\ RootBase \in Nat /\ OneAndAHalf \in Nat /\ Word \in Nat
      /\ 4 * h <= RootBase /\ 4 * RootBase <= OneAndAHalf /\ 4 * OneAndAHalf <= Word
      /\ Word = RootBase * RootBase /\ RootBase = h * h /\ OneAndAHalf = RootBase * h
  BY Widths DEF RootBase, OneAndAHalf
<1>2. OfThreeLimbs(x, e) =
        [s |-> low.s, r |-> low.r,
         lost |-> UNION {Unfit("val", val), Unfit("val_prime", vp), Unfit("q * q", q * q),
                         Unfit("s", s), Unfit("r_prime", rp)}]
  BY DEF OfThreeLimbs
<1> HIDE DEF h
<1>3. val = x \div RootBase /\ val \in Nat
  <2>1. RootBase \in Nat \ {0}
    BY <1>1
  <2> QED BY <1>1, <2>1, NaturalDivision
<1>4. IsFloor(t, val) /\ IsRoot(t, k, val)
  BY <1>3, NativeRoot
<1> HIDE DEF top
<1>5. t < RootBase /\ h <= t
  <2>1. val < RootBase * RootBase /\ h * h <= val
    BY <1>1, <1>3
  <2> QED BY <1>1, <1>3, <1>4, <2>1, RootLess
<1>6. t \in Nat \ {0} /\ k \in 0 .. 2 * t
  BY <1>1, <1>4, <1>5 DEF IsRoot
<1>7. IsRoot(low.s, low.r, x) /\ a1 \in 0 .. h - 1 /\ a0 \in 0 .. h - 1
  <2>1. h \in Nat \ {0} /\ h <= 2 * t /\ IsRoot(t, k, x \div (h * h))
    BY <1>1, <1>4, <1>5, <1>6
  <2> HIDE DEF t, k
  <2> QED BY <2>1, LevelRoot
<1>8. q \in 0 .. h /\ u \in 0 .. 2 * t - 1
  <2>1. h \in Nat \ {0} /\ h <= 2 * t
    BY <1>1, <1>5, <1>6
  <2> QED BY <1>6, <1>7, <2>1, DigitBounded
<1> HIDE DEF q, u, a0, a1, t, k, low, val
<1> DEFINE B == RootBase
           m == OneAndAHalf
<1>9. B \in Nat /\ m \in Nat /\ 4 * h <= B /\ 4 * B <= m /\ 4 * m <= Word /\ B = h * h
      /\ m = B * h
  BY <1>1
<1> HIDE DEF B, m
<1>10. t <= B - 1 /\ t \in Nat
  BY <1>5, <1>6, <1>9 DEF B
<1>11. vp \in 0 .. Word - 1
  <2>1. k * h <= (2 * (B - 1)) * h /\ (2 * (B - 1)) * h = 2 * m - 2 * h /\ k * h \in Nat
    <3>1. k <= 2 * (B - 1) /\ k \in Nat
      BY <1>6, <1>9, <1>10
    <3>2. (2 * (B - 1)) * h = 2 * (B * h) - 2 * h
      BY <1>1, <1>9, SMT
    <3> QED BY <1>1, <1>9, <3>1, <3>2, Monotone, Products
  <2> DEFINE kh == k * h
  <2>2. kh \in Nat /\ kh <= 2 * m - 2 * h
    BY <1>1, <1>9, <2>1
  <2> HIDE DEF kh
  <2>3. kh + a1 \in 0 .. Word - 1
    BY <1>1, <1>7, <1>9, <2>2
  <2> QED BY <2>3 DEF kh
<1>12. q * q \in 0 .. Word - 1
  <2>1. q \in Nat /\ q * q <= h * h /\ q * q \in Nat
    BY <1>1, <1>8, SquaresGrow
  <2> DEFINE qq == q * q
  <2>2. qq <= B /\ qq \in Nat
    BY <1>9, <2>1
  <2> HIDE DEF qq
  <2>3. qq \in 0 .. Word - 1
    BY <1>1, <1>9, <2>2
  <2> QED BY <2>3 DEF qq
<1>13. s \in 0 .. Word - 1
  <2>1. t * h <= (B - 1) * h /\ (B - 1) * h = m - h /\ t * h \in Nat
    <3>1. (B - 1) * h = (B * h) - h
      BY <1>1, <1>9, SMT
    <3> QED BY <1>1, <1>9, <1>10, <3>1, Monotone, Products
  <2> DEFINE th == t * h
  <2>2. th \in Nat /\ th <= m - h
    BY <1>1, <1>9, <2>1
  <2> HIDE DEF th
  <2>3. th + q \in 0 .. Word - 1
    BY <1>1, <1>8, <1>9, <2>2
  <2> QED BY <2>3 DEF th
<1>14. rp \in 0 .. Word - 1
  <2>1. u * h <= (2 * (B - 1)) * h /\ (2 * (B - 1)) * h = 2 * m - 2 * h /\ u * h \in Nat
    <3>1. u <= 2 * (B - 1) /\ u \in Nat
      BY <1>8, <1>9, <1>10
    <3>2. (2 * (B - 1)) * h = 2 * (B * h) - 2 * h
      BY <1>1, <1>9, SMT
    <3> QED BY <1>1, <1>9, <3>1, <3>2, Monotone, Products
  <2> DEFINE uh == u * h
  <2>2. uh \in Nat /\ uh <= 2 * m - 2 * h
    BY <1>1, <1>9, <2>1
  <2> HIDE DEF uh
  <2>3. uh + a0 \in 0 .. Word - 1
    BY <1>1, <1>7, <1>9, <2>2
  <2> QED BY <2>3 DEF uh
<1>15. val \in 0 .. Word - 1
  BY <1>1, <1>3
<1> HIDE DEF vp, s, rp
<1>16. /\ Unfit("val", val) = {} /\ Unfit("val_prime", vp) = {} /\ Unfit("q * q", q * q) = {}
       /\ Unfit("s", s) = {} /\ Unfit("r_prime", rp) = {}
  BY <1>11, <1>12, <1>13, <1>14, <1>15, Zenon DEF Unfit
<1>17. UNION {{}, {}, {}, {}, {}} = {}
  OBVIOUS
<1>18. /\ OfThreeLimbs(x, e).s = low.s /\ OfThreeLimbs(x, e).r = low.r
       /\ OfThreeLimbs(x, e).lost = {}
  <2> DEFINE losses == {Unfit("val", val), Unfit("val_prime", vp), Unfit("q * q", q * q),
                        Unfit("s", s), Unfit("r_prime", rp)}
  <2>1. OfThreeLimbs(x, e) = [s |-> low.s, r |-> low.r, lost |-> UNION losses]
    BY <1>2, Zenon
  <2>2. UNION losses = {}
    BY <1>16, <1>17, Zenon
  <2> HIDE DEF losses
  <2> QED BY <2>1, <2>2
<1> QED BY <1>7, <1>18, Zenon

\* What sqrt_uint64_t is called for, of two or three limbs
NativeOf(x) == IF x < Word THEN x ELSE x \div RootBase

\* Two or three limbs
LEMMA TwoOrThreeLimbsRoot ==
  ASSUME NEW x \in Nat, x < RootBase * Word,
         NEW e \in Estimates(NativeOf(x))
  PROVE  /\ IsRoot(OfTwoOrThreeLimbs(x, e).s, OfTwoOrThreeLimbs(x, e).r, x)
         /\ OfTwoOrThreeLimbs(x, e).lost = {}
<1>1. CASE x < Word
  <2>1. e \in Estimates(x) /\ OfTwoOrThreeLimbs(x, e) = Native(x, e)
    BY <1>1 DEF OfTwoOrThreeLimbs, NativeOf
  <2>2. IsRoot(Native(x, e).s, Native(x, e).r, x) /\ Native(x, e).lost = {}
    BY <2>1, NativeRoot
  <2> QED BY <2>1, <2>2, Zenon
<1>2. CASE ~(x < Word)
  <2> DEFINE k == x \div RootBase
  <2>1. e \in Estimates(k) /\ OfTwoOrThreeLimbs(x, e) = OfThreeLimbs(x, e)
    BY <1>2 DEF OfTwoOrThreeLimbs, NativeOf
  <2>2. /\ RootBase \in Nat \ {0} /\ Word \in Nat /\ Half \in Nat /\ OneAndAHalf \in Nat
        /\ Word = RootBase * RootBase /\ OneAndAHalf = RootBase * Half /\ OneAndAHalf < Word
    BY Widths DEF OneAndAHalf
  <2>3. x \in Int
    OBVIOUS
  <2>4. k \in Nat /\ x % RootBase \in 0 .. RootBase - 1 /\ x = RootBase * k + (x % RootBase)
    BY <2>2, <2>3, Division, NaturalDivision, Zenon
  <2>5. RootBase <= k
    <3>1. SUFFICES ASSUME k + 1 <= RootBase PROVE FALSE
      BY <2>2, <2>4
    <3> HIDE DEF k
    <3>2. RootBase * (k + 1) <= RootBase * RootBase /\ RootBase * (k + 1) = RootBase * k + RootBase
      BY <2>2, <2>4, <3>1, Monotone, Products
    <3>3. RootBase * k \in Nat
      BY <2>2, <2>4, Products
    <3> QED BY <1>2, <2>2, <2>4, <3>2, <3>3
  <2>6. k < Word
    <3>1. SUFFICES ASSUME Word <= k PROVE FALSE
      BY <2>2, <2>4
    <3> HIDE DEF k
    <3>2. RootBase * Word <= RootBase * k /\ RootBase * k \in Nat /\ RootBase * Word \in Nat
      BY <2>2, <2>4, <3>1, Monotone, Products
    <3> QED BY <2>4, <3>2
  <2> HIDE DEF k
  <2>7. IsRoot(OfThreeLimbs(x, e).s, OfThreeLimbs(x, e).r, x) /\ OfThreeLimbs(x, e).lost = {}
    BY <2>1, <2>5, <2>6, ThreeLimbsRoot DEF k
  <2> QED BY <2>1, <2>7, Zenon
<1> QED BY <1>1, <1>2

\* The digits and the rest, found from half the remainder
FromHalf(p, t, k, a1, vp) ==
  /\ vp \in Nat /\ k * p + a1 = 2 * vp + (a1 % 2) /\ a1 % 2 \in 0 .. 1
  /\ NextDigits(t, k, p, a1) = vp \div t
  /\ NextRest(t, k, p, a1) = 2 * (vp % t) + (a1 % 2)

\* A limb's three quarters are even: half the remainder is enough.
LEMMA HalvedDigits ==
  ASSUME NEW p \in Nat, NEW c \in Nat, p = 2 * c, NEW t \in Nat \ {0}, NEW k \in Nat,
         NEW a1 \in 0 .. p - 1, NEW vp, vp = k * c + (a1 \div 2)
  PROVE  FromHalf(p, t, k, a1, vp)
<1> DEFINE l == a1 \div 2
           o == a1 % 2
           q == vp \div t
           v == vp % t
           n == k * p + a1
<1>1. l \in Nat /\ o \in 0 .. 1 /\ a1 = 2 * l + o
  OBVIOUS
<1>2. k * p = 2 * (k * c) /\ k * c \in Nat
  BY SMT
<1> HIDE DEF l, o
<1>3. vp \in Nat /\ n = 2 * vp + o /\ n \in Int
  <2> DEFINE kc == k * c
  <2>1. kc \in Nat /\ k * p = 2 * kc
    BY <1>2
  <2> HIDE DEF kc
  <2>2. kc + l \in Nat /\ 2 * kc + a1 = 2 * (kc + l) + o
    BY <1>1, <2>1
  <2>3. vp = kc + l
    BY DEF kc, l
  <2> QED BY <1>1, <2>1, <2>2, <2>3
<1> HIDE DEF n
<1>4. vp \in Int /\ t \in Nat \ {0}
  BY <1>3
<1>5. q \in Nat /\ v \in 0 .. t - 1 /\ vp = t * q + v
  BY <1>3, <1>4, Division, NaturalDivision, Zenon
<1> HIDE DEF q, v
<1>6. n = (2 * t) * q + (2 * v + o)
  <2> DEFINE tq == t * q
  <2>1. tq \in Nat /\ (2 * t) * q = 2 * tq
    BY <1>5, SMT
  <2> HIDE DEF tq
  <2>2. vp = tq + v
    BY <1>5 DEF tq
  <2> QED BY <1>1, <1>3, <1>5, <2>1, <2>2
<1>7. 2 * v + o \in 0 .. 2 * t - 1 /\ 2 * t \in Nat \ {0} /\ q \in Int
  BY <1>1, <1>5
<1> DEFINE d == 2 * t
           rest == 2 * v + o
<1>8. n \div d = q /\ n % d = rest
  <2>1. n \in Int /\ d \in Nat \ {0} /\ q \in Int /\ rest \in 0 .. d - 1 /\ n = d * q + rest
    BY <1>3, <1>6, <1>7
  <2> HIDE DEF d, rest
  <2> QED BY <2>1, DivisionUnique, Zenon
<1> QED BY <1>1, <1>3, <1>8 DEF FromHalf, NextDigits, NextRest, n, q, v, o

\* Four limbs: the root is right unless u was shifted out of its word, and nothing
\* else is lost but a root of which the correction is to come.
LEMMA FourLimbsRoot ==
  ASSUME NEW x \in Nat, RootBase * Word <= x, x < Word * Word,
         NEW e \in Estimates(NativeOf(x \div OneAndAHalf))
  PROVE  LET base == OfFourLimbs(x, e) IN
         /\ base.lost \subseteq {"u", "s"}
         /\ "u" \notin base.lost => IsRoot(base.s, x - base.s * base.s, x)
<1> DEFINE p == ThreeQuarters
           n == x \div (p * p)
           a0 == x % p
           a1 == (x \div p) % p
           top == OfTwoOrThreeLimbs(n, e)
           t == top.s
           k == top.r
           vp == k * (p \div 2) + (a1 \div 2)
           q == vp \div t
           u == 2 * (vp % t) + (a1 % 2)
           s == t * p + q
           up == u * p
           lhs == (up % Word) + a0
           losses == {top.lost, Unfit("val_prime", vp), Unfit("q * q", q * q), Unfit("s", s),
                      Unfit("u", up)}
           res == (IF lhs < q * q THEN s - 1 ELSE s) % Word
           low == LowerHalf(t, k, p, a1, a0)
<1>1. OfFourLimbs(x, e) = [s |-> res, lost |-> UNION losses]
  BY DEF OfFourLimbs
<1>2. OfFourLimbs(x, e).s = res /\ OfFourLimbs(x, e).lost = UNION losses
  <2> HIDE DEF res, losses
  <2> QED BY <1>1
<1>3. /\ p \in Nat \ {0} /\ p >= 2 /\ p = 2 * (p \div 2) /\ p * p = OneAndAHalf
      /\ Quarter \in Nat /\ Half \in Nat /\ RootBase \in Nat \ {0} /\ OneAndAHalf \in Nat \ {0}
      /\ Word \in Nat \ {0} /\ OneAndAHalf < Word
      /\ Word = RootBase * RootBase /\ OneAndAHalf = RootBase * Half /\ Word = Half * OneAndAHalf
  BY Widths DEF OneAndAHalf
<1>4. p = Half * Quarter /\ RootBase = Half * Half /\ Half = Quarter * Quarter
  BY DEF ThreeQuarters, RootBase, Half
<1>5. n = x \div OneAndAHalf
  BY <1>3
<1> HIDE DEF res, losses, low, lhs, up, s, u, q, vp, k, t, top, a1, a0, p
<1>6. n \in Nat /\ x % OneAndAHalf \in 0 .. OneAndAHalf - 1
      /\ x = OneAndAHalf * n + (x % OneAndAHalf)
  <2>1. x \in Int
    OBVIOUS
  <2> QED BY <1>3, <1>5, <2>1, Division, NaturalDivision, Zenon
<1> HIDE DEF n
<1>7. OneAndAHalf * OneAndAHalf = RootBase * Word
  <2>1. RootBase * (RootBase * RootBase) = (RootBase * RootBase) * RootBase
    BY <1>3, Products
  <2> QED BY <1>3, <2>1, Widths
<1>8. OneAndAHalf <= n
  <2>1. SUFFICES ASSUME n + 1 <= OneAndAHalf PROVE FALSE
    BY <1>3, <1>6
  <2>2. /\ OneAndAHalf * (n + 1) <= OneAndAHalf * OneAndAHalf
        /\ OneAndAHalf * (n + 1) = OneAndAHalf * n + OneAndAHalf
        /\ OneAndAHalf * n \in Nat
    BY <1>3, <1>6, <2>1, Monotone, Products
  <2> QED BY <1>3, <1>6, <1>7, <2>2
<1>9. n < Word * Half
  <2>1. SUFFICES ASSUME Word * Half <= n PROVE FALSE
    BY <1>3, <1>6, Products
  <2>2. /\ OneAndAHalf * (Word * Half) <= OneAndAHalf * n
        /\ OneAndAHalf * (Word * Half) = Word * Word
        /\ OneAndAHalf * n \in Nat /\ Word * Word \in Nat
    <3>1. /\ OneAndAHalf * (Half * Word) = (OneAndAHalf * Half) * Word
          /\ Half * Word = Word * Half /\ OneAndAHalf * Half = Half * OneAndAHalf
          /\ Word * Half \in Nat
      BY <1>3, Products
    <3>2. OneAndAHalf * (Word * Half) = Word * Word
      BY <1>3, <3>1, Zenon
    <3> QED BY <1>3, <1>6, <2>1, <3>1, <3>2, Monotone, Products
  <2> QED BY <1>6, <2>2
<1>10. IsRoot(t, k, n) /\ top.lost = {}
  <2>1. e \in Estimates(NativeOf(n))
    BY <1>5
  <2>2. Half * Word <= RootBase * Word /\ Half * Word = Word * Half
        /\ Half * Word \in Nat /\ RootBase * Word \in Nat
    <3>1. Half <= RootBase
      BY <1>3, Widths
    <3> QED BY <1>3, <3>1, Monotone, Products
  <2>3. n < RootBase * Word
    BY <1>6, <1>9, <2>2
  <2> QED BY <1>6, <2>1, <2>3, TwoOrThreeLimbsRoot DEF t, k, top
<1>11. IsFloor(t, n) /\ t \in Nat /\ k \in 0 .. 2 * t
  <2>1. t \in Nat /\ k \in 0 .. 2 * t
    BY <1>10 DEF IsRoot
  <2> QED BY <1>6, <1>10, <2>1, FloorOfRoot
<1> DEFINE w == RootBase * Quarter
<1>12. w \in Nat /\ w * w = Word * Half /\ w * p = Word
  <2>1. RootBase \in Nat /\ Quarter \in Nat
    BY <1>3
  <2>2. w * w = (RootBase * RootBase) * (Quarter * Quarter)
    BY <2>1, SMT
  <2>3. w * p = RootBase * (Quarter * p) /\ Quarter * p = Half * (Quarter * Quarter)
        /\ w \in Nat
    BY <1>3, <1>4, <2>1, SMT
  <2> QED BY <1>3, <1>4, <2>2, <2>3, Zenon
<1> HIDE DEF w
<1>13. t < w /\ p <= t
  <2>1. n < w * w /\ p * p <= n /\ p \in Nat
    BY <1>3, <1>8, <1>9, <1>12
  <2> QED BY <1>6, <1>11, <1>12, <2>1, RootLess
<1>14. t \in Nat \ {0} /\ p <= 2 * t
  BY <1>3, <1>11, <1>13
<1>15. IsRoot(low.s, low.r, x) /\ a1 \in 0 .. p - 1 /\ a0 \in 0 .. p - 1
  <2>1. IsRoot(t, k, x \div (p * p))
    BY <1>10 DEF n
  <2> QED BY <1>3, <1>14, <2>1, LevelRoot DEF low, a1, a0
<1>16. /\ vp \in Nat /\ k * p + a1 = 2 * vp + (a1 % 2) /\ a1 % 2 \in 0 .. 1
       /\ NextDigits(t, k, p, a1) = q /\ NextRest(t, k, p, a1) = u
  <2> DEFINE c == p \div 2
  <2>1. c \in Nat
    BY <1>3
  <2>2. p = 2 * c /\ vp = k * c + (a1 \div 2)
    BY <1>3 DEF vp
  <2> HIDE DEF c
  <2>3. FromHalf(p, t, k, a1, vp)
    <3>1. p \in Nat /\ k \in Nat /\ t \in Nat \ {0} /\ a1 \in 0 .. p - 1
      BY <1>3, <1>11, <1>14, <1>15
    <3> QED BY <2>1, <2>2, <3>1, HalvedDigits, Zenon
  <2> QED BY <2>3, Zenon DEF FromHalf, q, u
<1>17. q \in 0 .. p /\ u \in 0 .. 2 * t - 1
  <2>1. NextDigits(t, k, p, a1) \in 0 .. p /\ NextRest(t, k, p, a1) \in 0 .. 2 * t - 1
    BY <1>3, <1>11, <1>14, <1>15, DigitBounded
  <2> QED BY <1>16, <2>1
<1>18. vp \in 0 .. Word - 1
  <2>1. k * p <= (2 * (w - 1)) * p /\ (2 * (w - 1)) * p = 2 * Word - 2 * p /\ k * p \in Nat
    <3>1. k <= 2 * (w - 1) /\ k \in Nat
      BY <1>11, <1>12, <1>13
    <3>2. (2 * (w - 1)) * p = 2 * (w * p) - 2 * p
      BY <1>3, <1>12, SMT
    <3> QED BY <1>3, <1>12, <3>1, <3>2, Monotone, Products
  <2> DEFINE kp == k * p
  <2>2. kp \in Nat /\ kp <= 2 * Word - 2 * p /\ kp + a1 = 2 * vp + (a1 % 2)
    BY <1>3, <1>12, <1>16, <2>1
  <2> HIDE DEF kp
  <2> QED BY <1>3, <1>15, <1>16, <2>2
<1>19. q * q \in 0 .. Word - 1
  <2>1. q \in Nat /\ q * q <= p * p /\ q * q \in Nat
    BY <1>3, <1>17, SquaresGrow
  <2> QED BY <1>3, <2>1
<1>20. s = t * p + q /\ s \in Nat /\ up \in Nat /\ up = u * p
  <2>1. t * p \in Nat /\ u * p \in Nat /\ q \in Nat
    BY <1>3, <1>14, <1>17, Products
  <2> QED BY <2>1 DEF s, up
<1>21. losses = {{}, {}, {}, Unfit("s", s), Unfit("u", up)}
  <2>1. Unfit("val_prime", vp) = {} /\ Unfit("q * q", q * q) = {}
    BY <1>18, <1>19, Zenon DEF Unfit
  <2> QED BY <1>10, <2>1, Zenon DEF losses
<1>22. UNION losses = Unfit("s", s) \cup Unfit("u", up)
  BY <1>21
<1>23. UNION losses \subseteq {"u", "s"}
  BY <1>22 DEF Unfit
<1>24. ASSUME "u" \notin UNION losses PROVE IsRoot(res, x - res * res, x)
  <2>1. up \in 0 .. Word - 1
    BY <1>22, <1>24 DEF Unfit
  <2>2. lhs = up + a0
    <3>1. up % Word = up
      BY <1>3, <2>1
    <3> QED BY <3>1 DEF lhs
  <2> DEFINE dd == Difference(u, p, a0, q)
             qq == q * q
  <2>3. dd = up + a0 - qq
    BY <1>20 DEF Difference
  <2>4. low.s = IF lhs < qq THEN s - 1 ELSE s
    <3>1. low = Corrected(t * p + q, dd)
      BY <1>16 DEF low, LowerHalf
    <3>2. low = Corrected(s, dd)
      BY <1>20, <3>1
    <3>3. dd < 0 <=> lhs < qq
      <4>1. up \in Nat /\ a0 \in Nat /\ qq \in Nat
        BY <1>15, <1>19, <1>20
      <4> HIDE DEF dd, qq
      <4> QED BY <2>2, <2>3, <4>1
    <3> HIDE DEF dd, qq
    <3> QED BY <3>2, <3>3 DEF Corrected
  <2>5. low.s \in Nat /\ IsFloor(low.s, x) /\ low.r = x - low.s * low.s
    <3>1. low.s \in Nat
      BY <1>15 DEF IsRoot
    <3> QED BY <1>15, <3>1, FloorOfRoot
  <2>6. low.s < Word
    BY <1>3, <2>5, RootLess
  <2>7. res = low.s
    <3>1. low.s % Word = low.s
      BY <1>3, <2>5, <2>6, NaturalDivision, Zenon
    <3> QED BY <2>4, <3>1 DEF res
  <2> QED BY <1>15, <2>5, <2>7
<1> QED BY <1>2, <1>23, <1>24, Zenon

\* The numbers of limbs, as words
LEMMA RootPowers ==
  /\ RootLimbs!Power(1) = RootBase /\ RootLimbs!Power(2) = Word
  /\ RootLimbs!Power(3) = RootBase * Word /\ RootLimbs!Power(4) = Word * Word
<1>1. RootBase \in Nat /\ Word \in Nat /\ Word = RootBase * RootBase
  BY Widths
<1>2. /\ RootLimbs!Power(0) = 1
      /\ \A n \in Nat : RootLimbs!Power(n + 1) = RootBase * RootLimbs!Power(n)
  <2>1. Half * Half \in Nat /\ Half * Half >= 2
    BY Widths DEF RootBase
  <2> QED BY <2>1, OfRoots!PowerFacts, Zenon DEF RootLimbs!Power, OfRoots!Power, RootBase
<1>3. RootLimbs!Power(1) = RootBase
  BY <1>1, <1>2, Products, SMT
<1>4. RootLimbs!Power(2) = RootBase * RootBase
  <2>1. 1 + 1 = 2 /\ 1 \in Nat
    OBVIOUS
  <2> QED BY <1>2, <1>3, <2>1, Zenon
<1>5. RootLimbs!Power(3) = RootBase * Word
  <2>1. 2 + 1 = 3 /\ 2 \in Nat
    OBVIOUS
  <2> QED BY <1>1, <1>2, <1>4, <2>1, Zenon
<1>6. RootLimbs!Power(4) = RootBase * (RootBase * Word)
  <2>1. 3 + 1 = 4 /\ 3 \in Nat
    OBVIOUS
  <2> QED BY <1>2, <1>5, <2>1, Zenon
<1>7. RootBase * (RootBase * Word) = Word * Word
  BY <1>1, Products
<1> QED BY <1>1, <1>3, <1>4, <1>5, <1>6, <1>7, Zenon

\* The powers and sizes of the limbs of a root, from those of LimbNumbers
LEMMA RootPowerFacts ==
  /\ RootLimbs!Power(0) = 1
  /\ \A n \in Nat : RootLimbs!Power(n) \in Nat \ {0}
  /\ \A m, n \in Nat : RootLimbs!Power(m + n) = RootLimbs!Power(m) * RootLimbs!Power(n)
<1>1. Half * Half \in Nat /\ Half * Half >= 2
  BY Widths DEF RootBase
<1> QED BY <1>1, OfRoots!PowerFacts, OfRoots!PowerOfSum, Zenon DEF RootLimbs!Power, OfRoots!Power

LEMMA RootSizes ==
  ASSUME NEW n \in Nat
  PROVE  /\ RootLimbs!Size(n) \in Nat \ {0}
         /\ RootLimbs!Size(n) # 1 => RootLimbs!Power(RootLimbs!Size(n) - 1) <= n
         /\ \A k \in Nat \ {0} : n < RootLimbs!Power(k) <=> RootLimbs!Size(n) <= k
<1>1. Half * Half \in Nat /\ Half * Half >= 2
  BY Widths DEF RootBase
<1> QED BY <1>1, OfRoots!Sizes, Zenon
        DEF RootLimbs!Power, OfRoots!Power, RootLimbs!Size, OfRoots!Size

\* The base cases
LEMMA BaseCaseRoot ==
  ASSUME NEW x \in Nat, RootLimbs!Size(x) <= 4,
         NEW e \in Estimates(NativePart(x))
  PROVE  LET base == eval_sqrt_karatsuba_base_case(x, e) IN
         /\ base.lost \subseteq {"u", "s"}
         /\ "u" \notin base.lost => IsRoot(base.s, base.r, x)
<1> DEFINE k == RootLimbs!Size(x)
           base == eval_sqrt_karatsuba_base_case(x, e)
<1>1. k \in Nat \ {0} /\ (k # 1 => RootLimbs!Power(k - 1) <= x)
      /\ \A l \in Nat \ {0} : x < RootLimbs!Power(l) <=> k <= l
  BY RootSizes, Zenon
<1>2. /\ RootLimbs!Power(2) = Word /\ RootLimbs!Power(3) = RootBase * Word
      /\ RootLimbs!Power(4) = Word * Word
  BY RootPowers
<1>3. Half * Half = RootBase /\ ThreeQuarters * ThreeQuarters = OneAndAHalf
  BY Widths DEF RootBase
<1> HIDE DEF k, base
<1>4. CASE k = 4
  <2> DEFINE four == OfFourLimbs(x, e)
  <2>1. x < Word * Word /\ RootBase * Word <= x
    <3>1. 4 \in Nat \ {0} /\ k <= 4 /\ k # 1 /\ k - 1 = 3
      BY <1>4
    <3> QED BY <1>1, <1>2, <3>1, Zenon
  <2>2. NativePart(x) = NativeOf(x \div OneAndAHalf)
    <3>1. ~(k <= 2) /\ ~(k = 3)
      BY <1>4
    <3> QED BY <1>3, <3>1 DEF NativePart, NativeOf, k
  <2>3. e \in Estimates(NativeOf(x \div OneAndAHalf))
    BY <2>2, Zenon
  <2>4. four.lost \subseteq {"u", "s"}
        /\ ("u" \notin four.lost => IsRoot(four.s, x - four.s * four.s, x))
    BY <2>1, <2>3, FourLimbsRoot
  <2>5. base = [s |-> four.s, r |-> x - four.s * four.s, lost |-> four.lost]
    BY <1>4, Zenon DEF eval_sqrt_karatsuba_base_case, base, k
  <2> HIDE DEF four
  <2>6. base.s = four.s /\ base.r = x - four.s * four.s /\ base.lost = four.lost
    BY <2>5
  <2> QED BY <2>4, <2>6, Zenon DEF base
<1>5. CASE k # 4
  <2>1. k <= 3 /\ k <= 3 /\ k \in Nat /\ 3 \in Nat \ {0} /\ 2 \in Nat \ {0}
    BY <1>1, <1>5 DEF k
  <2>2. x < RootBase * Word /\ (x < Word <=> k <= 2)
    BY <1>1, <1>2, <2>1, Zenon
  <2>3. NativePart(x) = NativeOf(x)
    <3>1. k <= 2 \/ k = 3
      BY <2>1
    <3>2. CASE k <= 2
      <4>1. NativePart(x) = x
        BY <3>2, <2>1 DEF NativePart, k
      <4> QED BY <2>2, <3>2, <4>1 DEF NativeOf
    <3>3. CASE k = 3
      <4>1. NativePart(x) = x \div (Half * Half)
        BY <3>3 DEF NativePart, k
      <4> QED BY <1>3, <2>2, <3>3, <4>1 DEF NativeOf
    <3> QED BY <3>1, <3>2, <3>3
  <2>4. e \in Estimates(NativeOf(x))
    BY <2>3, Zenon
  <2>5. base = OfTwoOrThreeLimbs(x, e)
    BY <1>5, Zenon DEF eval_sqrt_karatsuba_base_case, base, k
  <2>6. IsRoot(base.s, base.r, x) /\ base.lost = {}
    BY <2>2, <2>4, <2>5, TwoOrThreeLimbsRoot
  <2> QED BY <2>6 DEF base
<1> QED BY <1>4, <1>5, Zenon

----------------------------------------------------------------------------
(* Square roots: every step.                                               *)

\* A number that has been split, and is at least as large as its four parts
IsSplit(level) ==
  /\ level.num_limbs >= 1
  /\ RootLimbs!Power(4 * level.num_limbs) <= level.x

\* What remains of a number to take the root of
Leading(level) == level.x \div RootLimbs!Power(2 * level.num_limbs)

\* root is that of n, unless bits were lost that a root cannot do without.
RootIs(n) == lost \cap {"u", "r"} = {} => IsRoot(root.s, root.r, n)

\* The levels are those of the call: each takes the root of its predecessor's leading
\* part.
LevelsInv ==
  /\ levels \in Seq([x : Nat, num_limbs : Nat])
  /\ root_pc \in {"begin", "combine"} => levels # <<>> /\ levels[1].x = root_call.x
  /\ root_pc \in {"idle", "returned", "threw"} => levels = <<>>
  /\ \A i \in 1 .. Len(levels) :
       (i < Len(levels) \/ root_pc = "combine") => IsSplit(levels[i])
  /\ \A i \in 1 .. Len(levels) - 1 : levels[i + 1].x = Leading(levels[i])

RootInv ==
  /\ root_pc \in {"idle", "begin", "combine", "returned", "threw"}
  /\ lost \subseteq {"u", "s", "r"}
  /\ LevelsInv
  /\ root_pc = "combine" => RootIs(Leading(Top))
  /\ root_pc = "returned" => RootIs(root_call.x)
  /\ root_pc = "threw" => ~root_type.signed /\ root_type.checked

\* The levels but the innermost one
LEMMA OuterLevels ==
  ASSUME NEW S, levels \in Seq(S), levels # <<>>
  PROVE  /\ Len(levels) \in Nat \ {0} /\ Top \in S /\ Outer \in Seq(S)
         /\ Len(Outer) = Len(levels) - 1
         /\ \A i \in 1 .. Len(levels) - 1 : Outer[i] = levels[i]
         /\ Outer = <<>> <=> Len(levels) = 1
<1>1. Len(levels) \in Nat \ {0}
  OBVIOUS
<1> DEFINE n == Len(levels)
<1>2. \A i \in 1 .. n - 1 : levels[i] \in S
  OBVIOUS
<1>3. n - 1 \in Nat
  BY <1>1
<1>5. Top \in S
  BY <1>1 DEF Top
<1>6. Outer = SubSeq(levels, 1, n - 1)
  BY DEF Outer
<1> HIDE DEF n
<1> DEFINE k == n - 1
           outer == SubSeq(levels, 1, k)
<1>7. k \in Nat /\ \A i \in 1 .. k : levels[i] \in S
  BY <1>2, <1>3
<1> HIDE DEF k
<1>8. outer \in Seq(S)
  BY <1>7
<1>9. Len(outer) = k
  BY <1>7
<1>10. \A i \in 1 .. k : outer[i] = levels[i]
  BY <1>7
<1> HIDE DEF outer
<1>11. outer = <<>> <=> k = 0
  BY <1>8, <1>9
<1>4. /\ Outer \in Seq(S) /\ Len(Outer) = n - 1
      /\ \A i \in 1 .. n - 1 : Outer[i] = levels[i]
      /\ Outer = <<>> <=> n = 1
  BY <1>1, <1>6, <1>8, <1>9, <1>10, <1>11 DEF outer, k
<1> QED BY <1>1, <1>4, <1>5 DEF n

\* The levels after a split
LEMMA SplitLevels ==
  ASSUME NEW S, levels \in Seq(S), levels # <<>>, NEW l \in S, NEW m \in S
  PROVE  LET next == Append(Outer, l) \o <<m>> IN
         /\ next \in Seq(S) /\ Len(next) = Len(levels) + 1
         /\ \A i \in 1 .. Len(levels) - 1 : next[i] = levels[i]
         /\ next[Len(levels)] = l /\ next[Len(levels) + 1] = m
<1> DEFINE n == Len(levels)
           most == Append(Outer, l)
           next == most \o <<m>>
<1>1. n \in Nat \ {0} /\ Outer \in Seq(S) /\ Len(Outer) = n - 1
      /\ \A i \in 1 .. n - 1 : Outer[i] = levels[i]
  BY OuterLevels
<1> HIDE DEF n
<1>2. most \in Seq(S) /\ Len(most) = n /\ most[n] = l
      /\ \A i \in 1 .. n - 1 : most[i] = levels[i]
  BY <1>1
<1> HIDE DEF most
<1>3. next \in Seq(S) /\ Len(next) = n + 1 /\ next[n + 1] = m
      /\ \A i \in 1 .. n : next[i] = most[i]
  BY <1>1, <1>2
<1> HIDE DEF next
<1>4. n \in 1 .. n /\ \A i \in 1 .. n - 1 : i \in 1 .. n
  BY <1>1
<1> QED BY <1>2, <1>3, <1>4 DEF n, next, most

\* A number of more than four limbs is split into numbers that it is large enough for.
LEMMA SplitNumber ==
  ASSUME NEW x \in Nat, RootLimbs!Size(x) > 4
  PROVE  LET n == (RootLimbs!Size(x) - 1) \div 4 IN
         n \in Nat /\ n >= 1 /\ RootLimbs!Power(4 * n) <= x
         /\ x \div RootLimbs!Power(2 * n) \in Nat
<1> DEFINE k == RootLimbs!Size(x)
           n == (k - 1) \div 4
<1>1. k \in Nat \ {0} /\ k > 4 /\ \A l \in Nat \ {0} : x < RootLimbs!Power(l) <=> k <= l
  BY RootSizes
<1> HIDE DEF k
<1>2. n \in Nat /\ n >= 1 /\ 4 * n < k
  BY <1>1
<1> HIDE DEF n
<1>3. 4 * n \in Nat \ {0} /\ 2 * n \in Nat /\ 4 * n \in Nat /\ ~(k <= 4 * n)
  BY <1>1, <1>2
<1>4. ~(x < RootLimbs!Power(4 * n))
  BY <1>1, <1>3, Zenon
<1>5. RootLimbs!Power(4 * n) \in Nat /\ RootLimbs!Power(2 * n) \in Nat \ {0}
  BY <1>3, RootPowerFacts
<1>6. RootLimbs!Power(4 * n) <= x
  BY <1>4, <1>5
<1>7. x \div RootLimbs!Power(2 * n) \in Nat
  BY <1>5, NaturalDivision, Zenon
<1> QED BY <1>2, <1>6, <1>7 DEF n, k

\* The root of a number that has been split, from that of its leading part
LEMMA CombinedRoot ==
  ASSUME NEW x \in Nat, NEW n \in Nat, RootLimbs!Power(4 * n) <= x,
         NEW t, NEW k, IsRoot(t, k, x \div RootLimbs!Power(2 * n))
  PROVE  LET d == RootLimbs!Power(n)
             low == LowerHalf(t, k, d, (x \div d) % d, x % d)
         IN IsRoot(low.s, low.r, x)
<1> DEFINE d == RootLimbs!Power(n)
           dd == RootLimbs!Power(2 * n)
           m == x \div dd
<1>1. n + n = 2 * n /\ 2 * n + 2 * n = 4 * n /\ 2 * n \in Nat
  OBVIOUS
<1>2. d \in Nat \ {0} /\ dd \in Nat \ {0} /\ dd = d * d /\ RootLimbs!Power(4 * n) = dd * dd
  <2>1. d \in Nat \ {0} /\ dd \in Nat \ {0}
    BY <1>1, RootPowerFacts, Zenon
  <2>2. dd = d * d
    BY <1>1, RootPowerFacts, Zenon
  <2> HIDE DEF d
  <2>3. RootLimbs!Power(4 * n) = dd * dd
    BY <1>1, RootPowerFacts, Zenon
  <2> QED BY <2>1, <2>2, <2>3
<1> HIDE DEF d, dd
<1>3. x \in Int
  OBVIOUS
<1>4. m \in Nat /\ x % dd \in 0 .. dd - 1 /\ x = dd * m + (x % dd)
  BY <1>2, <1>3, Division, NaturalDivision, Zenon
<1>5. dd <= m
  <2> HIDE DEF m
  <2>1. SUFFICES ASSUME m + 1 <= dd PROVE FALSE
    BY <1>2, <1>4
  <2>2. dd * (m + 1) <= dd * dd /\ dd * (m + 1) = dd * m + dd /\ dd * m \in Nat
    BY <1>2, <1>4, <2>1, Monotone, Products
  <2> QED BY <1>2, <1>4, <2>2
<1>6. IsRoot(t, k, m)
  BY DEF m, dd
<1> HIDE DEF m
<1>7. IsFloor(t, m) /\ t \in Nat
  <2>1. t \in Nat
    BY <1>6 DEF IsRoot
  <2> QED BY <1>4, <1>6, <2>1, FloorOfRoot
<1>8. d <= t
  BY <1>2, <1>4, <1>5, <1>7, RootLess
<1>9. d <= 2 * t
  BY <1>2, <1>7, <1>8
<1>10. IsRoot(t, k, x \div (d * d))
  BY <1>2, <1>6 DEF m
<1> QED BY <1>2, <1>9, <1>10, LevelRoot DEF d

LEMMA RootInvInit == RootInit => RootInv
<1> SUFFICES ASSUME RootInit PROVE RootInv
  OBVIOUS
<1>1. levels = <<>> /\ root_pc = "idle" /\ lost = {}
  BY DEF RootInit
<1> QED BY <1>1 DEF RootInv, LevelsInv

\* The call from outside
LEMMA RootBeginKeeps == RootInv /\ RootBegin => RootInv'
<1> SUFFICES ASSUME RootInv, RootBegin PROVE RootInv'
  OBVIOUS
<1>1. PICK t \in RootTypes, x \in Radicands : sqrt(t, x)
  BY DEF RootBegin
<1>2. x \in Nat
  BY RadicandsAssumption
<1>3. /\ root_call'.x = x /\ levels' = <<[x |-> x, num_limbs |-> 0]>> /\ root_pc' = "begin"
      /\ lost' = lost
  BY <1>1 DEF sqrt
<1>4. LevelsInv'
  <2>1. levels' \in Seq([x : Nat, num_limbs : Nat]) /\ Len(levels') = 1 /\ levels' # <<>>
        /\ levels'[1].x = x
    BY <1>2, <1>3
  <2> QED BY <1>3, <2>1 DEF LevelsInv
<1> QED BY <1>3, <1>4 DEF RootInv

\* What is true of the levels but the innermost one
LEMMA OuterInv ==
  ASSUME LevelsInv, root_pc \in {"begin", "combine"}, levels' = Outer,
         root_call' = root_call,
         root_pc' = IF Outer = <<>> THEN "returned" ELSE "combine"
  PROVE  /\ LevelsInv' /\ Top.x \in Nat /\ Top.num_limbs \in Nat
         /\ Outer = <<>> => Top.x = root_call.x
         /\ Outer # <<>> => Top.x = Leading(Top)'
<1> DEFINE n == Len(levels)
           L == [x : Nat, num_limbs : Nat]
<1>1. levels \in Seq(L) /\ levels # <<>> /\ levels[1].x = root_call.x
      /\ (\A i \in 1 .. n : (i < n \/ root_pc = "combine") => IsSplit(levels[i]))
      /\ \A i \in 1 .. n - 1 : levels[i + 1].x = Leading(levels[i])
  BY DEF LevelsInv
<1>2. /\ n \in Nat \ {0} /\ Top \in L /\ levels' \in Seq(L) /\ Len(levels') = n - 1
      /\ (\A i \in 1 .. n - 1 : levels'[i] = levels[i])
      /\ levels' = <<>> <=> n = 1
  BY <1>1, OuterLevels
<1>3. Top = levels[n]
  BY DEF Top
<1> HIDE DEF n, L
<1>4. \A i \in 1 .. n - 1 : IsSplit(levels'[i])
  <2>1. \A i \in 1 .. n - 1 : i \in 1 .. n /\ i < n
    BY <1>2
  <2> QED BY <1>1, <1>2, <2>1, Zenon
<1>5. \A i \in 1 .. (n - 1) - 1 : levels'[i + 1].x = Leading(levels'[i])
  <2>1. \A i \in 1 .. (n - 1) - 1 : i \in 1 .. n - 1 /\ i + 1 \in 1 .. n - 1
    BY <1>2
  <2> QED BY <1>1, <1>2, <2>1, Zenon
<1>6. levels' # <<>> => levels'[1].x = root_call.x
  <2>1. n # 1 => 1 \in 1 .. n - 1
    BY <1>2
  <2> QED BY <1>1, <1>2, <2>1, Zenon
<1>7. root_pc' \in {"returned", "combine"} /\ (root_pc' = "returned" <=> levels' = <<>>)
  OBVIOUS
<1>8. LevelsInv'
  <2>1. Len(levels') \in Nat
    BY <1>2
  <2>2. /\ root_pc' \in {"begin", "combine"} => levels' # <<>> /\ levels'[1].x = root_call'.x
        /\ root_pc' \in {"idle", "returned", "threw"} => levels' = <<>>
    BY <1>6, <1>7
  <2>3. \A i \in 1 .. Len(levels') :
          (i < Len(levels') \/ root_pc' = "combine") => IsSplit(levels'[i])
    BY <1>2, <1>4, Zenon
  <2>4. \A i \in 1 .. Len(levels') - 1 : levels'[i + 1].x = Leading(levels'[i])
    BY <1>2, <1>5, Zenon
  <2> QED BY <1>2, <2>2, <2>3, <2>4, Zenon DEF LevelsInv, L, IsSplit, Leading
<1>9. Top.x \in Nat /\ Top.num_limbs \in Nat
  BY <1>2 DEF L
<1>10. Outer = <<>> => Top.x = root_call.x
  BY <1>1, <1>2, <1>3, Zenon
<1>11. Outer # <<>> => Top.x = Leading(Top)'
  <2> SUFFICES ASSUME Outer # <<>> PROVE Top.x = Leading(Top)'
    OBVIOUS
  <2>1. n - 1 \in 1 .. n - 1 /\ (n - 1) + 1 = n
    BY <1>2
  <2>2. Top' = levels[n - 1]
    BY <1>2, <2>1 DEF Top
  <2>3. levels[n].x = Leading(levels[n - 1])
    BY <1>1, <2>1, Zenon
  <2> QED BY <1>3, <2>2, <2>3 DEF Leading
<1> QED BY <1>8, <1>9, <1>10, <1>11

\* The innermost level has found its root.
LEMMA RootFound ==
  ASSUME RootInv, root_pc \in {"begin", "combine"}, levels' = Outer,
         root_call' = root_call, root_pc' = IF Outer = <<>> THEN "returned" ELSE "combine",
         lost' \subseteq {"u", "s", "r"},
         lost' \cap {"u", "r"} = {} => IsRoot(root'.s, root'.r, Top.x)
  PROVE  RootInv'
<1>1. LevelsInv
  BY DEF RootInv
<1>2. /\ LevelsInv'
      /\ Outer = <<>> => Top.x = root_call.x
      /\ Outer # <<>> => Top.x = Leading(Top)'
  BY <1>1, OuterInv
<1>3. root_pc' = "combine" => RootIs(Leading(Top))'
  <2> SUFFICES ASSUME root_pc' = "combine" PROVE RootIs(Leading(Top))'
    OBVIOUS
  <2>1. Top.x = Leading(Top)'
    BY <1>2
  <2>2. lost' \cap {"u", "r"} = {} => IsRoot(root'.s, root'.r, Leading(Top)')
    BY <2>1
  <2> QED BY <2>2, Zenon DEF RootIs
<1>4. root_pc' = "returned" => RootIs(root_call.x)'
  <2> SUFFICES ASSUME root_pc' = "returned" PROVE RootIs(root_call.x)'
    OBVIOUS
  <2>1. Top.x = root_call'.x
    BY <1>2
  <2>2. lost' \cap {"u", "r"} = {} => IsRoot(root'.s, root'.r, root_call'.x)
    BY <2>1
  <2> QED BY <2>2, Zenon DEF RootIs
<1>5. root_pc' \in {"returned", "combine"}
  OBVIOUS
<1> QED BY <1>2, <1>3, <1>4, <1>5 DEF RootInv

\* At most four limbs: the root of the innermost level
LEMMA BaseCaseKeeps == RootInv /\ BaseCase => RootInv'
<1> SUFFICES ASSUME RootInv, BaseCase PROVE RootInv'
  OBVIOUS
<1>1. LevelsInv /\ root_pc = "begin" /\ lost \subseteq {"u", "s", "r"}
  BY DEF RootInv, BaseCase
<1>2. /\ levels' = Outer /\ root_call' = root_call
      /\ root_pc' = IF Outer = <<>> THEN "returned" ELSE "combine"
  BY DEF BaseCase
<1> DEFINE x == Top.x
<1>3. x \in Nat /\ RootLimbs!Size(x) <= 4
  BY <1>1, <1>2, OuterInv DEF BaseCase
<1>4. PICK e \in Estimates(NativePart(x)) :
        LET base == eval_sqrt_karatsuba_base_case(x, e) IN
        root' = [s |-> base.s, r |-> base.r] /\ lost' = lost \cup base.lost
  BY DEF BaseCase
<1> DEFINE base == eval_sqrt_karatsuba_base_case(x, e)
<1>5. /\ base.lost \subseteq {"u", "s"}
      /\ "u" \notin base.lost => IsRoot(base.s, base.r, x)
  <2> HIDE DEF x
  <2> QED BY <1>3, BaseCaseRoot
<1>6. root'.s = base.s /\ root'.r = base.r /\ lost' = lost \cup base.lost
  <2> HIDE DEF x
  <2> QED BY <1>4
<1> HIDE DEF base, x
<1>7. lost' \subseteq {"u", "s", "r"}
  BY <1>1, <1>5, <1>6
<1>8. lost' \cap {"u", "r"} = {} => IsRoot(root'.s, root'.r, x)
  <2> SUFFICES ASSUME lost' \cap {"u", "r"} = {} PROVE IsRoot(root'.s, root'.r, x)
    OBVIOUS
  <2>1. "u" \notin base.lost
    BY <1>6
  <2> QED BY <1>5, <1>6, <2>1
<1> QED BY <1>1, <1>2, <1>7, <1>8, RootFound DEF x

\* More limbs: the leading part is next.
LEMMA SplitKeeps == RootInv /\ Split => RootInv'
<1> SUFFICES ASSUME RootInv, Split PROVE RootInv'
  OBVIOUS
<1> DEFINE L == [x : Nat, num_limbs : Nat]
           x == Top.x
           k == (RootLimbs!Size(x) - 1) \div 4
           level == [x |-> x, num_limbs |-> k]
           part == [x |-> x \div RootLimbs!Power(2 * k), num_limbs |-> 0]
           n == Len(levels)
<1>1. /\ lost \subseteq {"u", "s", "r"} /\ levels \in Seq(L) /\ levels # <<>>
      /\ levels[1].x = root_call.x /\ root_pc = "begin"
      /\ (\A i \in 1 .. n : i < n => IsSplit(levels[i]))
      /\ \A i \in 1 .. n - 1 : levels[i + 1].x = Leading(levels[i])
  BY DEF RootInv, LevelsInv, Split
<1>2. /\ RootLimbs!Size(x) > 4 /\ levels' = Append(Outer, level) \o <<part>>
      /\ root_call' = root_call /\ root_pc' = root_pc /\ lost' = lost
  BY DEF Split
<1>3. n \in Nat \ {0} /\ Top \in L /\ Top = levels[n]
  BY <1>1, OuterLevels DEF Top
<1>4. x \in Nat
  BY <1>3
<1> HIDE DEF x
<1>5. k \in Nat /\ k >= 1 /\ RootLimbs!Power(4 * k) <= x
      /\ x \div RootLimbs!Power(2 * k) \in Nat
  BY <1>2, <1>4, SplitNumber
<1> HIDE DEF k
<1>6. level \in L /\ part \in L /\ IsSplit(level) /\ part.x = Leading(level) /\ level.x = x
  BY <1>4, <1>5 DEF IsSplit, Leading
<1> HIDE DEF level, part, L
<1>7. /\ levels' \in Seq(L) /\ Len(levels') = n + 1
      /\ \A i \in 1 .. n - 1 : levels'[i] = levels[i]
      /\ levels'[n] = level /\ levels'[n + 1] = part
  BY <1>1, <1>2, <1>6, SplitLevels
<1> HIDE DEF n
<1>8. levels' # <<>> /\ levels'[1].x = root_call.x
  <2>1. levels' # <<>>
    BY <1>3, <1>7
  <2>2. CASE n = 1
    BY <1>1, <1>3, <1>6, <1>7, <2>1, <2>2 DEF x
  <2>3. CASE n # 1
    <3>1. 1 \in 1 .. n - 1
      BY <1>3, <2>3
    <3> QED BY <1>1, <1>7, <2>1, <3>1, Zenon
  <2> QED BY <2>2, <2>3
<1>9. \A i \in 1 .. n + 1 : i < n + 1 => IsSplit(levels'[i])
  <2> SUFFICES ASSUME NEW i \in 1 .. n + 1, i < n + 1 PROVE IsSplit(levels'[i])
    OBVIOUS
  <2>1. CASE i = n
    BY <1>6, <1>7, <2>1
  <2>2. CASE i # n
    <3>1. i \in 1 .. n - 1 /\ i \in 1 .. n /\ i < n
      BY <1>3, <2>2
    <3> QED BY <1>1, <1>7, <3>1, Zenon
  <2> QED BY <2>1, <2>2
<1>10. \A i \in 1 .. n : levels'[i + 1].x = Leading(levels'[i])
  <2> SUFFICES ASSUME NEW i \in 1 .. n PROVE levels'[i + 1].x = Leading(levels'[i])
    OBVIOUS
  <2>1. CASE i = n
    BY <1>6, <1>7, <2>1, Zenon
  <2>2. CASE i # n
    <3>1. levels'[i + 1].x = levels[i + 1].x
      <4>1. CASE i + 1 = n
        BY <1>3, <1>6, <1>7, <4>1, Zenon DEF x
      <4>2. CASE i + 1 # n
        <5>1. i + 1 \in 1 .. n - 1
          BY <1>3, <2>2, <4>2
        <5> QED BY <1>7, <5>1, Zenon
      <4> QED BY <4>1, <4>2
    <3>2. i \in 1 .. n - 1
      BY <1>3, <2>2
    <3> QED BY <1>1, <1>7, <3>1, <3>2, Zenon
  <2> QED BY <2>1, <2>2
<1>11. (n + 1) - 1 = n
  BY <1>3
<1>12. LevelsInv'
  <2>1. \A i \in 1 .. Len(levels') :
          (i < Len(levels') \/ root_pc' = "combine") => IsSplit(levels'[i])
    <3>1. root_pc' # "combine"
      BY <1>1, <1>2
    <3> QED BY <1>7, <1>9, <3>1, Zenon
  <2>2. \A i \in 1 .. Len(levels') - 1 : levels'[i + 1].x = Leading(levels'[i])
    BY <1>7, <1>10, <1>11, Zenon
  <2>3. /\ root_pc' \in {"begin", "combine"} => levels' # <<>> /\ levels'[1].x = root_call'.x
        /\ root_pc' \in {"idle", "returned", "threw"} => levels' = <<>>
    BY <1>1, <1>2, <1>8
  <2> QED BY <1>7, <2>1, <2>2, <2>3, Zenon DEF LevelsInv, L, IsSplit, Leading
<1>13. root_pc' = "begin" /\ lost' \subseteq {"u", "s", "r"}
  BY <1>1, <1>2
<1> QED BY <1>12, <1>13 DEF RootInv

\* Four parts: the root of the innermost level from that of its leading part
LEMMA CombineKeeps == RootInv /\ Combine => RootInv'
<1> SUFFICES ASSUME RootInv, Combine PROVE RootInv'
  OBVIOUS
<1> DEFINE n == Top.num_limbs
           x == Top.x
           c == RootLimbs!Power(n)
           a0 == x % c
           a1 == (x \div c) % c
           q == NextDigits(root.s, root.r, c, a1)
           u == NextRest(root.s, root.r, c, a1)
           d == Difference(u, c, a0, q)
<1>1. LevelsInv /\ root_pc = "combine" /\ lost \subseteq {"u", "s", "r"} /\ RootIs(Leading(Top))
  BY DEF RootInv, Combine
<1>2. root_call' = root_call
  BY DEF Combine
<1>3. CASE d < 0 /\ ~root_type.signed /\ root_type.checked
  <2>1. root_pc' = "threw" /\ levels' = <<>> /\ lost' = lost
    BY <1>3 DEF Combine
  <2>2. LevelsInv'
    BY <2>1 DEF LevelsInv
  <2>3. (~root_type.signed /\ root_type.checked)'
    BY <1>2, <1>3 DEF root_type
  <2> QED BY <1>1, <2>1, <2>2, <2>3 DEF RootInv
<1>4. CASE ~(d < 0 /\ ~root_type.signed /\ root_type.checked)
  <2>1. /\ lost' = IF RootInType(d) = d THEN lost ELSE lost \cup {"r"}
        /\ root' = Corrected(root.s * c + q, RootInType(d))
        /\ root_pc' = IF Outer = <<>> THEN "returned" ELSE "combine"
        /\ levels' = Outer
    BY <1>4, Zenon DEF Combine
  <2>2. lost' \subseteq {"u", "s", "r"}
    <3> HIDE DEF d
    <3> QED BY <1>1, <2>1
  <2>3. x \in Nat /\ n \in Nat /\ RootLimbs!Power(4 * n) <= x
    <3>1. x \in Nat /\ n \in Nat
      BY <1>1, <1>2, <2>1, OuterInv
    <3>2. IsSplit(Top)
      <4>1. Len(levels) \in 1 .. Len(levels)
        BY <1>1 DEF LevelsInv
      <4> QED BY <1>1, <4>1, Zenon DEF LevelsInv, Top
    <3> QED BY <3>1, <3>2 DEF IsSplit
  <2>4. ASSUME lost' \cap {"u", "r"} = {} PROVE IsRoot(root'.s, root'.r, x)
    <3>1. RootInType(d) = d /\ lost \cap {"u", "r"} = {}
      <4> HIDE DEF d
      <4> QED BY <2>1, <2>4
    <3>2. IsRoot(root.s, root.r, x \div RootLimbs!Power(2 * n))
      BY <1>1, <3>1 DEF RootIs, Leading
    <3>3. root' = LowerHalf(root.s, root.r, c, a1, a0)
      BY <2>1, <3>1, Zenon DEF LowerHalf
    <3> DEFINE low == LowerHalf(root.s, root.r, c, a1, a0)
    <3>4. IsRoot(low.s, low.r, x)
      <4> HIDE DEF x, n
      <4> QED BY <2>3, <3>2, CombinedRoot
    <3> QED BY <3>3, <3>4, Zenon
  <2> QED BY <1>1, <1>2, <2>1, <2>2, <2>4, RootFound
<1> QED BY <1>3, <1>4

\* The caller has its root.
LEMMA RootReturnKeeps == RootInv /\ RootReturn => RootInv'
<1> SUFFICES ASSUME RootInv, RootReturn PROVE RootInv'
  OBVIOUS
<1>1. levels = <<>> /\ levels' = levels /\ root_pc' = "idle" /\ lost' = {}
  BY DEF RootInv, LevelsInv, RootReturn
<1> QED BY <1>1 DEF RootInv, LevelsInv

LEMMA RootInvKept == RootInv /\ [RootNext]_root_vars => RootInv'
<1> SUFFICES ASSUME RootInv, [RootNext]_root_vars PROVE RootInv'
  OBVIOUS
<1>1. CASE RootBegin
  BY <1>1, RootBeginKeeps
<1>2. CASE BaseCase
  BY <1>2, BaseCaseKeeps
<1>3. CASE Split
  BY <1>3, SplitKeeps
<1>4. CASE Combine
  BY <1>4, CombineKeeps
<1>5. CASE RootReturn
  BY <1>5, RootReturnKeeps
<1>6. CASE UNCHANGED root_vars
  BY <1>6 DEF root_vars, RootInv, LevelsInv, IsSplit, Leading, RootIs, Top, root_type
<1> QED BY <1>1, <1>2, <1>3, <1>4, <1>5, <1>6, Zenon DEF RootNext, RootStep

\* Square roots are exact for every width of the limbs, every number and every
\* estimate of the processor, except where eval_sqrt_karatsuba shifts a remainder out of
\* its word or cannot tell that one is negative; only a checked unsigned type throws.
THEOREM RootsAreExact == RootSpec => []RootExact
<1>1. RootInit => RootInv
  BY RootInvInit
<1>2. RootInv /\ [RootNext]_root_vars => RootInv'
  BY RootInvKept
<1>3. RootInv => RootExact
  BY DEF RootInv, RootExact, RootIs
<1> QED BY <1>1, <1>2, <1>3, PTL DEF RootSpec

\* Two limbs are wide enough for every other value of the base cases, whatever the
\* width of the limbs is: only the remainder that is shifted as a whole, the root
\* that is still to be corrected, and the remainder of an unsigned type are lost.
THEOREM OtherWordsSuffice == RootSpec => []WordsSuffice
<1>1. RootInit => RootInv
  BY RootInvInit
<1>2. RootInv /\ [RootNext]_root_vars => RootInv'
  BY RootInvKept
<1>3. RootInv => WordsSuffice
  BY DEF RootInv, WordsSuffice
<1> QED BY <1>1, <1>2, <1>3, PTL DEF RootSpec
=============================================================================
