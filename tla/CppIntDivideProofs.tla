-------------------------- MODULE CppIntDivideProofs ------------------------
(***************************************************************************)
(* Division is exact, for every base, every set of types and of operands:  *)
(* the quotient and the remainder are those of truncated division, whatever *)
(* was guessed, the quotient stays within its limbs, and each guess makes  *)
(* the remainder smaller.                                                  *)
(*                                                                         *)
(* What one pass does to a remainder R and a divisor d is a statement about *)
(* numbers; these come first (GuessFits, Reduced, QuotientFits,            *)
(* LimbDivided).  The rest leads from state to state.                      *)
(***************************************************************************)
EXTENDS CppIntDivide, LimbNumbersProofs

----------------------------------------------------------------------------
(* Numbers and their top limbs.                                            *)

LEMMA Bases == Base \in Nat /\ Base \in Int /\ Base \in Nat \ {0} /\ Base - 1 \in Nat \ {0}
BY BaseAssumption

\* The top limb of a number of k + 1 limbs, and what is below it
LEMMA TopLimb ==
  ASSUME NEW n \in Nat, NEW k \in Nat, n < Power(k + 1)
  PROVE  /\ n = Limb(n, k) * Power(k) + (n % Power(k))
         /\ Power(k) <= n => Limb(n, k) \in 1 .. Base - 1
<1>1. k + 1 \in Nat /\ Power(k) \in Nat \ {0}
  BY PowerFacts
<1>2. n % Power(k + 1) = n
  BY <1>1, Parts
<1>3. Limb(n, k) \in 0 .. Base - 1 /\ n % Power(k + 1) = (n % Power(k)) + Power(k) * Limb(n, k)
  BY LimbFacts
<1>4. n % Power(k) \in 0 .. Power(k) - 1
  BY Parts
<1> DEFINE l == Limb(n, k)
           o == n % Power(k)
           p == Power(k)
<1>5. n = o + p * l /\ l \in 0 .. Base - 1 /\ o \in 0 .. p - 1 /\ p \in Nat \ {0}
  BY <1>1, <1>2, <1>3, <1>4
<1> HIDE DEF l, o, p
<1>6. p * l = l * p /\ l * p \in Int /\ o \in Int /\ p * 0 = 0
  BY <1>5, BaseAssumption, Products
<1>7. n = l * p + o
  BY <1>5, <1>6
<1>8. p <= n => l \in 1 .. Base - 1
  BY <1>5, <1>6, BaseAssumption
<1> QED BY <1>7, <1>8 DEF l, o, p

\* The two top limbs of a number of k + 1 limbs
LEMMA TopLimbs ==
  ASSUME NEW n \in Nat, NEW k \in Nat \ {0}, n < Power(k + 1)
  PROVE  /\ DoubleLimb(n, k) \in Nat /\ DoubleLimb(n, k) < Base * Base
         /\ DoubleLimb(n, k) * Power(k - 1) <= n
         /\ n < (DoubleLimb(n, k) + 1) * Power(k - 1)
         /\ Limb(n, k) * Base <= DoubleLimb(n, k)
         /\ DoubleLimb(n, k) < (Limb(n, k) + 1) * Base
<1>1. k - 1 \in Nat /\ (k - 1) + 1 = k
  OBVIOUS
<1> DEFINE x == Limb(n, k)
           y == Limb(n, k - 1)
           m == n % Power(k)
           o == m % Power(k - 1)
           p == Power(k - 1)
<1>2. x \in 0 .. Base - 1 /\ y \in 0 .. Base - 1
  BY <1>1, LimbFacts
<1>3. p \in Nat \ {0} /\ Power(k) = Base * p
  <2>1. Power((k - 1) + 1) = Base * Power(k - 1) /\ Power(k - 1) \in Nat \ {0}
    BY <1>1, PowerFacts
  <2> QED BY <1>1, <2>1
<1>4. n = x * Power(k) + m
  BY TopLimb
<1>5. m = y * p + o /\ o \in 0 .. p - 1
  <2>1. m \in Nat /\ m < Power(k) /\ Power(k) \in Nat
    <3>1. m \in 0 .. Power(k) - 1 /\ Power(k) \in Nat
      BY Parts, PowerFacts
    <3> QED BY <3>1
  <2>2. m = Limb(m, k - 1) * Power(k - 1) + (m % Power(k - 1))
    <3> HIDE DEF m
    <3>1. m < Power((k - 1) + 1)
      BY <1>1, <2>1
    <3> QED BY <1>1, <2>1, <3>1, TopLimb
  <2>3. Limb(m, k - 1) = y
    BY <1>1, LimbFacts
  <2>4. o \in 0 .. p - 1
    BY <1>1, <2>1, Parts
  <2> QED BY <2>2, <2>3, <2>4
<1>6. DoubleLimb(n, k) = x * Base + y
  BY DEF DoubleLimb
<1> HIDE DEF x, y, m, o, p
<1>7. x \in Int /\ y \in Int /\ x \in Nat /\ y \in Nat /\ p \in Int /\ o \in Int
  BY <1>2, <1>3, <1>5, BaseAssumption
<1>8. /\ x * (Base * p) = (x * Base) * p /\ x * Base \in Nat /\ (x * Base) * p \in Nat
      /\ y * p \in Nat /\ (x * Base + y) * p = (x * Base) * p + y * p
      /\ ((x * Base + y) + 1) * p = (x * Base + y) * p + p
      /\ (x + 1) * Base = x * Base + Base
  <2>1. x * Base \in Nat /\ x * Base \in Int /\ y * p \in Nat
    BY <1>3, <1>7, Bases, Products
  <2>2. (x * Base) * p \in Nat /\ x * (Base * p) = (x * Base) * p
    BY <1>3, <1>7, <2>1, Bases, Products
  <2> DEFINE xb == x * Base
  <2>3. xb \in Int
    BY <2>1
  <2> HIDE DEF xb
  <2>4. (xb + y) * p = xb * p + y * p
    BY <1>7, <2>3
  <2>5. ((xb + y) + 1) * p = (xb + y) * p + p
    BY <1>7, <2>3
  <2>6. (x + 1) * Base = x * Base + Base
    BY <1>7, Bases
  <2> QED BY <2>1, <2>2, <2>4, <2>5, <2>6 DEF xb
<1>9. (x + 1) * Base <= Base * Base
  <2>1. x + 1 \in Int /\ x + 1 <= Base
    BY <1>2, <1>7, BaseAssumption
  <2> QED BY <2>1, Bases, Monotone
<1> DEFINE xb == x * Base
           xbp == (x * Base) * p
           yp == y * p
           d == x * Base + y
           bb == Base * Base
           x1b == (x + 1) * Base
           dp == d * p
           d1p == (d + 1) * p
<1>10. n = xbp + (yp + o) /\ dp = xbp + yp /\ d1p = dp + p /\ x1b = xb + Base /\ x1b <= bb
  BY <1>3, <1>4, <1>5, <1>8, <1>9
<1>11. xb \in Nat /\ xbp \in Nat /\ yp \in Nat /\ d = xb + y /\ bb \in Int
  BY <1>8, Bases, Products
<1> HIDE DEF xb, xbp, yp, d, bb, x1b, dp, d1p
<1>12. d \in Nat /\ d < bb /\ dp <= n /\ n < d1p /\ xb <= d /\ d < x1b
  BY <1>2, <1>5, <1>7, <1>10, <1>11, Bases
<1> QED BY <1>6, <1>12 DEF xb, d, bb, x1b, dp, d1p, x, p

\* A number of k + 1 limbs, moved up by s limbs
LEMMA MovedUp ==
  ASSUME NEW d \in Nat, NEW k \in Nat, d < Power(k + 1), NEW s \in Nat
  PROVE  \E e \in 0 .. Power(k + s) - 1 : d * Power(s) = Limb(d, k) * Power(k + s) + e
<1> DEFINE l == Limb(d, k)
           o == d % Power(k)
           p == Power(k)
           q == Power(s)
<1>1. d = l * p + o /\ o \in 0 .. p - 1 /\ l \in Nat
  BY TopLimb, Parts, LimbFacts
<1>2. p \in Nat \ {0} /\ q \in Nat \ {0} /\ Power(k + s) = p * q
  BY PowerFacts, PowerOfSum
<1> HIDE DEF l, o, p, q
<1>3. /\ l * p \in Nat /\ o * q \in Nat /\ p * q \in Nat /\ l * (p * q) = (l * p) * q
      /\ (l * p) * q \in Nat
  BY <1>1, <1>2, Products
<1>4. (l * p + o) * q = (l * p) * q + o * q /\ (o + 1) * q = o * q + q
  <2> DEFINE lp == l * p
  <2>1. lp \in Int /\ o \in Int /\ q \in Int
    BY <1>1, <1>2, <1>3
  <2> HIDE DEF lp
  <2>2. (lp + o) * q = lp * q + o * q /\ (o + 1) * q = o * q + q
    BY <2>1
  <2> QED BY <2>2 DEF lp
<1>5. (o + 1) * q <= p * q
  BY <1>1, <1>2, Monotone
<1>6. o * q \in 0 .. p * q - 1
  BY <1>2, <1>3, <1>4, <1>5
<1> QED BY <1>1, <1>2, <1>3, <1>4, <1>6 DEF l, q

----------------------------------------------------------------------------
(* One guess.                                                              *)

\* Guessed, of a remainder n of o + 1 limbs and a divisor d of k + 1
GuessOf(n, d, k, o) ==
  LET top == Limb(d, k)
      v == DoubleLimb(n, o) \div top
  IN IF Limb(n, o) > top
     THEN [digit |-> DoubleLimb(n, o) \div DoubleLimb(d, k), r_order |-> o]
     ELSE IF v < Base THEN [digit |-> v, r_order |-> o - 1]
     ELSE [digit |-> 1, r_order |-> o]

\* A multiple of the divisor's top limb that is no more than the remainder makes a
\* multiple of the divisor that is less than twice as much.
LEMMA GuessSize ==
  ASSUME NEW g \in 1 .. Base - 1, NEW top \in 1 .. Base - 1, NEW p \in Nat \ {0},
         NEW e \in 0 .. p - 1, NEW n \in Nat, g * top * p <= n
  PROVE  /\ g * (top * p + e) \in Nat /\ Abs(n - g * (top * p + e)) < n
         /\ n - g * top * p < Base * p => Abs(n - g * (top * p + e)) < Base * p
         /\ g * (top * p + e) < g * (top + 1) * p
<1>1. /\ g \in Nat \ {0} /\ g \in Nat /\ g \in Int /\ top \in Nat /\ top \in Int /\ p \in Nat
      /\ p \in Int /\ e \in Nat /\ e \in Int /\ g <= Base /\ 1 <= top
  BY BaseAssumption
<1> DEFINE m == g * top * p
           f == g * e
           gp == g * p
           bp == Base * p
           t == g * (top * p + e)
           u == g * (top + 1) * p
<1>2. m \in Nat /\ f \in Nat /\ gp \in Nat /\ bp \in Nat
  <2>1. g * top \in Nat
    BY <1>1, Products
  <2> DEFINE gt == g * top
  <2> HIDE DEF gt
  <2>2. gt * p \in Nat
    BY <1>1, <2>1, Products DEF gt
  <2> QED BY <1>1, <2>2, Bases, Products DEF gt
<1>3. t = m + f
  <2>1. top * p \in Int /\ (top * p) * g \in Int
    BY <1>1, Products
  <2> DEFINE tp == top * p
  <2>2. tp \in Int
    BY <2>1
  <2>3. g * tp = g * top * p
    BY <1>1, Products
  <2> HIDE DEF tp
  <2>4. g * (tp + e) = g * tp + g * e
    BY <1>1, <2>2, Products
  <2> QED BY <2>3, <2>4 DEF tp
<1>4. u = m + gp
  <2> DEFINE gt == g * top
  <2>1. gt \in Int
    BY <1>1, Products
  <2>2. g * (top + 1) = gt + g
    BY <1>1
  <2> HIDE DEF gt
  <2>3. (gt + g) * p = gt * p + g * p
    BY <1>1, <2>1
  <2> QED BY <2>2, <2>3 DEF gt
<1>5. f < gp
  <2>1. g * (e + 1) <= g * p /\ g * (e + 1) = g * e + g
    BY <1>1, Monotone, Products
  <2> QED BY <1>1, <1>2, <2>1
<1>6. gp <= m
  <2>1. g * 1 <= g * top /\ g * 1 = g /\ g * top \in Int
    BY <1>1, Monotone, Products
  <2>2. g <= g * top
    BY <2>1
  <2> DEFINE gt == g * top
  <2> HIDE DEF gt
  <2>3. gt \in Int /\ g <= gt
    BY <2>1, <2>2 DEF gt
  <2>4. g * p <= gt * p
    BY <1>1, <2>3, Monotone
  <2> QED BY <2>4 DEF gt
<1>7. gp <= bp
  BY <1>1, Bases, Monotone
<1>8. 0 < gp
  <2>1. 1 * p <= g * p /\ 1 * p = p
    BY <1>1, Monotone, Products
  <2> QED BY <1>1, <1>2, <2>1
<1>9. m <= n
  OBVIOUS
<1> HIDE DEF m, f, gp, bp, t, u
<1>10. t \in Nat /\ Abs(n - t) < n /\ t < u
  BY <1>2, <1>3, <1>4, <1>5, <1>6, <1>8, <1>9 DEF Abs
<1>11. n - m < bp => Abs(n - t) < bp
  BY <1>2, <1>3, <1>5, <1>7, <1>9 DEF Abs
<1> QED BY <1>10, <1>11 DEF m, bp, t, u

\* The remainder has more limbs than the divisor, or as many.
LEMMA Ordered ==
  ASSUME NEW n \in Nat, NEW d \in Nat, NEW k \in Nat, NEW o \in Nat,
         Power(k) <= d, d <= n, n < Power(o + 1)
  PROVE  k <= o
<1>1. SUFFICES ASSUME o < k PROVE FALSE
  OBVIOUS
<1>2. o + 1 \in Nat /\ o + 1 <= k /\ Power(o + 1) \in Nat /\ Power(k) \in Nat
  BY <1>1, PowerFacts
<1>3. Power(o + 1) <= Power(k)
  BY <1>2, PowersGrow
<1> QED BY <1>2, <1>3

\* The digit that is guessed, from the top limbs
LEMMA GuessedDigit ==
  ASSUME NEW n \in Nat, NEW d \in Nat, NEW k \in Nat \ {0}, NEW o \in Nat,
         Power(k) <= d, d < Power(k + 1), Power(o) <= n, n < Power(o + 1), d <= n,
         NEW g, NEW w, g = GuessOf(n, d, k, o).digit, w = GuessOf(n, d, k, o).r_order
  PROVE  /\ g \in 1 .. Base - 1 /\ w \in Nat /\ k <= w
         /\ g * Limb(d, k) * Power(w) <= n
         /\ w = o \/ /\ w = o - 1 /\ n - g * Limb(d, k) * Power(w) < Base * Power(w)
                     /\ g * (Limb(d, k) + 1) * Power(w) <= Power(o + 1)
<1>1. k <= o /\ o \in Nat \ {0} /\ o - 1 \in Nat /\ (o - 1) + 1 = o
  <2>1. k <= o
    BY Ordered
  <2> QED BY <2>1
<1> DEFINE x == Limb(n, o)
           y == DoubleLimb(n, o)
           top == Limb(d, k)
           z == DoubleLimb(d, k)
           p == Power(o - 1)
           q == Power(o)
<1>2. /\ y \in Nat /\ y < Base * Base /\ y * p <= n /\ n < (y + 1) * p
      /\ x * Base <= y /\ y < (x + 1) * Base
  BY <1>1, TopLimbs
<1>3. z \in Nat /\ top * Base <= z /\ z < (top + 1) * Base
  BY TopLimbs
<1>4. x \in 1 .. Base - 1 /\ top \in 1 .. Base - 1
  BY TopLimb
<1>5. p \in Nat \ {0} /\ q \in Nat \ {0} /\ q = Base * p /\ Power(o + 1) = Base * q
  <2>1. Power((o - 1) + 1) = Base * Power(o - 1) /\ Power(o - 1) \in Nat \ {0}
    BY <1>1, PowerFacts
  <2>2. Power(o) \in Nat \ {0} /\ Power(o + 1) = Base * Power(o)
    BY PowerFacts
  <2> QED BY <1>1, <2>1, <2>2
<1>6. x * q <= n
  <2>1. n = x * q + (n % q) /\ n % q \in Nat
    BY TopLimb, Parts
  <2>2. x * q \in Int
    BY <1>4, <1>5, BaseAssumption, Products
  <2> HIDE DEF x, q
  <2>3. PICK r \in Nat : n = x * q + r
    BY <2>1, Zenon
  <2> QED BY <2>2, <2>3
<1>7. o = k => top <= x
  <2> HIDE DEF x, top
  <2> SUFFICES ASSUME o = k, x < top PROVE FALSE
    BY <1>4, BaseAssumption
  <2>1. n < (x + 1) * q /\ top * q <= d
    <3>1. n = x * q + (n % q) /\ n % q \in 0 .. q - 1
      BY TopLimb, Parts DEF x
    <3>2. d = top * q + (d % q) /\ d % q \in 0 .. q - 1
      BY TopLimb, Parts DEF top
    <3> HIDE DEF q
    <3>3. /\ x * q \in Int /\ top * q \in Int /\ x \in Int /\ q \in Int
      BY <1>4, <1>5, BaseAssumption, Products
    <3>4. (x + 1) * q = x * q + q
      BY <3>3
    <3> DEFINE xq == x * q
               tq == top * q
    <3>5. PICK r1 \in 0 .. q - 1 : n = xq + r1
      BY <3>1, Zenon
    <3>6. PICK r2 \in 0 .. q - 1 : d = tq + r2
      BY <3>2, Zenon
    <3>7. xq \in Int /\ tq \in Int
      BY <3>3
    <3> HIDE DEF xq, tq
    <3>8. n < xq + q /\ tq <= d
      BY <1>5, <3>5, <3>6, <3>7
    <3> QED BY <3>4, <3>8 DEF xq, tq
  <2>2. (x + 1) * q <= top * q
    BY <1>4, <1>5, BaseAssumption, Monotone
  <2>3. (x + 1) * q \in Int /\ top * q \in Int
    BY <1>4, <1>5, BaseAssumption, Products
  <2> QED BY <2>1, <2>2, <2>3
<1> HIDE DEF x, y, top, z, p, q
<1>8. /\ x \in Nat /\ top \in Nat \ {0} /\ top \in Nat /\ top \in Int /\ x \in Int
      /\ p \in Nat /\ q \in Nat /\ p \in Int /\ q \in Int /\ y \in Int /\ z \in Int
  BY <1>2, <1>3, <1>4, <1>5, BaseAssumption
<1>9. GuessOf(n, d, k, o) = IF x > top THEN [digit |-> y \div z, r_order |-> o]
                            ELSE IF y \div top < Base THEN [digit |-> y \div top, r_order |-> o - 1]
                            ELSE [digit |-> 1, r_order |-> o]
  BY Zenon DEF GuessOf, x, y, top, z
\* Two limbs by two: the quotient is a limb.
<1>10. CASE x > top
  <2>1. g = y \div z /\ w = o
    BY <1>9, <1>10
  <2>2. z \in Nat \ {0} /\ z <= y /\ Base <= z
    <3>1. 1 * Base <= top * Base /\ 1 * Base = Base /\ top * Base \in Int
      BY <1>4, <1>8, Bases, Monotone, Products
    <3>2. (top + 1) * Base <= x * Base /\ (top + 1) * Base \in Int /\ x * Base \in Int
      BY <1>8, <1>10, Bases, Monotone, Products
    <3> QED BY <1>2, <1>3, <1>8, <3>1, <3>2, Bases
  <2>3. g \in Nat /\ g * z <= y /\ y < (g + 1) * z
    <3> DEFINE r == y % z
    <3>1. y \div z \in Int /\ r \in 0 .. z - 1 /\ y = z * (y \div z) + r
      BY <1>2, <2>2, Division, SMTT(60)
    <3>2. y \div z \in Nat
      BY <1>2, <2>2, NaturalDivision
    <3> HIDE DEF r
    <3>3. g \in Nat /\ y = z * g + r
      BY <2>1, <3>1, <3>2
    <3>4. z * g = g * z /\ (g + 1) * z = g * z + z /\ g * z \in Nat
      BY <1>8, <2>2, <3>3, Products
    <3> QED BY <1>8, <2>2, <3>1, <3>3, <3>4
  <2>4. g < Base
    <3>1. SUFFICES ASSUME Base <= g PROVE FALSE
      BY <2>3, Bases
    <3>2. Base * z <= g * z /\ Base * Base <= Base * z
      BY <1>8, <2>2, <2>3, <3>1, Bases, Monotone
    <3>3. Base * z \in Int /\ g * z \in Int /\ Base * Base \in Int
      BY <1>8, <2>3, Bases, Products
    <3> QED BY <1>2, <1>8, <2>3, <3>2, <3>3
  <2>5. g # 0
    <3>1. g = 0 => (g + 1) * z = z
      BY <1>8
    <3> QED BY <1>8, <2>2, <2>3, <3>1
  <2>6. g * top * q <= n
    <3>1. g * (top * Base) <= g * z
      BY <1>3, <1>8, <2>3, Bases, Monotone, Products
    <3>2. g * (top * Base) <= y /\ g * (top * Base) \in Int
      <4>1. g * (top * Base) \in Int /\ g * z \in Int
        BY <1>8, <2>3, Bases, Products
      <4> QED BY <1>8, <2>3, <3>1, <4>1
    <3>3. (g * (top * Base)) * p <= y * p
      BY <1>8, <3>2, Monotone
    <3>4. (g * (top * Base)) * p = g * top * q
      <4>1. g * (top * Base) = (g * top) * Base /\ g * top \in Int
        BY <1>8, <2>3, Bases, Products
      <4> DEFINE gt == g * top
      <4> HIDE DEF gt
      <4>2. gt * (Base * p) = (gt * Base) * p
        BY <1>8, <4>1, Bases, Products DEF gt
      <4> QED BY <1>5, <4>1, <4>2 DEF gt
    <3>5. y * p \in Int /\ g * top * q \in Int
      <4>1. g * top \in Int
        BY <1>8, <2>3, Products
      <4> QED BY <1>8, <4>1, Products
    <3> QED BY <1>2, <3>3, <3>4, <3>5
  <2> QED BY <1>1, <2>1, <2>3, <2>4, <2>5, <2>6, Bases DEF top, q
\* Two limbs by one, where that is a limb
<1>11. CASE ~(x > top) /\ y \div top < Base
  <2>1. g = y \div top /\ w = o - 1
    BY <1>9, <1>11
  <2>2. g \in Nat /\ g * top <= y /\ y < (g + 1) * top
    <3> DEFINE r == y % top
    <3>1. y \div top \in Int /\ r \in 0 .. top - 1 /\ y = top * (y \div top) + r
      BY <1>2, <1>8, Division
    <3>2. y \div top \in Nat
      BY <1>2, <1>8, NaturalDivision
    <3> HIDE DEF r
    <3>3. g \in Nat /\ y = top * g + r
      BY <2>1, <3>1, <3>2
    <3>4. top * g = g * top /\ (g + 1) * top = g * top + top /\ g * top \in Nat
      BY <1>8, <3>3, Products
    <3> QED BY <1>8, <3>1, <3>3, <3>4
  <2>3. g < Base /\ g \in Int
    BY <1>11, <2>1, <2>2
  <2>4. g # 0
    <3>1. 1 * Base <= x * Base /\ 1 * Base = Base /\ x * Base \in Int
      BY <1>4, <1>8, Bases, Monotone, Products
    <3>2. Base <= y /\ top < Base
      BY <1>2, <1>4, <3>1, Bases
    <3>3. SUFFICES ASSUME g = 0 PROVE FALSE
      OBVIOUS
    <3>4. y < 1 * top /\ 1 * top = top
      BY <1>8, <2>2, <3>3
    <3> QED BY <1>8, <3>2, <3>4, Bases
  <2>5. k # o
    <3>1. SUFFICES ASSUME k = o PROVE FALSE
      OBVIOUS
    <3>2. x = top
      BY <1>7, <1>8, <1>11, <3>1
    <3>3. top * Base <= y /\ Base * top = top * Base
      BY <1>2, <1>8, <3>2, Bases, Products
    <3>4. (g + 1) * top <= Base * top
      BY <1>8, <2>3, Bases, Monotone
    <3>5. (g + 1) * top \in Int /\ Base * top \in Int
      BY <1>8, <2>3, Bases, Products
    <3> QED BY <1>8, <2>2, <3>3, <3>4, <3>5
  <2>6. g * top * p <= n /\ n - g * top * p < Base * p
    <3> DEFINE gt == g * top
    <3>1. gt \in Int /\ gt <= y /\ y < gt + top
      <4>1. (g + 1) * top = g * top + top /\ g * top \in Int
        BY <1>8, <2>3, Products
      <4> QED BY <1>8, <2>2, <4>1
    <3> HIDE DEF gt
    <3>2. gt * p <= y * p /\ gt * p \in Int /\ y * p \in Int
      BY <1>8, <3>1, Monotone, Products
    <3>3. (y + 1) * p <= (gt + Base) * p
      BY <1>4, <1>8, <3>1, Bases, Monotone
    <3>4. (gt + Base) * p = gt * p + Base * p /\ (y + 1) * p \in Int /\ Base * p \in Int
      BY <1>8, <3>1, Bases, Products
    <3>5. gt * p <= n /\ n - gt * p < Base * p
      BY <1>2, <3>2, <3>3, <3>4
    <3> QED BY <3>5 DEF gt
  <2>7. g * (top + 1) * p <= Base * q
    <3>1. g * (top + 1) <= Base * (top + 1) /\ Base * (top + 1) <= Base * Base
      BY <1>4, <1>8, <2>2, <2>3, Bases, Monotone
    <3> DEFINE u == g * (top + 1)
               v == Base * Base
    <3>2. u <= v /\ u \in Int /\ v \in Int
      <4>1. Base * (top + 1) \in Int /\ g * (top + 1) \in Int /\ v \in Int
        BY <1>8, <2>3, Bases, Products
      <4> QED BY <3>1, <4>1
    <3> HIDE DEF u, v
    <3>3. u * p <= v * p
      BY <1>8, <3>2, Monotone
    <3>4. (Base * Base) * p = Base * (Base * p)
      BY <1>8, Bases, Products
    <3> QED BY <1>5, <3>3, <3>4 DEF u, v
  <2>8. o - 1 \in Nat /\ k <= o - 1 /\ g \in 1 .. Base - 1
    BY <1>1, <2>2, <2>3, <2>4, <2>5, Bases
  <2> QED BY <1>5, <2>1, <2>6, <2>7, <2>8 DEF top, p
\* The top limbs are equal, and one is not too much.
<1>12. CASE ~(x > top) /\ ~(y \div top < Base)
  <2>1. g = 1 /\ w = o
    BY <1>9, <1>12
  <2>2. top <= x
    <3>1. SUFFICES ASSUME x < top PROVE FALSE
      BY <1>8
    <3> DEFINE v == y \div top
               r == y % top
    <3>2. v \in Int /\ r \in 0 .. top - 1 /\ y = top * v + r
      BY <1>2, <1>8, Division
    <3>3. Base <= v
      BY <1>12, <3>2, Bases
    <3> HIDE DEF v, r
    <3>4. top * Base <= top * v /\ top * Base \in Int /\ top * v \in Int /\ Base * top = top * Base
      BY <1>8, <3>2, <3>3, Bases, Monotone, Products
    <3>5. (x + 1) * Base <= top * Base /\ (x + 1) * Base \in Int
      BY <1>8, <3>1, Bases, Monotone, Products
    <3> QED BY <1>2, <1>8, <3>2, <3>4, <3>5
  <2>3. top * q <= x * q /\ top * q \in Int /\ x * q \in Int
    BY <1>8, <2>2, Monotone, Products
  <2>4. g * top = top
    BY <1>8, <2>1
  <2>5. g * top * q <= n
    BY <1>6, <2>3, <2>4
  <2> QED BY <1>1, <2>1, <2>5, Bases DEF top, q
<1> QED BY <1>10, <1>11, <1>12

\* What a guess is good for: the multiple of the divisor that is subtracted leaves less
\* of the remainder, and needs a limb more only if it is for the remainder's top limb.
LEMMA GuessFits ==
  ASSUME NEW n \in Nat, NEW d \in Nat, NEW k \in Nat \ {0}, NEW o \in Nat,
         Power(k) <= d, d < Power(k + 1), Power(o) <= n, n < Power(o + 1), d <= n,
         NEW g, NEW w, g = GuessOf(n, d, k, o).digit, w = GuessOf(n, d, k, o).r_order
  PROVE  /\ g \in 1 .. Base - 1 /\ w \in Nat /\ k <= w /\ w <= o
         /\ g * Limb(d, k) * Power(w) <= n
         /\ g * d * Power(w - k) \in Nat
         /\ Abs(n - g * d * Power(w - k)) < n
         /\ Abs(n - g * d * Power(w - k)) < Power(w + 1)
         /\ w = o \/ g * d * Power(w - k) < Power(o + 1)
<1>1. /\ g \in 1 .. Base - 1 /\ w \in Nat /\ k <= w
      /\ g * Limb(d, k) * Power(w) <= n
      /\ w = o \/ /\ w = o - 1 /\ n - g * Limb(d, k) * Power(w) < Base * Power(w)
                  /\ g * (Limb(d, k) + 1) * Power(w) <= Power(o + 1)
  BY GuessedDigit, SMTT(60)
<1> DEFINE s == w - k
           top == Limb(d, k)
           p == Power(w)
           t == g * d * Power(s)
<1>2. s \in Nat /\ k + s = w
  BY <1>1
<1>3. PICK e \in 0 .. p - 1 : d * Power(s) = top * p + e
  <2>1. \E e \in 0 .. Power(k + s) - 1 : d * Power(s) = top * Power(k + s) + e
    <3> HIDE DEF s
    <3> QED BY <1>2, MovedUp
  <2> QED BY <1>2, <2>1
<1>4. top \in 1 .. Base - 1 /\ p \in Nat \ {0} /\ Power(w + 1) = Base * p /\ Power(s) \in Nat
  BY <1>1, <1>2, TopLimb, PowerFacts
<1>5. t = g * (top * p + e)
  <2>1. g \in Int /\ d \in Int /\ Power(s) \in Int
    BY <1>1, <1>4, BaseAssumption
  <2>2. g * (d * Power(s)) = t
    <3> HIDE DEF s
    <3> QED BY <2>1, Products
  <2> QED BY <1>3, <2>2
<1>6. /\ t \in Nat /\ Abs(n - t) < n
      /\ n - g * top * p < Base * p => Abs(n - t) < Base * p
      /\ t < g * (top + 1) * p
  <2>1. g * top * p <= n
    BY <1>1
  <2> HIDE DEF top, p, t
  <2> QED BY <1>1, <1>3, <1>4, <1>5, <2>1, GuessSize
<1> DEFINE u == g * (top + 1) * p
<1>7. Abs(n - t) < Power(w + 1) /\ (w = o \/ t < Power(o + 1))
  <2>1. CASE w = o
    <3>1. n < Power(w + 1) /\ Power(w + 1) \in Nat /\ Abs(n - t) \in Int
      <4> HIDE DEF t
      <4> QED BY <1>1, <1>6, <2>1, PowerFacts DEF Abs
    <3> QED BY <1>6, <2>1, <3>1
  <2>2. CASE w # o
    <3>1. Abs(n - t) < Base * p /\ u <= Power(o + 1)
      BY <1>1, <1>6, <2>2
    <3>2. t < u
      BY <1>6
    <3>3. u \in Int /\ Power(o + 1) \in Int
      <4>1. g \in Int /\ top + 1 \in Int /\ p \in Int
        BY <1>1, <1>4, BaseAssumption
      <4> DEFINE f == top + 1
      <4> HIDE DEF top, p, f
      <4>2. g * f \in Int
        BY <4>1, Products DEF f
      <4> DEFINE h == g * f
      <4> HIDE DEF h
      <4>3. h * p \in Int
        BY <4>1, <4>2, Products DEF h
      <4> QED BY <4>3, PowerFacts DEF h, f
    <3> HIDE DEF t, u
    <3>4. t < Power(o + 1)
      BY <1>6, <3>1, <3>2, <3>3
    <3> QED BY <1>4, <3>1, <3>4
  <2> QED BY <2>1, <2>2
<1>8. w <= o
  BY <1>1
<1> QED BY <1>1, <1>6, <1>7, <1>8

\* A multiple that does not fit the type is for the type's top limb, all of which is used.
AtTop(w, m, top) == w + 1 = m /\ top = Base

LEMMA WrapsAtTop ==
  ASSUME NEW n \in Nat, NEW t \in Nat, NEW w \in Nat, NEW o \in Nat, NEW m \in Nat \ {0},
         NEW top \in 2 .. Base, Base % top = 0, NEW l \in Nat, l + 1 = m,
         n < Power(l) * top, Power(o) <= n, n < Power(o + 1), w <= o,
         Abs(n - t) < n, w = o \/ t < Power(o + 1), Power(m) <= t
  PROVE  AtTop(w, m, top)
<1>1. /\ Power(l) \in Nat \ {0} /\ Power(m) = Base * Power(l) /\ Power(m) \in Nat
      /\ Power(o) \in Nat /\ Power(o + 1) \in Nat /\ Power(o + 1) = Base * Power(o)
  BY PowerFacts
<1>2. t < 2 * n
  BY DEF Abs
<1> DEFINE p == Power(l)
<1>3. p \in Nat /\ p \in Int /\ p * top \in Int /\ n < p * top /\ Base * p <= t
  BY <1>1, BaseAssumption, Products
<1>4. top = Base
  <2> DEFINE c == Base \div top
  <2>1. c \in Int /\ Base = top * c
    <3>1. c \in Int /\ Base % top \in 0 .. top - 1 /\ Base = top * c + (Base % top)
      BY BaseAssumption, Division, SMTT(60)
    <3> HIDE DEF c
    <3>2. top * c \in Int
      BY <3>1, BaseAssumption, Products
    <3> QED BY <3>1, <3>2
  <2> HIDE DEF c
  <2>2. c >= 1
    <3>1. SUFFICES ASSUME c <= 0 PROVE FALSE
      BY <2>1
    <3>2. top * c <= top * 0 /\ top * 0 = 0
      BY <2>1, <3>1, BaseAssumption, Monotone, Products
    <3> QED BY <2>1, <3>2, BaseAssumption
  <2>3. c < 2
    <3>1. SUFFICES ASSUME 2 <= c PROVE FALSE
      BY <2>1
    <3>2. top * 2 <= top * c
      BY <2>1, <3>1, BaseAssumption, Monotone
    <3>3. (top * 2) * p <= Base * p
      BY <1>3, <2>1, <3>2, BaseAssumption, Monotone
    <3>4. (top * 2) * p = 2 * (p * top)
      BY <1>3, BaseAssumption
    <3> DEFINE pt == p * top
               bp == Base * p
    <3>5. pt \in Int /\ bp \in Int /\ n < pt /\ bp <= t /\ 2 * pt <= bp
      BY <1>3, <3>3, <3>4, BaseAssumption, Products
    <3> HIDE DEF pt, bp
    <3> QED BY <1>2, <3>5
  <2>4. c = 1
    BY <2>1, <2>2, <2>3
  <2> QED BY <2>1, <2>4, BaseAssumption
<1>5. n < Power(m)
  <2>1. p * top = Power(m)
    BY <1>1, <1>4, BaseAssumption, Products
  <2> QED BY <1>3, <2>1
<1>6. o < m
  <2>1. SUFFICES ASSUME m <= o PROVE FALSE
    OBVIOUS
  <2>2. Power(m) <= Power(o)
    BY <2>1, PowersGrow
  <2> QED BY <1>1, <1>5, <2>2
<1>7. m <= o + 1
  <2>1. SUFFICES ASSUME o + 1 < m PROVE FALSE
    BY <1>6
  <2>2. o + 1 <= l /\ Power(o + 1) <= p
    BY <2>1, PowersGrow
  <2>3. 2 * Power(o + 1) <= Base * Power(o + 1) /\ Base * Power(o + 1) <= Base * p
    BY <1>1, <1>3, <2>2, Bases, BaseAssumption, Monotone
  <2>4. Base * Power(o + 1) \in Int /\ Base * p \in Int
    BY <1>1, <1>3, Bases, Products
  <2> HIDE DEF p
  <2> QED BY <1>1, <1>2, <1>3, <2>3, <2>4
<1>8. w = o
  <2>1. SUFFICES ASSUME t < Power(o + 1) PROVE FALSE
    OBVIOUS
  <2>2. o + 1 = m
    BY <1>6, <1>7
  <2> QED BY <1>1, <2>1, <2>2
<1> QED BY <1>4, <1>6, <1>7, <1>8 DEF AtTop

\* The remainder after a guess is computed without a borrow: where the multiple t that
\* is subtracted does not fit, what is missing is what the type cuts off.
Reduces(n, t, w, m, mod) ==
  LET wraps == Size(t) > m
      negated == ((Power(w + 1) - 1 - n) % mod) + 1
      rem == IF wraps THEN negated + (t % Power(m)) ELSE Abs(n - t)
  IN rem = Abs(n - t) /\ rem % mod = rem /\ rem < mod /\ (wraps => n <= t)

LEMMA ReducedTo ==
  ASSUME NEW n \in Nat, NEW t \in Nat, NEW w \in Nat, NEW m \in Nat \ {0}, NEW mod \in Nat,
         mod <= Power(m), n < mod, Abs(n - t) < n,
         Power(m) <= t => w + 1 = m /\ mod = Power(m)
  PROVE  Reduces(n, t, w, m, mod)
<1> DEFINE wraps == Size(t) > m
           negated == ((Power(w + 1) - 1 - n) % mod) + 1
           rem == IF wraps THEN negated + (t % Power(m)) ELSE Abs(n - t)
           p == Power(m)
           a == Abs(n - t)
<1>1. wraps <=> p <= t
  <2>1. t < Power(m) <=> Size(t) <= m
    BY Sizes
  <2>2. Size(t) \in Nat /\ Power(m) \in Nat
    BY Sizes, PowerFacts
  <2> QED BY <2>1, <2>2
<1>2. p \in Nat \ {0} /\ mod \in Nat \ {0} /\ t < 2 * n /\ a \in Nat /\ a < mod
  BY PowerFacts DEF Abs
<1>3. ASSUME p <= t PROVE negated + (t % p) = a
  <2>1. mod = p /\ w + 1 = m
    BY <1>3
  <2>2. t % p = t - p
    <3> HIDE DEF p
    <3>1. t = p * 1 + (t - p) /\ t - p \in 0 .. p - 1
      BY <1>2, <1>3, <2>1, Products
    <3>2. p \in Nat \ {0} /\ 1 \in Int
      BY <1>2
    <3> DEFINE r == t - p
    <3>3. t = p * 1 + r /\ r \in 0 .. p - 1
      BY <3>1
    <3> HIDE DEF r
    <3>4. t % p = r
      BY <3>2, <3>3, DivisionUnique, SMTT(60)
    <3> QED BY <3>4 DEF r
  <2>3. (p - 1 - n) % p = p - 1 - n
    <3> DEFINE r == p - 1 - n
    <3>1. r \in Nat /\ r < p
      BY <1>2, <2>1
    <3> HIDE DEF r
    <3>2. r % p = r
      BY <1>2, <3>1, NaturalDivision
    <3> QED BY <3>2 DEF r
  <2>4. negated = (p - 1 - n) + 1
    BY <2>1, <2>3
  <2>5. a = t - n
    BY <1>2, <1>3, <2>1 DEF Abs
  <2> HIDE DEF negated, a, p
  <2>6. negated + (t - p) = a
    BY <1>2, <2>4, <2>5
  <2> QED BY <2>2, <2>6
<1>4. rem = a
  <2> HIDE DEF wraps, negated
  <2> QED BY <1>1, <1>3, Zenon
<1>5. a % mod = a
  <2> HIDE DEF a
  <2> QED BY <1>2, NaturalDivision
<1>6. wraps => n <= t
  <2> HIDE DEF wraps
  <2> QED BY <1>1, <1>2
<1> HIDE DEF rem, a, wraps
<1>7. rem = a /\ rem % mod = rem /\ rem < mod /\ (wraps => n <= t)
  BY <1>2, <1>4, <1>5, <1>6
<1> QED BY <1>7, Zenon DEF rem, a, wraps, Reduces

\* One quotient of d and remainder make up the same as another.
SameWhole(d, quo1, rem1, quo2, rem2) == quo1 * d + rem1 = quo2 * d + rem2

\* The quotient and the remainder stay in step: of a remainder n with its sign, m,
\* a guess leaves r.
LEMMA InStep ==
  ASSUME NEW c \in Int, NEW d \in Nat, NEW n \in Nat, NEW g \in Nat, NEW p \in Nat,
         NEW x \in Int, NEW m \in Int, NEW r \in Int,
         \/ x = g /\ m = n /\ r = n - g * d * p
         \/ x = -g /\ m = -n /\ r = g * d * p - n
  PROVE  SameWhole(d, c, m, c + x * p, r)
<1> DEFINE t == g * d * p
<1>1. t \in Nat /\ t = g * p * d
  <2>1. g * d \in Nat
    BY Products
  <2> QED BY <2>1, Products
<1>2. (x * p) * d = IF x = g THEN t ELSE -t
  <2>1. CASE x = g
    BY <1>1, <2>1
  <2>2. CASE x # g
    <3>1. ((-g) * p) * d = -(g * p * d) /\ x = -g
      BY <2>2
    <3> QED BY <1>1, <2>2, <3>1
  <2> QED BY <2>1, <2>2
<1> DEFINE cd == c * d
           xp == x * p
           y == xp * d
<1>3. (c + xp) * d = cd + y /\ xp \in Int /\ cd \in Int
  <2>1. xp \in Int /\ cd \in Int
    BY Products
  <2> HIDE DEF xp
  <2> QED BY <2>1
<1>4. y = IF x = g THEN t ELSE -t
  BY <1>2
<1> HIDE DEF t, cd, y
<1>5. cd + m = cd + y + r
  <2>1. CASE x = g /\ m = n /\ r = n - t
    BY <1>1, <1>3, <1>4, <2>1
  <2>2. CASE x = -g /\ m = -n /\ r = t - n /\ x # g
    BY <1>1, <1>3, <1>4, <2>2
  <2>3. CASE x = -g /\ m = -n /\ r = t - n /\ x = g
    <3>1. g = 0
      BY <2>3
    <3>2. t = 0
      BY <3>1, Products DEF t
    <3> QED BY <1>1, <1>3, <1>4, <2>3, <3>2
  <2> QED BY <2>1, <2>2, <2>3 DEF t
<1> QED BY <1>3, <1>5 DEF SameWhole, cd, xp

LEMMA Flipped ==
  ASSUME NEW neg \in BOOLEAN, NEW n \in Int, NEW t \in Int
  PROVE  (neg # (n <= t)) <=> (IF n <= t THEN ~neg ELSE neg)
OBVIOUS

\* D is quo times d and m.
MadeUp(D, d, quo, m) == D = quo * d + m

\* The quotient is positive and does not need more limbs than there is room for, also
\* where the guess was too large.
Booked(D, d, k, room, n, c, g, s, neg) ==
  /\ c + Signed(g, neg) * Power(s) \in Nat \ {0}
  /\ c + Signed(g, neg) * Power(s) < Power(room)

LEMMA QuotientFits ==
  ASSUME NEW D \in Nat, NEW d \in Nat, NEW k \in Nat, NEW room \in Nat \ {0},
         Power(k) <= d, d < Power(k + 1), D < Power(room + k),
         NEW n \in Nat, n <= D, NEW c \in Nat, c < Power(room),
         NEW g \in 1 .. Base - 1, NEW s \in Nat, s < room, NEW neg \in BOOLEAN,
         MadeUp(D, d, c, Signed(n, neg)),
         g * Limb(d, k) * Power(k + s) <= n, Abs(n - g * d * Power(s)) < n
  PROVE  Booked(D, d, k, room, n, c, g, s, neg)
<1> DEFINE p == Power(s)
           t == g * d * p
           x == Signed(g, neg)
           q == c + x * p
           a == Abs(n - t)
           r == Signed(a, neg # (n <= t))
           pk == Power(k)
           pr0 == Power(room)
           gp == g * p
<1>1. /\ p \in Nat \ {0} /\ pk \in Nat \ {0} /\ pr0 \in Nat \ {0} /\ g \in Nat \ {0} /\ g \in Nat
      /\ Power(room + k) = pr0 * pk /\ p \in Nat /\ p \in Int /\ pk \in Int /\ pr0 \in Int
      /\ d \in Nat \ {0} /\ pk \in Nat /\ pr0 \in Nat /\ d \in Int /\ g \in Int
  <2>1. p \in Nat \ {0} /\ pk \in Nat \ {0} /\ pr0 \in Nat \ {0}
    BY PowerFacts
  <2>2. Power(room + k) = pr0 * pk
    BY PowerOfSum
  <2>3. g \in Nat \ {0}
    BY BaseAssumption
  <2> HIDE DEF pr0, p
  <2>4. d \in Nat \ {0}
    BY <2>1
  <2> QED BY <2>1, <2>2, <2>3, <2>4
<1>2. t \in Nat
  <2>1. g * d \in Nat
    BY <1>1, Products
  <2> QED BY <1>1, <2>1, Products
<1>3. x \in Int /\ gp \in Nat /\ x * p = (IF neg THEN -gp ELSE gp) /\ q \in Int
  <2>1. gp \in Nat
    BY <1>1, Products
  <2>2. x \in Int /\ x * p = (IF neg THEN -gp ELSE gp)
    <3>1. (-g) * p = -(g * p)
      BY <1>1
    <3> QED BY <1>1, <3>1 DEF Signed
  <2> HIDE DEF x, gp
  <2> QED BY <2>1, <2>2
<1>4. D = q * d + r
  <2> DEFINE m == Signed(n, neg)
  <2>1. /\ m \in Int /\ r \in Int
        /\ \/ x = g /\ m = n /\ r = n - t
           \/ x = -g /\ m = -n /\ r = t - n
    <3> HIDE DEF t
    <3>1. n <= t \/ t < n
      BY <1>2
    <3>2. a = IF n <= t THEN t - n ELSE n - t
      BY <1>2 DEF Abs
    <3>3. a \in Int
      BY <1>2, <3>2
    <3> HIDE DEF a
    <3>4. m = IF neg THEN -n ELSE n
      BY DEF Signed
    <3>5. x = IF neg THEN -g ELSE g
      BY DEF Signed
    <3>6. r = IF (IF n <= t THEN ~neg ELSE neg) THEN -a ELSE a
      BY <1>2, Flipped DEF Signed
    <3> HIDE DEF m, r, x
    <3>7. CASE neg /\ n <= t
      BY <1>2, <3>2, <3>3, <3>4, <3>5, <3>6, <3>7
    <3>8. CASE neg /\ t < n
      BY <1>2, <3>2, <3>3, <3>4, <3>5, <3>6, <3>8
    <3>9. CASE ~neg /\ n <= t
      BY <1>2, <3>2, <3>3, <3>4, <3>5, <3>6, <3>9
    <3>10. CASE ~neg /\ t < n
      BY <1>2, <3>2, <3>3, <3>4, <3>5, <3>6, <3>10
    <3> QED BY <3>1, <3>7, <3>8, <3>9, <3>10
  <2> HIDE DEF m, r, x
  <2>2. SameWhole(d, c, m, c + x * p, r)
    <3>1. g \in Nat /\ p \in Nat /\ x \in Int /\ c \in Int
      BY <1>1, <1>3
    <3> HIDE DEF p
    <3> QED BY <2>1, <3>1, InStep
  <2> QED BY <2>2, Zenon DEF SameWhole, MadeUp, m, q
<1>5. a \in Nat /\ a < D /\ a < n
  <2>1. a < n
    OBVIOUS
  <2>2. a \in Nat
    <3> HIDE DEF t
    <3> QED BY <1>2 DEF Abs
  <2> HIDE DEF a
  <2> QED BY <2>1, <2>2
<1> USE DEF Signed
<1>6. q * d \in Int /\ 0 < q * d
  <2>1. q * d \in Int
    BY <1>1, <1>3, Products
  <2> HIDE DEF q, a
  <2> QED BY <1>4, <1>5, <2>1
<1>7. 0 < q
  <2>1. SUFFICES ASSUME q <= 0 PROVE FALSE
    <3> HIDE DEF q
    <3> QED BY <1>3
  <2> HIDE DEF q
  <2>2. q * d <= 0 * d /\ 0 * d = 0
    BY <1>1, <1>3, <2>1, Monotone, Products
  <2> QED BY <1>6, <2>2
<1>8. D < pr0 * pk /\ pr0 * pk \in Int /\ pr0 * pk <= pr0 * d /\ pr0 * d \in Int
  <2>1. pr0 * pk <= pr0 * d
    BY <1>1, Monotone
  <2>2. pr0 * pk \in Int /\ pr0 * d \in Int
    BY <1>1, Products
  <2> QED BY <1>1, <2>1, <2>2
<1>9. q < pr0
  <2>1. SUFFICES ASSUME pr0 <= q PROVE FALSE
    <3> HIDE DEF q, pr0
    <3> QED BY <1>1, <1>3
  <2>2. pr0 * d <= q * d
    <3> HIDE DEF q, pr0
    <3> QED BY <1>1, <1>3, <2>1, Monotone
  <2>3. CASE neg
    <3>1. q <= c
      <4> HIDE DEF gp
      <4> QED BY <1>3, <2>3
    <3>2. c < pr0
      OBVIOUS
    <3> HIDE DEF q, pr0
    <3> QED BY <1>1, <1>3, <2>1, <3>1, <3>2
  <2>4. CASE ~neg /\ t < n
    <3>1. r = a
      <4> HIDE DEF t, a
      <4> QED BY <1>2, <2>4
    <3> DEFINE qd == q * d
               pd == pr0 * d
               pp == pr0 * pk
    <3>2. qd \in Int /\ pd \in Int /\ pp \in Int /\ D < pp /\ pp <= pd /\ pd <= qd /\ D = qd + a
      BY <1>4, <1>6, <1>8, <2>2, <3>1
    <3> HIDE DEF qd, pd, pp, a
    <3> QED BY <1>5, <3>2
  \* The divisor without what is below its top limb would fit as often as was guessed.
  <2>5. CASE ~neg /\ n <= t
    <3> DEFINE top == Limb(d, k)
               e == d % pk
               h == g * top * Power(k + s)
    <3>1. d = top * pk + e /\ e \in 0 .. pk - 1 /\ top \in 1 .. Base - 1
      BY TopLimb, Parts
    <3>2. Power(k + s) = pk * p /\ h <= n
      BY PowerOfSum
    <3>3. t = h + gp * e /\ h \in Int /\ gp * e \in Int
      <4> HIDE DEF e, top, pk, p
      <4>1. top \in Int /\ e \in Int /\ g \in Int /\ p \in Int /\ pk \in Int
        BY <1>1, <3>1, BaseAssumption
      <4>2. g * (top * pk + e) * p = g * top * (pk * p) + (g * p) * e
        BY <4>1
      <4>3. g * top * (pk * p) \in Int /\ (g * p) * e \in Int
        <5>1. g * top \in Int /\ pk * p \in Int /\ g * p \in Int
          BY <4>1, Products
        <5> QED BY <4>1, <5>1, Products
      <4> QED BY <3>1, <3>2, <4>2, <4>3
    <3>4. a = t - n
      <4>1. n - t <= 0
        <5> HIDE DEF t
        <5> QED BY <1>2, <2>5
      <4> HIDE DEF t
      <4> QED BY <1>2, <2>5, <4>1 DEF Abs
    <3>5. a <= gp * e
      <4> HIDE DEF a, t, h, gp, e
      <4> QED BY <1>2, <3>2, <3>3, <3>4
    <3>6. gp <= pr0
      <4>1. g * p <= Base * p /\ Base * p = Power(s + 1) /\ s + 1 <= room
        BY <1>1, Bases, Monotone, PowerFacts
      <4>2. Power(s + 1) <= Power(room) /\ Power(s + 1) \in Int
        BY <4>1, PowersGrow, PowerFacts
      <4> QED BY <1>1, <1>3, <4>1, <4>2
    <3>7. gp * e <= pr0 * e
      <4>1. e \in Nat
        BY <1>1, <3>1
      <4> HIDE DEF gp, pr0, e
      <4> QED BY <1>1, <1>3, <3>6, <4>1, Monotone
    <3>8. pr0 * d = pr0 * (top * pk) + pr0 * e
      <4> HIDE DEF pr0, e, top, pk
      <4>1. top \in Int /\ e \in Int /\ pk \in Int /\ top * pk \in Int
        BY <1>1, <3>1, BaseAssumption, Products
      <4>2. pr0 * (top * pk + e) = pr0 * (top * pk) + pr0 * e
        BY <1>1, <4>1, Products
      <4> QED BY <3>1, <4>2
    <3>9. pr0 * pk <= pr0 * (top * pk)
      <4> HIDE DEF pr0, e, top, pk
      <4>1. 1 * pk <= top * pk /\ 1 * pk = pk /\ top * pk \in Int
        BY <1>1, <3>1, BaseAssumption, Monotone, Products
      <4> QED BY <1>1, <4>1, Monotone
    <3>10. D = q * d - a
      <4>1. r = -a
        BY <2>5
      <4> HIDE DEF r, a, q
      <4> QED BY <1>4, <1>5, <1>6, <4>1
    <3> DEFINE qd == q * d
               pd == pr0 * d
               pp == pr0 * pk
               pe == pr0 * e
               pt == pr0 * (top * pk)
               ge == gp * e
    <3>11. /\ qd \in Int /\ pd \in Int /\ pp \in Int /\ pe \in Int /\ pt \in Int /\ ge \in Int
      <4> HIDE DEF pr0, e, top, pk
      <4>1. top * pk \in Int /\ e \in Int
        BY <1>1, <3>1, BaseAssumption, Products
      <4> QED BY <1>1, <1>6, <1>8, <3>3, <4>1, Products
    <3>12. /\ D < pp /\ pd <= qd /\ D = qd - a /\ a <= ge /\ ge <= pe /\ pd = pt + pe /\ pp <= pt
      BY <1>8, <2>2, <3>5, <3>7, <3>8, <3>9, <3>10
    <3> HIDE DEF qd, pd, pp, pe, pt, ge, a
    <3> QED BY <1>5, <3>11, <3>12
  <2>6. t < n \/ n <= t
    <3> HIDE DEF t
    <3> QED BY <1>2
  <2> QED BY <2>3, <2>4, <2>5, <2>6
<1> HIDE DEF q, pr0
<1>10. q \in Nat \ {0} /\ q < pr0
  BY <1>3, <1>7, <1>9
<1> QED BY <1>10 DEF q, pr0, Booked

----------------------------------------------------------------------------
(* Sizes.                                                                  *)

\* Between two powers there is one size.
LEMMA SizeIs ==
  ASSUME NEW n \in Nat, NEW k \in Nat, n < Power(k + 1), k = 0 \/ Power(k) <= n
  PROVE  Size(n) = k + 1
<1>1. k + 1 \in Nat \ {0} /\ Size(n) \in Nat \ {0} /\ Size(n) <= k + 1
  BY Sizes
<1>2. k = 0 => Size(n) = k + 1
  BY <1>1
<1>3. ASSUME k # 0 PROVE k < Size(n)
  <2>1. k \in Nat \ {0} /\ ~(n < Power(k))
    <3>1. Power(k) \in Nat
      BY PowerFacts
    <3> QED BY <1>3, <3>1
  <2>2. n < Power(k) <=> Size(n) <= k
    BY <2>1, Sizes
  <2> QED BY <1>1, <2>1, <2>2
<1> QED BY <1>1, <1>2, <1>3

\* Writing a limb keeps the size, unless the top limb becomes zero.
LEMMA SizeKept ==
  ASSUME NEW n \in Nat, NEW k \in Nat, k < Size(n), NEW l \in 0 .. Base - 1,
         k = 0 \/ k # Size(n) - 1 \/ l >= 1
  PROVE  Size(WithLimb(n, k, l)) = Size(n)
<1> DEFINE w == WithLimb(n, k, l)
           j == Size(n) - 1
<1>1. /\ Size(n) = j + 1 /\ j \in Nat /\ n < Power(j + 1) /\ k <= j
      /\ j # 0 => Power(j) <= n
  BY Sizes
<1>2. w \in Nat /\ w < Power(j + 1)
  <2>1. Size(n) \in Nat /\ n < Power(Size(n))
    BY Sizes
  <2> QED BY <1>1, <2>1, WriteLimb, WriteAbove
<1>3. j # 0 => Power(j) <= w
  <2>1. SUFFICES ASSUME j # 0 PROVE Power(j) <= w
    OBVIOUS
  <2> HIDE DEF j
  <2>2. Power(j) \in Nat \ {0}
    BY <1>1, PowerFacts
  <2>3. CASE k < j
    <3> DEFINE x == n \div Power(j)
               y == w % Power(j)
    <3>1. w \div Power(j) = x
      BY <1>1, <2>3, WriteAbove
    <3>2. x # 0
      <4> DEFINE m == n % Power(j)
      <4>1. n = Power(j) * x + m /\ m \in 0 .. Power(j) - 1 /\ x \in Nat
        BY <1>1, Parts
      <4> HIDE DEF x, m
      <4> QED BY <1>1, <2>1, <2>2, <4>1, Products
    <3>3. x \in Nat /\ w = Power(j) * (w \div Power(j)) + y /\ y \in Nat
      BY <1>1, <1>2, Parts
    <3>4. w = Power(j) * x + y
      BY <3>1, <3>3
    <3> HIDE DEF x, y, w
    <3>5. Power(j) * 1 <= Power(j) * x /\ Power(j) * 1 = Power(j) /\ Power(j) * x \in Int
      BY <2>2, <3>2, <3>3, Monotone, Products
    <3> QED BY <2>2, <3>3, <3>4, <3>5
  <2>4. CASE k = j
    <3>1. l >= 1
      BY <1>1, <2>1, <2>4
    <3>2. w = (n % Power(k)) + Power(k) * l
      <4>1. w % Power(k + 1) = (n % Power(k)) + Power(k) * l
        BY WriteLimb
      <4>2. w % Power(j + 1) = w
        <5> HIDE DEF w
        <5>1. j + 1 \in Nat
          BY <1>1
        <5> QED BY <1>2, <5>1, Parts
      <4> HIDE DEF w
      <4> QED BY <2>4, <4>1, <4>2
    <3>3. n % Power(k) \in Nat
      BY Parts
    <3> DEFINE m == n % Power(k)
    <3>4. w = m + Power(j) * l /\ m \in Nat
      BY <2>4, <3>2, <3>3
    <3> HIDE DEF w, m
    <3>5. Power(j) * 1 <= Power(j) * l /\ Power(j) * 1 = Power(j) /\ Power(j) * l \in Int
      BY <2>2, <3>1, BaseAssumption, Monotone, Products
    <3> QED BY <2>2, <3>4, <3>5
  <2> QED BY <1>1, <2>3, <2>4
<1> HIDE DEF j, w
<1>4. Size(w) = j + 1
  BY <1>1, <1>2, <1>3, SizeIs
<1> QED BY <1>1, <1>4 DEF w

----------------------------------------------------------------------------
(* Division by one limb.                                                   *)

\* A sum below another
LEMMA BelowBoth ==
  ASSUME NEW x \in Nat, NEW p \in Nat, NEW low \in 0 .. p - 1, NEW y \in Nat, NEW z \in Nat,
         x + p <= y, y <= z
  PROVE  x + low \in Nat /\ x + low < y /\ x + low < z
OBVIOUS

\* What is written to a limb counts, and what was below and above it.
LEMMA WriteHigh ==
  ASSUME NEW q \in Nat, NEW k \in Nat, NEW l \in 0 .. Base - 1
  PROVE  WithLimb(q, k, l) - (WithLimb(q, k, l) % Power(k))
           = q - (q % Power(k + 1)) + Power(k) * l
<1> DEFINE w == WithLimb(q, k, l)
           wk == w % Power(k)
           wk1 == w % Power(k + 1)
           qk1 == q % Power(k + 1)
           h == Power(k + 1) * (q \div Power(k + 1))
           pl == Power(k) * l
<1>1. wk = q % Power(k) /\ wk1 = (q % Power(k)) + pl /\ w \div Power(k + 1) = q \div Power(k + 1)
  BY WriteLimb
<1>2. w \in Nat /\ k + 1 \in Nat
  <2>1. w \in Nat
    BY WriteLimb, Zenon
  <2> QED BY <2>1
<1>3. w = h + wk1 /\ wk \in Nat /\ wk1 \in Nat
  <2>1. w = Power(k + 1) * (w \div Power(k + 1)) + wk1 /\ wk \in Nat /\ wk1 \in Nat
    <3> HIDE DEF w
    <3> QED BY <1>2, Parts
  <2> QED BY <1>1, <2>1
<1>4. q = h + qk1 /\ qk1 \in Nat
  BY <1>2, Parts
<1>5. h \in Int /\ pl \in Int
  <2>1. Power(k + 1) \in Int /\ q \div Power(k + 1) \in Int /\ Power(k) \in Int /\ l \in Int
    BY <1>2, Parts, PowerFacts, BaseAssumption
  <2> QED BY <2>1, Products
<1>6. wk1 = wk + pl
  BY <1>1
<1> HIDE DEF w, wk, wk1, qk1, h, pl
<1>7. w - wk = q - qk1 + pl
  BY <1>3, <1>4, <1>5, <1>6
<1> QED BY <1>7 DEF w, wk, qk1, pl

\* quo is the quotient down to the limb k, and n is what is left of the dividend D.
DownTo(D, d, quo, n, k) == D = (quo - (quo % Power(k))) * d + n

LEMMA DownToKept ==
  ASSUME NEW D \in Int, NEW d \in Nat, NEW quo, NEW n, NEW o, DownTo(D, d, quo, n, o),
         NEW high \in Int, high = quo - (quo % Power(o)), NEW w, NEW k, NEW x \in Int,
         w - (w % Power(k)) = high + x, NEW r \in Int, n = x * d + r
  PROVE  DownTo(D, d, w, r, k)
<1> DEFINE hd == high * d
           xd == x * d
           wd == (high + x) * d
<1>1. hd \in Int /\ xd \in Int /\ wd = hd + xd
  BY Products
<1>2. D = hd + n
  BY Zenon DEF DownTo
<1>3. n = xd + r
  OBVIOUS
<1> HIDE DEF hd, xd, wd
<1>4. D = wd + r
  BY <1>1, <1>2, <1>3
<1> QED BY <1>4, Zenon DEF DownTo, wd

\* One pass: the digit is a limb, and what it leaves is less than the divisor at that limb.
Passed(D, d, quo, n, o, k, m, r) ==
  /\ k \in 0 .. o /\ m \div d \in 0 .. Base - 1
  /\ r \in Nat /\ r < d * Power(k) /\ r < Power(k + 1)
  /\ m % d = 0 => r < Power(k)
  /\ DownTo(D, d, WithLimb(quo, k, m \div d), r, k)

LEMMA LimbDivided ==
  ASSUME NEW D \in Int, NEW d \in 1 .. Base - 1, NEW quo \in Nat, NEW n \in Nat, NEW o \in Nat,
         n < Power(o + 1), Limb(quo, o) = 0 \/ n < d * Power(o), o > 0 \/ n >= d,
         DownTo(D, d, quo, n, o),
         NEW k, k = IF Limb(n, o) < d /\ o > 0 THEN o - 1 ELSE o,
         NEW m, m = n \div Power(k), NEW r, r = (m % d) * Power(k) + (n % Power(k))
  PROVE  Passed(D, d, quo, n, o, k, m, r)
<1>1. k \in 0 .. o /\ k \in Nat /\ d \in Nat \ {0} /\ d \in Nat /\ d \in Int /\ d <= Base
  BY BaseAssumption
<1> DEFINE p == Power(k)
           low == n % p
           l == m \div d
           e == m % d
<1>2. p \in Nat \ {0} /\ Power(k + 1) = Base * p /\ p \in Nat /\ p \in Int
  BY <1>1, PowerFacts
<1>3. n = p * m + low /\ low \in 0 .. p - 1 /\ m \in Nat
  BY <1>1, Parts, ZenonT(60)
<1>4. m = d * l + e /\ e \in 0 .. d - 1 /\ l \in Nat
  <2>1. m = d * l + e /\ e \in 0 .. d - 1
    <3>1. m \in Int
      BY <1>3
    <3> QED BY <1>1, <3>1, Division, Zenon
  <2>2. l \in Nat
    BY <1>1, <1>3, NaturalDivision, Zenon
  <2> QED BY <2>1, <2>2
<1>5. m < d * Base /\ (quo % Power(k + 1)) = (quo % Power(o))
  <2>1. n = Limb(n, o) * Power(o) + (n % Power(o)) /\ Limb(n, o) \in Nat
    BY TopLimb, LimbFacts
  <2>2. Power(o) \in Nat \ {0} /\ Power(o + 1) = Base * Power(o)
    BY PowerFacts
  <2>3. n % Power(o) \in 0 .. Power(o) - 1 /\ n % Power(o) \in Nat
    BY Parts
  <2>4. CASE k # o
    <3>1. k + 1 = o /\ Limb(n, o) < d /\ Power(o) = Base * p
      BY <1>1, <1>2, <2>4
    <3> DEFINE x == Limb(n, o)
               q == Power(o)
               y == n % Power(o)
    <3> HIDE DEF x, q, y
    <3>2. n = x * q + y /\ y \in 0 .. q - 1 /\ x \in Nat /\ x < d /\ q = Base * p /\ q \in Nat
      BY <2>1, <2>2, <2>3, <3>1, Zenon DEF x, y, q
    <3>3. (x + 1) * q <= d * q /\ (x + 1) * q = x * q + q /\ x * q \in Int /\ d * q \in Int
      BY <1>1, <3>2, Monotone, Products
    <3>4. n < d * q
      BY <3>2, <3>3
    <3>5. p * m < p * (d * Base)
      <4>1. p * (d * Base) = d * (Base * p)
        BY <1>1, <1>2, Bases
      <4>2. p * m <= n /\ p * m \in Int
        <5> HIDE DEF p, low
        <5>1. p * m \in Int
          BY <1>2, <1>3, Products
        <5> QED BY <1>3, <5>1
      <4> QED BY <3>2, <3>3, <3>4, <4>1, <4>2
    <3>6. m < d * Base
      <4>1. d * Base \in Int /\ m \in Int
        BY <1>1, <1>3, Bases, Products
      <4> HIDE DEF p
      <4> QED BY <1>2, <3>5, <4>1, Cancel
    <3> QED BY <3>1, <3>6
  <2>5. CASE k = o
    <3>1. m < Base
      <4>1. p * m < p * Base
        <5> HIDE DEF p, low
        <5>1. Base * p = p * Base /\ p * m \in Int /\ p * Base \in Int
          BY <1>2, <1>3, Bases, Products
        <5>2. n < Base * p
          BY <1>2, <2>5
        <5> QED BY <1>3, <5>1, <5>2
      <4> HIDE DEF p
      <4> QED BY <1>2, <1>3, <4>1, Bases, Cancel
    <3>2. 1 * Base <= d * Base /\ 1 * Base = Base /\ d * Base \in Int
      BY <1>1, Bases, Monotone, Products
    <3>3. Limb(quo, o) = 0
      <4>1. SUFFICES ASSUME n < d * Power(o) PROVE FALSE
        OBVIOUS
      <4>2. CASE o > 0
        <5>1. d <= Limb(n, o)
          BY <1>1, <2>1, <2>5, <4>2
        <5>2. d * Power(o) <= Limb(n, o) * Power(o)
          BY <1>1, <2>1, <2>2, <5>1, Monotone
        <5> DEFINE z == Limb(n, o) * Power(o)
                   y == n % Power(o)
        <5>3. n = z + y /\ y \in Nat /\ d * Power(o) <= z /\ z \in Int /\ d * Power(o) \in Int
          BY <1>1, <2>1, <2>2, <2>3, <5>2, Products
        <5> HIDE DEF z, y
        <5> QED BY <4>1, <5>3
      <4>3. CASE o = 0
        <5>1. d * Power(o) = d
          BY <1>1, <4>3, PowerFacts, Products
        <5> QED BY <1>1, <4>1, <4>3, <5>1
      <4> QED BY <4>2, <4>3
    <3>4. quo % Power(o + 1) = quo % Power(o)
      <4>1. quo % Power(o + 1) = (quo % Power(o)) + Power(o) * Limb(quo, o)
        BY LimbFacts
      <4>2. quo % Power(o) \in Int /\ Power(o) * 0 = 0
        BY <2>2, Parts, Products
      <4> QED BY <3>3, <4>1, <4>2
    <3> QED BY <1>3, <2>5, <3>1, <3>2, <3>4, Bases
  <2> QED BY <2>4, <2>5
<1>6. l \in 0 .. Base - 1
  <2> HIDE DEF l, e
  <2>1. d * l < d * Base
    <3>1. d * l \in Int /\ d * Base \in Int
      BY <1>1, <1>4, Bases, Products
    <3> QED BY <1>3, <1>4, <1>5, <3>1
  <2>2. l < Base
    BY <1>1, <1>4, <2>1, Bases, Cancel
  <2> QED BY <1>4, <2>2, Bases
<1> HIDE DEF p, low, l, e
<1>7. r = e * p + low
  BY Zenon DEF e, p, low
<1>8. e * p \in Nat /\ (e + 1) * p = e * p + p /\ (e + 1) * p <= d * p /\ d * p \in Nat
  <2>1. e \in Nat /\ e + 1 \in Int /\ e + 1 <= d
    BY <1>1, <1>4
  <2>2. (e + 1) * p <= d * p
    BY <1>1, <1>2, <2>1, Monotone
  <2> QED BY <1>1, <1>2, <2>1, <2>2, Products
<1>9. r \in Nat /\ r < d * p /\ r < Base * p
  <2>1. d * p <= Base * p /\ Base * p \in Nat
    BY <1>1, <1>2, Bases, Monotone, Products
  <2> DEFINE ep == e * p
             e1p == (e + 1) * p
             dp == d * p
             bp == Base * p
  <2>2. /\ ep \in Nat /\ ep + p <= dp /\ dp \in Nat /\ dp <= bp /\ bp \in Nat
        /\ r = ep + low
    BY <1>7, <1>8, <2>1
  <2> HIDE DEF ep, e1p, dp, bp
  <2>3. r \in Nat /\ r < dp /\ r < bp
    <3>1. ep + low \in Nat /\ ep + low < dp /\ ep + low < bp
      BY <1>2, <1>3, <2>2, BelowBoth, Zenon
    <3> QED BY <2>2, <3>1, Zenon
  <2> QED BY <2>3 DEF dp, bp
<1>10. e = 0 => r < p
  <2>1. SUFFICES ASSUME e = 0 PROVE r < p
    OBVIOUS
  <2>2. e * p = 0
    BY <1>2, <2>1, Products
  <2> DEFINE ep == e * p
  <2>3. r = ep + low /\ ep = 0 /\ low \in 0 .. p - 1
    BY <1>3, <1>7, <2>2, Zenon
  <2> HIDE DEF ep
  <2> QED BY <1>2, <2>3
<1>11. DownTo(D, d, WithLimb(quo, k, l), r, k)
  <2> DEFINE w == WithLimb(quo, k, l)
             wh == w - (w % Power(k))
             qh == quo - (quo % Power(k + 1))
             oh == quo - (quo % Power(o))
             pl == p * l
  <2>1. wh = qh + pl
    BY <1>1, <1>6, WriteHigh DEF p
  <2>2. qh = oh /\ oh \in Int
    <3>1. quo % Power(o) \in Int
      BY Parts
    <3> HIDE DEF l, p
    <3> QED BY <1>5, <3>1
  <2> HIDE DEF w, wh, qh, oh
  <2>4. n = pl * d + r
    <3> DEFINE pm == p * m
               ep == e * p
               pld == (p * l) * d
    <3>1. pm = pld + ep
      <4>1. p * m = p * (d * l + e)
        BY <1>4
      <4>2. p * (d * l + e) = (p * l) * d + e * p
        BY <1>1, <1>2, <1>4
      <4> QED BY <4>1, <4>2
    <3>2. n = pm + low /\ r = ep + low /\ low \in 0 .. p - 1
      BY <1>3, <1>7, Zenon
    <3>3. pld \in Int /\ ep \in Int
      <4>1. p * l \in Nat /\ ep \in Nat
        BY <1>2, <1>4, <1>8, Products
      <4> QED BY <1>1, <4>1, Products
    <3> HIDE DEF pm, ep, pld
    <3>4. n = pld + r
      BY <1>2, <3>1, <3>2, <3>3
    <3> QED BY <3>4 DEF pld
  <2>5. pl \in Int /\ d \in Nat /\ r \in Int
    BY <1>1, <1>2, <1>4, <1>9, Products
  <2> HIDE DEF pl
  <2>6. w - (w % Power(k)) = oh + pl /\ oh = quo - (quo % Power(o))
    BY <2>1, <2>2, Zenon DEF wh, oh
  <2> QED BY <2>2, <2>4, <2>5, <2>6, DownToKept, ZenonT(60) DEF w
<1> QED BY <1>1, <1>2, <1>6, <1>9, <1>10, <1>11 DEF p, l, e, Passed

\* Clearing the next limb of the quotient
LEMMA NextLimbCleared ==
  ASSUME NEW D, NEW d, NEW quo \in Nat, NEW n, NEW k \in Nat \ {0}, DownTo(D, d, quo, n, k)
  PROVE  /\ Limb(WithLimb(quo, k - 1, 0), k - 1) = 0
         /\ DownTo(D, d, WithLimb(quo, k - 1, 0), n, k - 1)
<1>1. k - 1 \in Nat /\ (k - 1) + 1 = k /\ 0 \in 0 .. Base - 1
  BY BaseAssumption
<1> DEFINE j == k - 1
           w == WithLimb(quo, j, 0)
           wh == w - (w % Power(j))
           qh == quo - (quo % Power(k))
<1>2. Limb(w, j) = 0
  <2>1. j \in Nat
    BY <1>1
  <2> HIDE DEF j
  <2> QED BY <1>1, <2>1, WrittenLimbs
<1>3. wh = qh
  <2>1. wh = quo - (quo % Power(j + 1)) + Power(j) * 0
    <3>1. j \in Nat
      BY <1>1
    <3> HIDE DEF j
    <3> QED BY <1>1, <3>1, WriteHigh
  <2>2. Power(j) * 0 = 0 /\ quo % Power(k) \in Int
    BY <1>1, PowerFacts, Parts, Products
  <2> QED BY <1>1, <2>1, <2>2
<1> QED BY <1>2, <1>3, Zenon DEF DownTo

----------------------------------------------------------------------------
(* The remainder by one limb, down the limbs.                              *)

\* A multiple of the divisor does not change the remainder.
LEMMA SameModulus ==
  ASSUME NEW d \in Nat \ {0}, NEW x \in Int, NEW y \in Int, NEW c \in Int, x = y + d * c
  PROVE  x % d = y % d
<1> DEFINE r == x % d
           q == x \div d
<1>1. q \in Int /\ r \in 0 .. d - 1 /\ x = d * q + r
  BY Division
<1> HIDE DEF r, q
<1>2. y = d * (q - c) + r /\ q - c \in Int
  <2>1. d * (q - c) = d * q - d * c /\ d * q \in Int /\ d * c \in Int
    BY <1>1, Products
  <2> QED BY <1>1, <2>1
<1>3. y % d = r
  <2> DEFINE u == q - c
  <2>1. y = d * u + r /\ u \in Int
    BY <1>2
  <2> HIDE DEF u
  <2> QED BY <1>1, <2>1, DivisionUnique
<1> QED BY <1>3 DEF r

\* The base modulo the divisor stands for the base.
LEMMA BaseModulus ==
  ASSUME NEW d \in 1 .. Base - 1, NEW x \in Nat, NEW l \in Nat
  PROVE  ((x % d) * two_n_mod(d) + l) % d = (Base * x + l) % d
<1> DEFINE m == (Base - 1 - d) % d
           c == (Base - 1 - d) \div d
           q == x \div d
           r == x % d
           b == two_n_mod(d)
<1>1. d \in Nat \ {0} /\ d \in Int /\ Base - 1 - d \in Int
  BY BaseAssumption
<1>2. m \in Int /\ c \in Int /\ Base - 1 - d = d * c + m
  <2> DEFINE u == Base - 1 - d
  <2>1. u \in Int
    BY <1>1
  <2> HIDE DEF u
  <2>2. u \div d \in Int /\ u % d \in 0 .. d - 1 /\ u = d * (u \div d) + (u % d)
    BY <1>1, <2>1, Division
  <2> QED BY <2>2 DEF u
<1>3. q \in Nat /\ r \in Nat /\ x = d * q + r
  <2>0. x \in Int
    OBVIOUS
  <2>1. q \in Int /\ r \in 0 .. d - 1 /\ x = d * q + r
    BY <1>1, <2>0, Division, Zenon
  <2>2. q \in Nat
    BY <1>1, NaturalDivision, Zenon
  <2> HIDE DEF q, r
  <2> QED BY <2>1, <2>2
<1>4. b = 1 + m
  BY DEF two_n_mod
<1> HIDE DEF m, c, q, r, b
<1>5. d * c \in Int /\ b \in Int /\ Base = d + d * c + b
  <2>1. d * c \in Int
    BY <1>1, <1>2, Products
  <2> QED BY <1>1, <1>2, <1>4, <2>1, Bases
<1>6. Base * x + l = (r * b + l) + d * (Base * q + (1 + c) * r)
  <2>1. Base * x = Base * (d * q) + Base * r
    BY <1>1, <1>3, Bases
  <2>2. Base * (d * q) = d * (Base * q)
    BY <1>1, <1>3, Bases
  <2>3. Base * r = d * ((1 + c) * r) + r * b
    <3>1. Base * r = (d + d * c + b) * r
      BY <1>5
    <3>2. (d + d * c + b) * r = d * ((1 + c) * r) + r * b
      BY <1>1, <1>2, <1>3, <1>5
    <3> QED BY <3>1, <3>2
  <2>4. d * (Base * q + (1 + c) * r) = d * (Base * q) + d * ((1 + c) * r)
    <3> DEFINE u == Base * q
               v == (1 + c) * r
    <3>1. u \in Int /\ v \in Int
      BY <1>2, <1>3, Bases, Products
    <3> HIDE DEF u, v
    <3>2. d * (u + v) = d * u + d * v
      BY <1>1, <3>1
    <3> QED BY <3>2 DEF u, v
  <2> DEFINE e1 == d * (Base * q)
             e2 == d * ((1 + c) * r)
             e3 == r * b
  <2>5. e1 \in Int /\ e2 \in Int /\ e3 \in Int
    <3>1. Base * q \in Int /\ (1 + c) * r \in Int
      BY <1>2, <1>3, Bases, Products
    <3> QED BY <1>1, <1>3, <1>5, <3>1, Products
  <2>6. Base * x = e1 + (e2 + e3)
    BY <2>1, <2>2, <2>3
  <2> HIDE DEF e1, e2, e3
  <2>7. Base * x + l = (e3 + l) + (e1 + e2)
    BY <2>5, <2>6
  <2> QED BY <2>4, <2>7 DEF e1, e2, e3
<1> DEFINE s == Base * x + l
           t == r * b + l
           u == Base * q + (1 + c) * r
<1>7. s \in Int /\ t \in Int /\ u \in Int /\ s = t + d * u
  <2>1. Base * x \in Int /\ r * b \in Int /\ Base * q \in Int /\ (1 + c) * r \in Int
    BY <1>2, <1>3, <1>5, Bases, Products
  <2> QED BY <1>6, <2>1
<1> HIDE DEF s, t, u
<1>8. s % d = t % d
  BY <1>1, <1>7, SameModulus
<1> QED BY <1>8, Zenon DEF s, t, r, b

\* One limb further down: what is above it makes up the number with it.
LEMMA LimbBelow ==
  ASSUME NEW n \in Nat, NEW k \in Nat
  PROVE  /\ n \div Power(k) \in Nat /\ n \div Power(k + 1) \in Nat
         /\ n \div Power(k) = Base * (n \div Power(k + 1)) + Limb(n, k)
<1> DEFINE x == n \div Power(k)
<1>1. x \in Nat /\ n \div Power(k + 1) \in Nat
  <2>1. k + 1 \in Nat
    OBVIOUS
  <2> QED BY <2>1, Parts, Zenon
<1>2. n \div Power(k + 1) = x \div Base
  <2>1. n \div Power(k + 1) = x \div Power(1)
    BY PartsOfParts
  <2>2. Power(1) = Base
    BY PowerFacts, Bases, Products
  <2> QED BY <2>1, <2>2
<1>3. Limb(n, k) = x % Base
  BY DEF Limb
<1> HIDE DEF x
<1>4. x = Base * (x \div Base) + (x % Base)
  BY <1>1, Bases, Division
<1> QED BY <1>1, <1>2, <1>3, <1>4, Zenon DEF x

\* The loop of eval_modulus over the limbs: a function of the limbs done with
ModulusStep(n, d, s, g) ==
  [i \in 1 .. s |->
     IF i = 1 THEN Limb(n, s - 1) % d
     ELSE (g[i - 1] * two_n_mod(d) + Limb(n, s - i)) % d]

LEMMA ModulusLoop ==
  ASSUME NEW n \in Nat, NEW d \in 1 .. Base - 1, NEW s, s = Size(n)
  PROVE  LET g == CHOOSE f : f = ModulusStep(n, d, s, f) IN g[s] = n % d
<1> DEFINE f == [i \in 1 .. s |-> (n \div Power(s - i)) % d]
           g == CHOOSE h : h = ModulusStep(n, d, s, h)
<1>1. s \in Nat \ {0} /\ n < Power(s)
  BY Sizes
<1>2. f[1] = Limb(n, s - 1) % d
  <2> DEFINE k == s - 1
  <2>1. k \in Nat /\ s = k + 1 /\ 1 \in 1 .. s
    BY <1>1
  <2>2. f[1] = (n \div Power(k)) % d
    BY <2>1
  <2> HIDE DEF k, f
  <2>3. n \div Power(k) = Base * (n \div Power(k + 1)) + Limb(n, k)
    BY <2>1, LimbBelow
  <2>4. n \div Power(k + 1) = 0
    BY <1>1, <2>1, Parts
  <2>5. n \div Power(k) = Limb(n, k)
    <3>1. Limb(n, k) \in Int /\ Base * 0 = 0
      BY <2>1, LimbFacts, Bases, Products
    <3> QED BY <2>3, <2>4, <3>1
  <2> QED BY <2>2, <2>5 DEF k
<1>3. ASSUME NEW i \in 2 .. s
      PROVE  f[i] = (f[i - 1] * two_n_mod(d) + Limb(n, s - i)) % d
  <2> DEFINE k == s - i
  <2>1. /\ i \in 1 .. s /\ i - 1 \in 1 .. s /\ k \in Nat /\ s - (i - 1) = k + 1
    BY <1>1
  <2>2. f[i] = (n \div Power(k)) % d /\ f[i - 1] = (n \div Power(k + 1)) % d
    BY <2>1
  <2> HIDE DEF k, f
  <2> DEFINE x == n \div Power(k + 1)
             l == Limb(n, k)
  <2>3. n \div Power(k) = Base * x + l /\ x \in Nat /\ l \in Nat
    BY <2>1, LimbBelow, LimbFacts
  <2> HIDE DEF x, l
  <2>4. ((x % d) * two_n_mod(d) + l) % d = (Base * x + l) % d
    BY <2>3, BaseModulus
  <2> QED BY <2>2, <2>3, <2>4, Zenon DEF x, l, k
<1>4. f = ModulusStep(n, d, s, f)
  <2>1. ASSUME NEW i \in 1 .. s PROVE f[i] = ModulusStep(n, d, s, f)[i]
    <3>1. CASE i = 1
      <4> HIDE DEF f
      <4> QED BY <1>2, <3>1 DEF ModulusStep
    <3>2. CASE i # 1
      <4>1. i \in 2 .. s
        BY <1>1, <3>2
      <4> HIDE DEF f
      <4> QED BY <1>3, <3>2, <4>1 DEF ModulusStep
    <3> QED BY <3>1, <3>2
  <2>2. f = [i \in 1 .. s |-> f[i]]
    OBVIOUS
  <2> DEFINE h == ModulusStep(n, d, s, f)
  <2>3. h = [i \in 1 .. s |-> h[i]]
    BY DEF ModulusStep
  <2> HIDE DEF f, h
  <2>4. f = h
    BY <2>1, <2>2, <2>3 DEF h
  <2> QED BY <2>4 DEF h
<1> HIDE DEF f
<1>5. g = ModulusStep(n, d, s, g)
  BY <1>4
<1> HIDE DEF g
<1>6. /\ g[1] = Limb(n, s - 1) % d
      /\ \A i \in 2 .. s : g[i] = (g[i - 1] * two_n_mod(d) + Limb(n, s - i)) % d
  <2> DEFINE h == ModulusStep(n, d, s, g)
  <2>1. h[1] = Limb(n, s - 1) % d
    BY <1>1 DEF ModulusStep
  <2>2. ASSUME NEW i \in 2 .. s
        PROVE  h[i] = (g[i - 1] * two_n_mod(d) + Limb(n, s - i)) % d
    BY <1>1 DEF ModulusStep
  <2> HIDE DEF h
  <2>3. g = h
    BY <1>5 DEF h
  <2> QED BY <2>1, <2>2, <2>3
<1>7. \A i \in 1 .. s : g[i] = f[i]
  <2> DEFINE S == {i \in 1 .. s : g[i] # f[i]}
  <2>1. SUFFICES ASSUME S # {} PROVE FALSE
    OBVIOUS
  <2>2. PICK i \in S : \A j \in S : i <= j
    <3>1. S \in SUBSET Nat
      BY <1>1
    <3> QED BY <2>1, <3>1, LeastNatural
  <2>3. i \in 2 .. s
    BY <1>1, <1>2, <1>6, <2>2
  <2>4. i - 1 \in 1 .. s /\ i - 1 \notin S
    BY <1>1, <2>2, <2>3
  <2>5. g[i] = f[i]
    <3>1. g[i - 1] = f[i - 1]
      BY <2>4
    <3> QED BY <1>3, <1>6, <2>3, <3>1, Zenon
  <2> QED BY <2>2, <2>5
<1>8. f[s] = n % d
  <2>1. s \in 1 .. s /\ s - s = 0
    BY <1>1
  <2>2. f[s] = (n \div Power(0)) % d
    BY <2>1 DEF f
  <2>3. n \div Power(0) = n
    <3>1. Power(0) = 1
      BY PowerFacts
    <3>2. n = 1 * n + 0 /\ 0 \in 0 .. 1 - 1 /\ 1 \in Nat \ {0}
      OBVIOUS
    <3>3. n \div 1 = n
      BY <3>2, DivisionUnique
    <3> QED BY <3>1, <3>3
  <2> QED BY <2>2, <2>3
<1>9. g[s] = n % d
  BY <1>1, <1>7, <1>8
<1> QED BY <1>9 DEF g
----------------------------------------------------------------------------
(* The inductive invariant.                                                *)

given1 == call.given[1]
given2 == call.given[2]
Room == Size(dividend) - Size(divisor) + 1   \* limbs of the quotient, at most
Left == Signed(prem, loop.r_neg)             \* the remainder with its sign
Helping == {"guess", "accumulate", "reduce", "correct"}

\* The operands are read only, and a result is not an operand.
Apart ==
  pc # "idle" =>
    /\ call.x \notin {call.q, call.r} /\ call.y \notin {call.q, call.r} /\ call.q # call.r
    /\ Wanted <=> fn # "eval_modulus"
    /\ mem[call.x] = given1 /\ mem[call.y] = given2
    /\ dividend < Modulus(type)
    /\ "u" \notin {call.q, call.r} => mem["u"] = given1
    /\ "v" \notin {call.q, call.r} => mem["v"] = given2
    /\ pc \in {"threw", "trapped"} => given2 = 0
    /\ pc \notin {"entered", "threw", "trapped"} => given2 # 0

\* quo is the quotient, if one is wanted, to which n is what is left of the dividend.
Divides(quo, n) == (Wanted => pr = quo) /\ dividend = quo * divisor + n

\* By one limb: the quotient's limbs above r_order are right, the one at r_order is
\* zero or is written next.
LimbsSoFar ==
  pc = "limbs" =>
    LET order == loop.r_order IN
    /\ Wanted /\ divisor < Base /\ prem \in Nat /\ pr \in Nat
    /\ loop.qsize = Size(dividend) /\ order < loop.qsize
    /\ pr < Power(loop.qsize) /\ prem < Power(order + 1)
    /\ Limb(pr, order) = 0 \/ prem < divisor * Power(order)
    /\ DownTo(dividend, divisor, pr, prem, order)

\* What is left gets smaller; when quotient and remainder are not in step, one guess
\* is what makes the difference.
Remainders ==
  pc \in Helping =>
    /\ Base <= divisor /\ divisor <= dividend /\ prem \in Nat /\ prem <= dividend
    /\ Wanted /\ ~loop.first_pass => prem < dividend
    /\ Wanted /\ loop.first_pass => prem = dividend /\ ~loop.r_neg
    /\ pc # "reduce" => \E quo \in Int : Divides(quo, Left)
    /\ pc = "reduce" =>
         \E quo \in Int : /\ Wanted => pr = quo + change * Power(shift)
                          /\ dividend = quo * divisor + Left
    /\ pc = "guess" => divisor <= prem /\ loop.r_order = Size(prem) - 1
    /\ pc = "correct" => prem < divisor

\* The quotient, its size, and the limbs at its low end that no guess has reached yet
Quotients ==
  pc \in Helping /\ Wanted =>
    /\ pr \in Nat /\ pr < Power(Room)
    /\ pc # "correct" => y_order <= loop.r_order /\ \E n \in Nat : pr = n * Power(shift)
    /\ loop.first_pass =>
         /\ pc # "correct"
         /\ pc # "reduce" => pr = 0 /\ loop.qsize = Room
         /\ pc = "reduce" => pr # 0 /\ Size(pr) <= loop.qsize /\ loop.qsize <= Room
    /\ ~loop.first_pass => pr # 0 /\ loop.qsize = Size(pr)

\* What a guess is good for
Guesses ==
  pc \in {"accumulate", "reduce"} =>
    LET t == loop.guess * py * Power(shift) IN
    /\ pc = "accumulate" => Wanted
    /\ loop.guess >= 1 /\ y_order <= loop.r_order /\ loop.r_order < Size(dividend)
    /\ loop.guess * Limb(divisor, y_order) * Power(loop.r_order) <= prem
    /\ Abs(prem - t) < prem /\ Abs(prem - t) < Power(loop.r_order + 1)
    /\ Power(type.limbs) <= t =>
         loop.r_order + 1 = type.limbs /\ Modulus(type) = Power(type.limbs)

\* The results, before they get their signs
Results0 ==
  pc = "computed" =>
    /\ prem \in Nat /\ prem < divisor /\ \E quo \in Nat : Divides(quo, prem)
    /\ Wanted => loop.qsize = Size(pr)

Inv ==
  /\ TypeOK /\ Apart /\ LimbsSoFar /\ Remainders /\ Quotients /\ Guesses /\ Results0
  /\ DividesExactly

----------------------------------------------------------------------------
(* What a step leaves as it was.                                           *)

Calls == [type : Types, fn : Functions, x : {"u", "x_copy"}, y : {"u", "v", "y_copy"},
          q : {"u", "v", "q", None}, r : {"u", "v", "r", "rem"}, given : Int \X Int]
Loops == [qsize : Nat, r_order : Nat, guess : 0 .. Base - 1,
          r_neg : BOOLEAN, first_pass : BOOLEAN]

\* The numbers other than the results
Kept == \A o \in Objects \ {call.q, call.r} : mem'[o] = mem[o]

\* What is written
Written(quo, rem) ==
  mem' \in [Objects -> Int] /\ Kept /\ mem'[call.r] = rem /\ (Wanted => mem'[call.q] = quo)

LEMMA Typed ==
  ASSUME TypeOK
  PROVE  call \in Calls /\ loop \in Loops /\ mem \in [Objects -> Int] /\ pc \in Labels
BY DEF TypeOK, Calls, Loops

LEMMA Moduli ==
  ASSUME TypesAssumption, NEW t \in Types
  PROVE  /\ t.limbs \in Nat \ {0} /\ t.top \in 2 .. Base /\ Base % t.top = 0
         /\ Modulus(t) \in Nat /\ Modulus(t) <= Power(t.limbs)
         /\ t.top = Base => Modulus(t) = Power(t.limbs)
<1> DEFINE m == t.limbs
           top == t.top
           p == Power(m - 1)
<1>1. /\ m \in Nat \ {0} /\ m - 1 \in Nat /\ m = (m - 1) + 1
      /\ top \in 2 .. Base /\ Base % t.top = 0 /\ top \in Nat /\ top <= Base
  BY Bases DEF TypesAssumption
<1>2. p \in Nat /\ Power(m) = Base * p
  BY <1>1, PowerFacts
<1>3. Modulus(t) = p * top
  BY DEF Modulus
<1> HIDE DEF m, top, p
<1>4. p * top \in Nat /\ p * top <= Base * p /\ (top = Base => p * top = Base * p)
  <2>1. p * top \in Nat /\ p * top <= p * Base /\ p * Base = Base * p
    BY <1>1, <1>2, Bases, Products, Monotone
  <2> QED BY <2>1
<1> QED BY <1>1, <1>2, <1>3, <1>4 DEF m, top

\* What is known of a call that runs
LEMMA Given ==
  ASSUME TypeOK, Apart, pc # "idle"
  PROVE  /\ given1 \in Int /\ given2 \in Int /\ dividend \in Nat /\ divisor \in Nat
         /\ dividend = Abs(given1) /\ divisor = Abs(given2)
         /\ px = dividend /\ py = divisor /\ call.r \in Objects /\ prem \in Int
         /\ Wanted => call.q \in Objects /\ pr \in Int
         /\ type \in Types
<1>1. call \in Calls /\ mem \in [Objects -> Int]
  BY Typed
<1>2. given1 \in Int /\ given2 \in Int
  BY <1>1 DEF Calls, given1, given2
<1>3. dividend = Abs(given1) /\ divisor = Abs(given2)
  BY DEF dividend, divisor, given1, given2
<1>4. px = dividend /\ py = divisor
  BY <1>3 DEF Apart, px, py
<1>5. call.r \in Objects /\ (Wanted => call.q \in Objects) /\ type \in Types
  BY <1>1 DEF Calls, Objects, Program, Wanted, None, type
<1> QED BY <1>1, <1>2, <1>3, <1>4, <1>5 DEF Abs, prem, pr

\* A step of the helper keeps the operands, and what was given.
LEMMA Frame ==
  ASSUME TypeOK, Apart, pc # "idle", pc' # "idle", call' = call, Kept,
         pc' \in {"threw", "trapped"} => given2 = 0,
         pc' \notin {"entered", "threw", "trapped"} => given2 # 0
  PROVE  /\ Apart' /\ px' = px /\ py' = py /\ dividend' = dividend /\ divisor' = divisor
         /\ given1' = given1 /\ given2' = given2 /\ type' = type /\ Wanted' = Wanted
         /\ y_order' = y_order /\ Room' = Room
<1>1. call \in Calls
  BY Typed
<1>2. call.x \in Objects /\ call.y \in Objects /\ "u" \in Objects /\ "v" \in Objects
  BY <1>1 DEF Calls, Objects, Program
<1>3. mem'[call.x] = mem[call.x] /\ mem'[call.y] = mem[call.y]
  BY <1>2 DEF Kept, Apart
<1>4. /\ "u" \notin {call.q, call.r} => mem'["u"] = mem["u"]
      /\ "v" \notin {call.q, call.r} => mem'["v"] = mem["v"]
  BY <1>2 DEF Kept
<1>5. px' = px /\ py' = py
  BY <1>3 DEF px, py
<1>6. /\ dividend' = dividend /\ divisor' = divisor /\ given1' = given1 /\ given2' = given2
      /\ type' = type /\ Wanted' = Wanted /\ fn' = fn
  BY DEF dividend, divisor, given1, given2, type, Wanted, fn
<1>7. y_order' = y_order /\ Room' = Room
  BY <1>5, <1>6 DEF y_order, Room
<1>8. Apart'
  <2>1. /\ call'.x \notin {call'.q, call'.r} /\ call'.y \notin {call'.q, call'.r}
        /\ call'.q # call'.r /\ (Wanted' <=> fn' # "eval_modulus")
    BY <1>6 DEF Apart
  <2>2. mem'[call'.x] = given1' /\ mem'[call'.y] = given2'
    BY <1>3, <1>6 DEF Apart
  <2>3. dividend' < Modulus(type')
    BY <1>6 DEF Apart
  <2>4. /\ "u" \notin {call'.q, call'.r} => mem'["u"] = given1'
        /\ "v" \notin {call'.q, call'.r} => mem'["v"] = given2'
    BY <1>4, <1>6 DEF Apart
  <2> QED BY <1>6, <2>1, <2>2, <2>3, <2>4 DEF Apart
<1> QED BY <1>5, <1>6, <1>7, <1>8

LEMMA WrittenBoth ==
  ASSUME TypeOK, Apart, pc # "idle", NEW quo, Wanted => quo \in Int, NEW rem \in Int,
         mem' = Assigned(quo, rem)
  PROVE  Written(quo, rem)
<1>1. mem \in [Objects -> Int] /\ call.r \in Objects /\ (Wanted => call.q \in Objects)
  BY Given, Typed
<1>2. call.q # call.r /\ (call.q \in Objects => Wanted)
  BY DEF Apart, Wanted, Objects, Program, None
<1> QED BY <1>1, <1>2 DEF Written, Assigned, Kept

\* A step to the results
LEMMA ToComputed ==
  ASSUME TypeOK, Apart, pc # "idle", given2 # 0, call' = call, pc' = "computed",
         NEW quo, NEW whole \in Nat, NEW rem \in Nat, rem < divisor, Wanted => quo = whole,
         dividend = whole * divisor + rem, Written(quo, rem),
         loop' \in Loops, Wanted => loop'.qsize = Size(quo)
  PROVE  Inv'
<1>1. /\ Apart' /\ dividend' = dividend /\ divisor' = divisor /\ Wanted' = Wanted
  BY Frame DEF Written
<1>2. TypeOK'
  BY Typed DEF TypeOK, Calls, Loops, Written, Labels
<1>3. LimbsSoFar' /\ Remainders' /\ Quotients' /\ Guesses' /\ DividesExactly'
  BY DEF LimbsSoFar, Remainders, Quotients, Guesses, DividesExactly, Helping
<1>4. Results0'
  <2>1. prem' = rem /\ (Wanted => pr' = whole)
    BY DEF Written, prem, pr
  <2>2. Divides(whole, rem)'
    BY <1>1, <2>1 DEF Divides
  <2> QED BY <1>1, <2>1, <2>2 DEF Results0
<1> QED BY <1>1, <1>2, <1>3, <1>4 DEF Inv

----------------------------------------------------------------------------
(* The steps, one by one.                                                  *)

LEMMA InitHolds ==
  ASSUME TypesAssumption, Init
  PROVE  Inv
<1>1. pc = "idle" /\ call = NoCall /\ mem = [o \in Objects |-> 0] /\ loop = NoLoop
  BY DEF Init
<1>2. TypeOK
  <2>1. (CHOOSE t \in Types : TRUE) \in Types
    BY DEF TypesAssumption
  <2>2. NoCall \in Calls
    BY <2>1 DEF NoCall, Calls, Functions
  <2>3. NoLoop \in Loops
    BY Bases DEF NoLoop, Loops
  <2> QED BY <1>1, <2>2, <2>3 DEF TypeOK, Calls, Loops, Labels
<1>3. /\ Apart /\ LimbsSoFar /\ Remainders /\ Quotients /\ Guesses /\ Results0
      /\ DividesExactly
  BY <1>1 DEF Apart, LimbsSoFar, Remainders, Quotients, Guesses, Results0, DividesExactly,
              Helping
<1> QED BY <1>2, <1>3 DEF Inv

\* A call: the helper reads copies of the operands that are results.
LEMMA CallKeeps ==
  ASSUME TypesAssumption, ValuesAssumption, Inv, Call
  PROVE  Inv'
<1>1. pc' = "entered" /\ loop' = loop /\ call \in Calls /\ loop \in Loops
  BY Typed DEF Call, Inv
<1>2. PICK t \in Types, f \in Functions, b \in {"u", "v"} : \E res \in Results(f) :
        LET apart == f = "eval_qr" /\ res[1] = "q" /\ b = "v"
            used == {res[1], res[2]}
        IN \E n \in IF apart THEN Dividends ELSE Operands :
           \E d \in IF apart THEN Divisors ELSE IF b = "u" THEN {n} ELSE Operands :
             /\ Fits(n, t) /\ Fits(d, t)
             /\ f = "eval_qr" /\ res[1] = "u" => n >= 0 /\ d >= 0
             /\ call' = [type |-> t, fn |-> f, given |-> <<n, d>>, q |-> res[1], r |-> res[2],
                         x |-> copied("u", used, "x_copy"), y |-> copied(b, used, "y_copy")]
             /\ mem' = [mem EXCEPT !["u"] = n, !["v"] = d, !["q"] = -1, !["r"] = -1,
                                   !["x_copy"] = n, !["y_copy"] = d]
  BY DEF Call
<1>3. PICK res \in Results(f) :
        LET apart == f = "eval_qr" /\ res[1] = "q" /\ b = "v"
            used == {res[1], res[2]}
        IN \E n \in IF apart THEN Dividends ELSE Operands :
           \E d \in IF apart THEN Divisors ELSE IF b = "u" THEN {n} ELSE Operands :
             /\ Fits(n, t) /\ Fits(d, t)
             /\ f = "eval_qr" /\ res[1] = "u" => n >= 0 /\ d >= 0
             /\ call' = [type |-> t, fn |-> f, given |-> <<n, d>>, q |-> res[1], r |-> res[2],
                         x |-> copied("u", used, "x_copy"), y |-> copied(b, used, "y_copy")]
             /\ mem' = [mem EXCEPT !["u"] = n, !["v"] = d, !["q"] = -1, !["r"] = -1,
                                   !["x_copy"] = n, !["y_copy"] = d]
  BY <1>2
<1> DEFINE quo == res[1]
           rem == res[2]
           x == copied("u", {quo, rem}, "x_copy")
           y == copied(b, {quo, rem}, "y_copy")
<1>4. PICK n \in Int, d \in Int :
        /\ Fits(n, t)
        /\ b = "u" => d = n
        /\ call' = [type |-> t, fn |-> f, given |-> <<n, d>>, q |-> quo, r |-> rem,
                    x |-> x, y |-> y]
        /\ mem' = [mem EXCEPT !["u"] = n, !["v"] = d, !["q"] = -1, !["r"] = -1,
                              !["x_copy"] = n, !["y_copy"] = d]
  BY <1>3 DEF ValuesAssumption
<1>5. /\ quo \in {"u", "v", "q", None} /\ rem \in {"u", "v", "r", "rem"}
      /\ quo # rem /\ (quo # None <=> f # "eval_modulus")
  BY DEF Results, Functions, None
<1> HIDE DEF quo, rem
<1>6. /\ x \in {"u", "x_copy"} /\ y \in {"u", "v", "y_copy"}
      /\ x \notin {quo, rem} /\ y \notin {quo, rem} /\ (x = "u" \/ x = "x_copy")
      /\ y = b \/ y = "y_copy"
  BY <1>5 DEF copied, None
<1>7. mem \in [Objects -> Int]
  BY Typed DEF Inv
<1> HIDE DEF x, y
<1>8. /\ mem' \in [Objects -> Int] /\ mem'["u"] = n /\ mem'["v"] = d
      /\ mem'["x_copy"] = n /\ mem'["y_copy"] = d
  BY <1>4, <1>7 DEF Objects, Program
<1>9. /\ call'.type = t /\ call'.fn = f /\ call'.given = <<n, d>> /\ call'.q = quo
      /\ call'.r = rem /\ call'.x = x /\ call'.y = y
  BY <1>4
<1>10. Apart'
  <2>1. given1' = n /\ given2' = d /\ type' = t /\ fn' = f /\ (Wanted' <=> quo # None)
    BY <1>9 DEF given1, given2, type, fn, Wanted
  <2>2. dividend' = Abs(n)
    BY <1>9 DEF dividend
  <2>3. Abs(n) < Modulus(t)
    BY <1>4 DEF Fits
  <2>4. mem'[x] = n /\ mem'[y] = d
    BY <1>4, <1>6, <1>8
  <2> HIDE <1>4
  <2> QED BY <1>1, <1>5, <1>6, <1>8, <1>9, <2>1, <2>2, <2>3, <2>4 DEF Apart
<1>11. TypeOK'
  <2>1. call' \in [type : Types, fn : Functions, x : {"u", "x_copy"},
                   y : {"u", "v", "y_copy"}, q : {"u", "v", "q", None},
                   r : {"u", "v", "r", "rem"}, given : Int \X Int]
    BY <1>4, <1>5, <1>6
  <2>2. loop' \in Loops /\ pc' \in Labels
    BY <1>1 DEF Labels
  <2> QED BY <1>8, <2>1, <2>2 DEF TypeOK, Loops
<1>12. /\ LimbsSoFar' /\ Remainders' /\ Quotients' /\ Guesses' /\ Results0'
       /\ DividesExactly'
  BY <1>1 DEF LimbsSoFar, Remainders, Quotients, Guesses, Results0, DividesExactly, Helping
<1> QED BY <1>10, <1>11, <1>12 DEF Inv

LEMMA ZeroDivisorKeeps ==
  ASSUME Inv, ZeroDivisor
  PROVE  Inv'
<1>1. /\ pc = "entered" /\ pc' \in {"threw", "trapped"} /\ call' = call /\ mem' = mem
      /\ loop' = loop /\ py = 0
  BY DEF ZeroDivisor, Entered
<1>2. given2 = 0 /\ given2' = given2 /\ call'.given[2] = given2
  BY <1>1, Given DEF Inv, Abs, given2
<1>3. Apart'
  BY <1>1, <1>2, Frame DEF Inv, Kept
<1>4. TypeOK'
  BY <1>1 DEF Inv, TypeOK, Labels
<1>5. /\ LimbsSoFar' /\ Remainders' /\ Quotients' /\ Guesses' /\ Results0'
      /\ DividesExactly'
  BY <1>1, <1>2 DEF LimbsSoFar, Remainders, Quotients, Guesses, Results0, DividesExactly,
                    Helping
<1> QED BY <1>3, <1>4, <1>5 DEF Inv

\* A call enters the helper with a divisor that is not zero.
LEMMA EnteredHelper ==
  ASSUME Inv, pc = "entered", py # 0
  PROVE  /\ TypeOK /\ Apart /\ given2 # 0 /\ px \in Nat /\ py \in Nat \ {0}
         /\ px = dividend /\ py = divisor
<1>1. TypeOK /\ Apart
  BY DEF Inv
<1> QED BY <1>1, Given DEF Abs

\* What is computed without a loop
LEMMA ComputedKeeps ==
  ASSUME Inv, pc = "entered", py # 0, call' = call,
         NEW quo, NEW whole \in Nat, NEW rem \in Nat, rem < py, Wanted => quo = whole,
         quo \in Nat, px = whole * py + rem, Computed(quo, rem)
  PROVE  Inv'
<1>1. /\ TypeOK /\ Apart /\ given2 # 0 /\ px = dividend /\ py = divisor
  BY EnteredHelper
<1>2. Written(quo, rem)
  BY <1>1, WrittenBoth DEF Computed
<1>3. loop' \in Loops /\ loop'.qsize = Size(quo) /\ pc' = "computed"
  <2> DEFINE s == Size(quo)
  <2>1. s \in Nat
    BY Sizes
  <2>2. loop' = [NoLoop EXCEPT !.qsize = s] /\ pc' = "computed"
    BY DEF Computed
  <2>3. loop' = [qsize |-> s, r_order |-> 0, guess |-> 0, r_neg |-> FALSE,
                 first_pass |-> TRUE]
    BY <2>2, Zenon DEF NoLoop
  <2>4. 0 \in 0 .. Base - 1 /\ 0 \in Nat
    BY Bases
  <2> HIDE DEF s
  <2>5. loop' \in Loops /\ loop'.qsize = s
    BY <2>1, <2>3, <2>4 DEF Loops
  <2> QED BY <2>2, <2>5 DEF s
<1> QED BY <1>1, <1>2, <1>3, ToComputed

\* Any number is the quotient times the divisor and the remainder.
LEMMA WholeAndRest ==
  ASSUME NEW n \in Nat, NEW d \in Nat \ {0}
  PROVE  n \div d \in Nat /\ n % d \in Nat /\ n % d < d /\ n = (n \div d) * d + (n % d)
<1> DEFINE q == n \div d
           r == n % d
<1>1. n \in Int
  OBVIOUS
<1>2. q \in Nat /\ r \in Nat
  BY NaturalDivision, Zenon
<1>3. r \in 0 .. d - 1 /\ n = d * q + r
  BY <1>1, Division, Zenon
<1> HIDE DEF q, r
<1>4. d * q = q * d
  BY <1>2, Products
<1>5. r < d /\ n = q * d + r
  BY <1>2, <1>3, <1>4
<1> QED BY <1>2, <1>5 DEF q, r

LEMMA ModulusByLimbKeeps ==
  ASSUME Inv, ModulusByLimb
  PROVE  Inv'
<1>1. /\ pc = "entered" /\ call' = call /\ ByLimb /\ fn = "eval_modulus" /\ py # 0
  BY DEF ModulusByLimb, Entered
<1>2. /\ px \in Nat /\ py \in Nat \ {0} /\ Apart
  BY <1>1, EnteredHelper
<1>3. ~Wanted
  BY <1>1, <1>2 DEF Apart
<1> DEFINE n == px
           d == py
           s == Size(n)
           g == CHOOSE f : f = ModulusStep(n, d, s, f)
<1>4. d \in 1 .. Base - 1
  BY <1>1, <1>2, Sizes, Bases DEF ByLimb
<1>5. Computed(0, g[s])
  BY DEF ModulusByLimb, ModulusStep
<1>6. g[s] = n % d
  <2> HIDE DEF n, d
  <2>1. n \in Nat
    BY <1>2 DEF n
  <2> QED BY <1>4, <2>1, ModulusLoop
<1> HIDE DEF g, s
<1>7. n \div d \in Nat /\ n % d \in Nat /\ n % d < d /\ n = (n \div d) * d + (n % d)
  <2> HIDE DEF n, d
  <2>1. n \in Nat /\ d \in Nat \ {0} /\ n \in Int
    BY <1>2 DEF n, d
  <2> QED BY <2>1, WholeAndRest, Zenon
<1> QED BY <1>1, <1>3, <1>5, <1>6, <1>7, ComputedKeeps

LEMMA LessThanDivisorKeeps ==
  ASSUME Inv, LessThanDivisor
  PROVE  Inv'
<1>1. pc = "entered" /\ call' = call /\ py # 0 /\ px < py /\ Computed(0, px)
  BY DEF LessThanDivisor, InHelper, Entered
<1>2. px \in Nat /\ py \in Nat
  BY <1>1, EnteredHelper
<1>3. px = 0 * py + px
  BY <1>2, Products
<1> QED BY <1>1, <1>2, <1>3, ComputedKeeps

LEMMA DoubleLimbsKeeps ==
  ASSUME Inv, DoubleLimbs
  PROVE  Inv'
<1>1. pc = "entered" /\ call' = call /\ py # 0 /\ Computed(px \div py, px % py)
  BY DEF DoubleLimbs, InHelper, Entered
<1>2. px \in Nat /\ py \in Nat \ {0}
  BY <1>1, EnteredHelper
<1>3. /\ px \div py \in Nat /\ px % py \in Nat /\ px % py < py
      /\ px = (px \div py) * py + (px % py)
  BY <1>2, WholeAndRest, Zenon
<1> QED BY <1>1, <1>2, <1>3, ComputedKeeps

\* A step to the loop over the limbs
LEMMA ToLimbs ==
  ASSUME TypeOK, Apart, pc # "idle", given2 # 0, Wanted, divisor < Base,
         call' = call, pc' = "limbs", loop' \in Loops, loop'.qsize = Size(dividend),
         NEW quo \in Nat, NEW rem \in Nat, NEW order, order = loop'.r_order,
         order < Size(dividend), Written(quo, rem), quo < Power(Size(dividend)),
         rem < Power(order + 1), Limb(quo, order) = 0 \/ rem < divisor * Power(order),
         DownTo(dividend, divisor, quo, rem, order)
  PROVE  Inv'
<1>1. /\ Apart' /\ dividend' = dividend /\ divisor' = divisor /\ Wanted' = Wanted
  BY Frame DEF Written
<1>2. TypeOK'
  BY Typed DEF TypeOK, Calls, Loops, Written, Labels
<1>3. Remainders' /\ Quotients' /\ Guesses' /\ Results0' /\ DividesExactly'
  BY DEF Results0, Remainders, Quotients, Guesses, DividesExactly, Helping
<1>4. LimbsSoFar'
  <2>1. prem' = rem /\ pr' = quo
    BY DEF Written, prem, pr
  <2>2. DownTo(dividend, divisor, pr, prem, order)'
    BY <1>1, <2>1 DEF DownTo
  <2> QED BY <1>1, <2>1, <2>2 DEF LimbsSoFar
<1> QED BY <1>1, <1>2, <1>3, <1>4 DEF Inv

\* What resize() exposes has a top limb that is zero.
LEMMA Exposed ==
  ASSUME NEW n \in Nat, NEW s \in Nat \ {0}, NEW D \in Nat, NEW d \in Nat
  PROVE  /\ exposed(n, s) \in Nat /\ exposed(n, s) < Power(s)
         /\ Limb(exposed(n, s), s - 1) = 0
         /\ DownTo(D, d, exposed(n, s), D, s - 1)
<1> DEFINE k == s - 1
           w == n % Power(k)
<1>1. k \in Nat /\ s = k + 1
  OBVIOUS
<1>2. exposed(n, s) = w
  BY DEF exposed
<1> HIDE DEF k
<1>3. w \in Nat /\ w < Power(k) /\ Power(k) \in Nat /\ Power(k) < Power(s) /\ Power(s) \in Nat
  <2>1. w \in 0 .. Power(k) - 1 /\ Power(k) \in Nat /\ Power(k) < Power(s) /\ Power(s) \in Nat
    <3>1. w \in 0 .. Power(k) - 1
      BY <1>1, Parts, Zenon
    <3>2. k < s /\ s \in Nat
      BY <1>1
    <3> HIDE DEF w
    <3>3. Power(k) \in Nat /\ Power(k) < Power(s) /\ Power(s) \in Nat
      BY <1>1, <3>2, PowersGrow, PowerFacts
    <3> QED BY <3>1, <3>3
  <2> HIDE DEF w
  <2> QED BY <2>1
<1> HIDE DEF w
<1>4. w < Power(s)
  BY <1>3
<1>5. Limb(w, k) = 0
  BY <1>1, <1>3, LimbFacts
<1>6. DownTo(D, d, w, D, k)
  <2>1. w % Power(k) = w
    BY <1>1, <1>3, Parts
  <2>2. (w - w) * d + D = D
    <3>1. w - w = 0 /\ 0 * d = 0
      BY <1>3, Products
    <3> QED BY <3>1
  <2> QED BY <2>1, <2>2 DEF DownTo
<1> QED BY <1>2, <1>3, <1>4, <1>5, <1>6 DEF k

LEMMA BeginLimbsKeeps ==
  ASSUME Inv, BeginLimbs
  PROVE  Inv'
<1> DEFINE s == Size(px)
<1>1. /\ pc = "entered" /\ call' = call /\ py # 0 /\ ByLimb /\ fn # "eval_modulus" /\ s > 2
      /\ pc' = "limbs"
  BY DEF BeginLimbs, InHelper, Entered
<1>2. /\ TypeOK /\ Apart /\ given2 # 0 /\ px \in Nat /\ py \in Nat \ {0}
      /\ px = dividend /\ py = divisor
  BY <1>1, EnteredHelper
<1>3. PICK limbs \in Nat : mem' = Assigned(exposed(limbs, s), px)
  <2>1. PICK limbs \in {0, Power(s) - 1} : mem' = Assigned(exposed(limbs, s), px)
    BY DEF BeginLimbs
  <2>2. s \in Nat /\ Power(s) \in Nat \ {0}
    BY <1>2, Sizes, PowerFacts
  <2>3. limbs \in Nat
    BY <2>2
  <2> QED BY <2>1, <2>3
<1>4. Wanted /\ divisor < Base
  BY <1>1, <1>2, Sizes DEF Apart, ByLimb
<1>5. s \in Nat \ {0} /\ s - 1 \in Nat /\ px < Power(s) /\ (s - 1) + 1 = s
  <2>1. s \in Nat \ {0} /\ px < Power(s)
    BY <1>2, Sizes
  <2> HIDE DEF s
  <2> QED BY <2>1
<1> DEFINE quo == exposed(limbs, s)
<1>6. /\ quo \in Nat /\ quo < Power(s) /\ Limb(quo, s - 1) = 0
      /\ DownTo(dividend, divisor, quo, px, s - 1)
  BY <1>2, <1>5, Exposed
<1>7. loop' \in Loops /\ loop'.qsize = s /\ loop'.r_order = s - 1
  <2>1. loop' = [NoLoop EXCEPT !.qsize = s, !.r_order = s - 1]
    BY DEF BeginLimbs
  <2>2. loop' = [qsize |-> s, r_order |-> s - 1, guess |-> 0, r_neg |-> FALSE,
                 first_pass |-> TRUE]
    BY <2>1, Zenon DEF NoLoop
  <2>3. 0 \in 0 .. Base - 1 /\ s \in Nat /\ s - 1 \in Nat
    BY <1>5, Bases
  <2> HIDE DEF s
  <2> QED BY <2>2, <2>3 DEF Loops
<1> HIDE DEF s, quo
<1>8. Written(quo, px)
  BY <1>1, <1>2, <1>3, <1>6, WrittenBoth DEF quo
<1>9. s = Size(dividend) /\ s - 1 < s
  BY <1>2, <1>5 DEF s
<1> QED BY <1>1, <1>2, <1>4, <1>5, <1>6, <1>7, <1>8, <1>9, ToLimbs

\* What is known in the loop
LEMMA InLimbs ==
  ASSUME Inv, pc = "limbs"
  PROVE  /\ TypeOK /\ Apart /\ given2 # 0 /\ Wanted /\ py = divisor
         /\ divisor \in 1 .. Base - 1 /\ dividend \in Nat /\ prem \in Nat /\ pr \in Nat
         /\ loop.qsize = Size(dividend) /\ loop.r_order \in Nat /\ loop.r_order < loop.qsize
         /\ pr < Power(loop.qsize) /\ prem < Power(loop.r_order + 1)
         /\ Limb(pr, loop.r_order) = 0 \/ prem < divisor * Power(loop.r_order)
         /\ DownTo(dividend, divisor, pr, prem, loop.r_order)
<1>1. TypeOK /\ Apart /\ given2 # 0 /\ loop \in Loops
  BY Typed DEF Inv, Apart
<1>2. divisor \in Nat /\ divisor # 0 /\ py = divisor /\ dividend \in Nat
  BY <1>1, Given DEF Abs
<1>3. divisor < Base
  BY DEF Inv, LimbsSoFar
<1> QED BY <1>1, <1>2, <1>3, Bases DEF Inv, LimbsSoFar, Loops

\* One limb further down, or at the same one
LEMMA AtLimb ==
  ASSUME TypeOK, Apart, pc = "limbs", given2 # 0, Wanted, call' = call, pc' = "limbs",
         NEW D, D = dividend, NEW d, d = divisor, d \in 1 .. Base - 1,
         NEW s, s = Size(D), loop' \in Loops, loop'.qsize = s,
         NEW quo \in Nat, NEW rem \in Nat, NEW order, loop'.r_order = order,
         order < s, Written(quo, rem), quo < Power(s),
         rem < Power(order + 1), Limb(quo, order) = 0 \/ rem < d * Power(order),
         DownTo(D, d, quo, rem, order)
  PROVE  Inv'
<1>1. d < Base
  BY Bases
<1> QED BY <1>1, ToLimbs

LEMMA LimbDigitKeeps ==
  ASSUME Inv, LimbDigit
  PROVE  Inv'
<1>1. PICK o, n, quo, D, d, s :
        /\ o = loop.r_order /\ n = prem /\ quo = pr /\ D = dividend /\ d = divisor
        /\ s = loop.qsize
  OBVIOUS
<1>2. /\ pc = "limbs" /\ pc' = "limbs" /\ call' = call /\ (o > 0 \/ n >= d)
  BY <1>1, InLimbs DEF LimbDigit
<1>3. /\ TypeOK /\ Apart /\ given2 # 0 /\ Wanted /\ py = d
      /\ d \in 1 .. Base - 1 /\ D \in Nat /\ D \in Int /\ n \in Nat /\ quo \in Nat
      /\ s = Size(D) /\ o \in Nat /\ o < s /\ quo < Power(s) /\ n < Power(o + 1)
      /\ Limb(quo, o) = 0 \/ n < d * Power(o)
      /\ DownTo(D, d, quo, n, o)
  BY <1>1, <1>2, InLimbs
<1>4. PICK k : k = IF Limb(n, o) < d /\ o > 0 THEN o - 1 ELSE o
  OBVIOUS
<1>5. PICK m, r : m = n \div Power(k) /\ r = (m % d) * Power(k) + (n % Power(k))
  OBVIOUS
<1> DEFINE l == m \div d
           w == WithLimb(quo, k, l)
           exact == k > 0 /\ m % d = 0
           w0 == WithLimb(w, k - 1, 0)
<1>6. /\ k \in 0 .. o /\ l \in 0 .. Base - 1
      /\ r \in Nat /\ r < d * Power(k) /\ r < Power(k + 1)
      /\ m % d = 0 => r < Power(k)
      /\ DownTo(D, d, w, r, k)
  <2>1. n < Power(o + 1) /\ (Limb(quo, o) = 0 \/ n < d * Power(o)) /\ DownTo(D, d, quo, n, o)
    BY <1>3
  <2>2. D \in Int /\ d \in 1 .. Base - 1 /\ quo \in Nat /\ n \in Nat /\ o \in Nat
    BY <1>3
  <2>3. Passed(D, d, quo, n, o, k, m, r)
    BY <1>2, <1>4, <1>5, <2>1, <2>2, LimbDivided, Zenon
  <2> QED BY <2>3, Zenon DEF Passed
<1>7. /\ mem' = Assigned(IF exact THEN w0 ELSE w, r)
      /\ loop' = [loop EXCEPT !.r_order = IF exact THEN k - 1 ELSE k]
  BY <1>1, <1>3, <1>4, <1>5, Zenon DEF LimbDigit
<1> HIDE DEF l
<1>8. k \in Nat /\ k < s /\ s \in Nat
  BY <1>3, <1>6, Sizes
<1>9. w \in Nat /\ w < Power(s)
  BY <1>3, <1>6, <1>8, WriteLimb, WriteAbove
<1>10. loop \in Loops
  BY <1>3, Typed
<1>11. CASE exact
  <2>1. k \in Nat \ {0} /\ k - 1 \in Nat /\ k - 1 < s /\ 0 \in 0 .. Base - 1 /\ (k - 1) + 1 = k
    BY <1>8, <1>11, Bases
  <2> HIDE DEF w
  <2>2. w0 \in Nat /\ w0 < Power(s)
    BY <1>8, <1>9, <2>1, WriteLimb, WriteAbove
  <2>3. Limb(w0, k - 1) = 0 /\ DownTo(D, d, w0, r, k - 1)
    BY <1>6, <1>9, <2>1, NextLimbCleared
  <2> HIDE DEF w0
  <2>4. Written(w0, r)
    BY <1>2, <1>3, <1>6, <1>7, <1>11, <2>2, WrittenBoth
  <2>5. loop' \in Loops /\ loop'.qsize = s /\ loop'.r_order = k - 1
    BY <1>1, <1>7, <1>10, <1>11, <2>1 DEF Loops
  <2>6. r < Power((k - 1) + 1)
    BY <1>6, <1>11, <2>1
  <2> HIDE DEF exact
  <2> QED BY <1>1, <1>2, <1>3, <1>6, <2>1, <2>2, <2>3, <2>4, <2>5, <2>6, AtLimb, Zenon
<1>12. CASE ~exact
  <2> HIDE DEF w, w0
  <2>1. Written(w, r)
    <3>1. mem' = Assigned(w, r)
      BY <1>7, <1>12, Zenon
    <3>2. w \in Int /\ r \in Int /\ pc # "idle"
      BY <1>2, <1>6, <1>9
    <3> HIDE DEF exact
    <3> QED BY <1>3, <3>1, <3>2, WrittenBoth
  <2>2. loop' \in Loops /\ loop'.qsize = s /\ loop'.r_order = k
    BY <1>1, <1>7, <1>8, <1>10, <1>12 DEF Loops
  <2> HIDE DEF exact
  <2> QED BY <1>1, <1>2, <1>3, <1>6, <1>8, <1>9, <2>1, <2>2, AtLimb, Zenon
<1> QED BY <1>11, <1>12

LEMMA LimbsDoneKeeps ==
  ASSUME Inv, LimbsDone
  PROVE  Inv'
<1>1. /\ pc = "limbs" /\ pc' = "computed" /\ call' = call /\ mem' = mem
      /\ loop.r_order = 0 /\ prem < py /\ loop' = [loop EXCEPT !.qsize = Size(pr)]
  BY DEF LimbsDone
<1>2. /\ TypeOK /\ Apart /\ given2 # 0 /\ Wanted /\ py = divisor /\ divisor \in Nat
      /\ prem \in Nat /\ pr \in Nat /\ DownTo(dividend, divisor, pr, prem, 0)
  BY <1>1, InLimbs
<1>3. dividend = pr * divisor + prem
  <2>1. pr % Power(0) = 0
    <3>1. Power(0) = 1 /\ pr % Power(0) \in 0 .. Power(0) - 1
      BY <1>2, PowerFacts, Parts
    <3> DEFINE x == pr % Power(0)
    <3> HIDE DEF x
    <3>2. x = 0
      BY <3>1 DEF x
    <3> QED BY <3>2 DEF x
  <2>2. pr - 0 = pr
    BY <1>2
  <2> QED BY <1>2, <2>1, <2>2 DEF DownTo
<1>4. Written(pr, prem)
  BY <1>1, <1>2, Typed DEF Written, Kept, pr, prem
<1>5. loop' \in Loops /\ loop'.qsize = Size(pr)
  <2>1. Size(pr) \in Nat /\ loop \in Loops
    BY <1>2, Sizes, Typed
  <2> QED BY <1>1, <2>1 DEF Loops
<1> QED BY <1>1, <1>2, <1>3, <1>4, <1>5, ToComputed

\* A larger number does not have fewer limbs.
LEMMA SizesGrow ==
  ASSUME NEW m \in Nat, NEW n \in Nat, m <= n
  PROVE  Size(m) <= Size(n)
<1>1. Size(n) \in Nat \ {0} /\ n < Power(Size(n)) /\ Power(Size(n)) \in Nat
  BY Sizes, PowerFacts
<1>2. m < Power(Size(n))
  BY <1>1
<1> QED BY <1>1, <1>2, Sizes

\* The limbs of a divisor of several limbs, and of the quotient
Sides(n, d, k, room) ==
  /\ k \in Nat \ {0} /\ Power(k) <= d /\ d < Power(k + 1)
  /\ room \in Nat \ {0} /\ room + k = Size(n) /\ n < Power(room + k)

LEMMA Orders ==
  ASSUME NEW n \in Nat, NEW d \in Nat, Base <= d, d <= n
  PROVE  Sides(n, d, Size(d) - 1, Size(n) - Size(d) + 1)
<1>1. /\ Size(d) \in Nat \ {0} /\ d < Power(Size(d)) /\ Size(d) # 1
      /\ Power(Size(d) - 1) <= d
  BY Sizes, Bases
<1>2. Size(n) \in Nat /\ n < Power(Size(n)) /\ Size(d) <= Size(n)
  BY Sizes, SizesGrow
<1>3. /\ (Size(d) - 1) + 1 = Size(d)
      /\ (Size(n) - Size(d) + 1) + (Size(d) - 1) = Size(n)
  BY <1>1, <1>2
<1> QED BY <1>1, <1>2, <1>3 DEF Sides

\* What is known while guessing
LEMMA InHelping ==
  ASSUME Inv, pc \in Helping
  PROVE  /\ TypeOK /\ Apart /\ given2 # 0 /\ loop \in Loops /\ type \in Types /\ pc # "idle"
         /\ dividend \in Nat /\ divisor \in Nat \ {0} /\ px = dividend /\ py = divisor
         /\ Base <= divisor /\ divisor <= dividend /\ prem \in Nat /\ prem <= dividend
         /\ dividend < Modulus(type)
         /\ Sides(dividend, divisor, y_order, Room)
<1>1. TypeOK /\ Apart /\ given2 # 0 /\ loop \in Loops /\ pc # "idle"
  BY Typed DEF Inv, Apart, Helping
<1>2. /\ dividend \in Nat /\ divisor \in Nat /\ px = dividend /\ py = divisor
      /\ type \in Types
  BY <1>1, Given
<1>3. /\ Base <= divisor /\ divisor <= dividend /\ prem \in Nat /\ prem <= dividend
      /\ divisor # 0 /\ dividend < Modulus(type)
  BY <1>1, <1>2, Bases DEF Inv, Remainders, Apart
<1>4. Sides(dividend, divisor, y_order, Room)
  <2>1. y_order = Size(divisor) - 1 /\ Room = Size(dividend) - Size(divisor) + 1
    BY <1>2 DEF y_order, Room
  <2> QED BY <1>2, <1>3, <2>1, Orders
<1> QED BY <1>1, <1>2, <1>3, <1>4

LEMMA BeginGuessingKeeps ==
  ASSUME Inv, BeginGuessing
  PROVE  Inv'
<1> DEFINE s == Size(px)
<1>1. /\ pc = "entered" /\ pc' = "guess" /\ call' = call /\ py # 0 /\ ~ByLimb /\ px >= py
      /\ mem' = Assigned(0, px)
      /\ loop' = [NoLoop EXCEPT !.qsize = s - y_order, !.r_order = s - 1]
  BY DEF BeginGuessing, InHelper, Entered
<1>2. /\ TypeOK /\ Apart /\ given2 # 0 /\ px \in Nat /\ py \in Nat \ {0}
      /\ px = dividend /\ py = divisor
  BY <1>1, EnteredHelper
<1>3. /\ Apart' /\ dividend' = dividend /\ divisor' = divisor /\ Wanted' = Wanted
      /\ y_order' = y_order /\ Room' = Room /\ Written(0, px)
  <2>1. Written(0, px)
    BY <1>1, <1>2, WrittenBoth
  <2> QED BY <1>1, <1>2, <2>1, Frame DEF Written
<1>4. prem' = px /\ (Wanted => pr' = 0)
  BY <1>1, <1>3 DEF Written, prem, pr
<1>5. Base <= py /\ py <= px
  BY <1>1, <1>2, Sizes, Bases DEF ByLimb
<1>6. Sides(px, py, y_order, Room)
  <2>1. y_order = Size(py) - 1 /\ Room = Size(px) - Size(py) + 1
    BY <1>2 DEF y_order, Room
  <2> QED BY <1>2, <1>5, <2>1, Orders
<1>7. /\ s \in Nat \ {0} /\ Room = s - y_order /\ y_order \in Nat /\ y_order <= s - 1
      /\ Room \in Nat
  BY <1>2, <1>6, Sizes DEF Sides
<1>8. /\ loop' \in Loops /\ loop'.qsize = Room /\ loop'.r_order = s - 1
      /\ loop'.r_neg = FALSE /\ loop'.first_pass = TRUE
  <2>1. loop' = [qsize |-> s - y_order, r_order |-> s - 1, guess |-> 0, r_neg |-> FALSE,
                 first_pass |-> TRUE]
    BY <1>1, Zenon DEF NoLoop
  <2>2. 0 \in 0 .. Base - 1 /\ s - y_order \in Nat /\ s - 1 \in Nat
    BY <1>7, Bases
  <2> HIDE DEF s
  <2> QED BY <1>7, <2>1, <2>2 DEF Loops
<1> HIDE DEF s
<1>9. TypeOK'
  BY <1>1, <1>2, <1>3, <1>8, Typed DEF TypeOK, Calls, Loops, Written, Labels
<1>10. /\ LimbsSoFar' /\ Results0' /\ Guesses' /\ DividesExactly'
  BY <1>1 DEF LimbsSoFar, Results0, Guesses, DividesExactly, Helping
<1>11. Remainders'
  <2>1. \E quo \in Int : Divides(quo, Left)'
    <3>1. Left' = px
      BY <1>4, <1>8 DEF Left, Signed
    <3>2. dividend = 0 * divisor + px
      BY <1>2, Products
    <3>3. Divides(0, Left)'
      BY <1>3, <1>4, <3>1, <3>2 DEF Divides
    <3> QED BY <3>3
  <2> QED BY <1>1, <1>2, <1>3, <1>4, <1>5, <1>8, <2>1 DEF Remainders, s
<1>12. Quotients'
  <2>1. 0 = 0 * Power(shift') /\ 0 < Power(Room)
    <3>1. shift' \in Nat
      BY <1>3, <1>7, <1>8 DEF shift
    <3>2. Power(shift') \in Nat /\ Power(Room) \in Nat \ {0}
      BY <1>7, <3>1, PowerFacts
    <3> QED BY <3>2, Products
  <2>2. Wanted => pr' = 0
    BY <1>4
  <2>3. Wanted => \E n \in Nat : pr' = n * Power(shift')
    BY <2>1, <2>2
  <2> QED BY <1>1, <1>3, <1>7, <1>8, <2>1, <2>2, <2>3 DEF Quotients, shift
<1> QED BY <1>3, <1>9, <1>10, <1>11, <1>12 DEF Inv

\* What is known when a guess is made
LEMMA InGuess ==
  ASSUME Inv, pc = "guess"
  PROVE  /\ divisor <= prem /\ loop.r_order \in Nat
         /\ Power(loop.r_order) <= prem /\ prem < Power(loop.r_order + 1)
         /\ loop.r_order < Size(dividend)
<1>1. /\ prem \in Nat /\ prem <= dividend /\ dividend \in Nat /\ divisor \in Nat
      /\ Base <= divisor
  BY InHelping DEF Helping
<1>2. divisor <= prem /\ loop.r_order = Size(prem) - 1
  BY DEF Inv, Remainders, Helping
<1>3. Size(prem) \in Nat \ {0} /\ prem < Power(Size(prem)) /\ Size(prem) # 1
      /\ Power(Size(prem) - 1) <= prem
  BY <1>1, <1>2, Sizes, Bases
<1>4. Size(prem) <= Size(dividend) /\ Size(dividend) \in Nat
  BY <1>1, SizesGrow, Sizes
<1>5. (Size(prem) - 1) + 1 = Size(prem)
  BY <1>3
<1> QED BY <1>2, <1>3, <1>4, <1>5

\* The guess does what it is for, also where its multiple of the divisor does not fit
\* the type.
GuessGood(n, d, k, D, m, mod, g, w) ==
  /\ g \in 1 .. Base - 1 /\ w \in Nat /\ k <= w /\ w < Size(D)
  /\ g * Limb(d, k) * Power(w) <= n
  /\ Abs(n - g * d * Power(w - k)) < n
  /\ Abs(n - g * d * Power(w - k)) < Power(w + 1)
  /\ Power(m) <= g * d * Power(w - k) => w + 1 = m /\ mod = Power(m)

LEMMA GuessIsGood ==
  ASSUME TypesAssumption, NEW t \in Types, NEW n \in Nat, NEW d \in Nat, NEW k \in Nat \ {0},
         NEW o \in Nat, NEW D \in Nat, n <= D, D < Modulus(t), o < Size(D),
         Power(k) <= d, d < Power(k + 1), Power(o) <= n, n < Power(o + 1), d <= n,
         NEW g, NEW w, g = GuessOf(n, d, k, o).digit, w = GuessOf(n, d, k, o).r_order
  PROVE  GuessGood(n, d, k, D, t.limbs, Modulus(t), g, w) /\ w <= o
<1> DEFINE mult == g * d * Power(w - k)
<1>1. /\ g \in 1 .. Base - 1 /\ w \in Nat /\ k <= w /\ w <= o
      /\ g * Limb(d, k) * Power(w) <= n /\ mult \in Nat
      /\ Abs(n - mult) < n /\ Abs(n - mult) < Power(w + 1)
      /\ w = o \/ mult < Power(o + 1)
  BY GuessFits, Zenon
<1> HIDE DEF mult
<1>2. w < Size(D)
  BY <1>1, Sizes
<1>3. ASSUME Power(t.limbs) <= mult
      PROVE  w + 1 = t.limbs /\ Modulus(t) = Power(t.limbs)
  <2> DEFINE m == t.limbs
             top == t.top
             l == m - 1
  <2>1. /\ m \in Nat \ {0} /\ top \in 2 .. Base /\ Base % top = 0
        /\ top = Base => Modulus(t) = Power(m)
    BY Moduli
  <2>2. l \in Nat /\ l + 1 = m
    BY <2>1
  <2>3. Modulus(t) = Power(l) * top
    BY DEF Modulus
  <2>4. n < Power(l) * top
    <3>1. Modulus(t) \in Nat
      BY Moduli
    <3> HIDE DEF l, top
    <3> QED BY <2>3, <3>1
  <2> HIDE DEF m, top, l
  <2>5. Power(m) <= mult
    BY <1>3 DEF m
  <2>6. w + 1 = m /\ top = Base
    <3>1. AtTop(w, m, top)
      BY <1>1, <2>1, <2>2, <2>4, <2>5, WrapsAtTop, Zenon
    <3> QED BY <3>1 DEF AtTop
  <2> QED BY <2>1, <2>6 DEF m
<1>4. GuessGood(n, d, k, D, t.limbs, Modulus(t), g, w)
  BY <1>1, <1>2, <1>3 DEF GuessGood, mult
<1> QED BY <1>1, <1>4

\* A multiple of a power is one of a smaller power.
LEMMA SmallerPower ==
  ASSUME NEW c \in Nat, NEW s \in Nat, NEW u \in Nat, u <= s
  PROVE  \E e \in Nat : c * Power(s) = e * Power(u)
<1> DEFINE v == s - u
           e == c * Power(v)
<1>1. v \in Nat /\ s = v + u
  OBVIOUS
<1> HIDE DEF v
<1>2. Power(v) \in Nat /\ Power(u) \in Nat /\ Power(s) = Power(v) * Power(u)
  BY <1>1, PowerFacts, PowerOfSum
<1>3. e \in Nat /\ c * (Power(v) * Power(u)) = e * Power(u)
  BY <1>2, Products
<1> QED BY <1>2, <1>3

LEMMA GuessKeeps ==
  ASSUME TypesAssumption, Inv, Guess
  PROVE  Inv'
<1>1. PICK g, w : g = Guessed(loop.r_order).digit /\ w = Guessed(loop.r_order).r_order
  OBVIOUS
<1>2. /\ pc = "guess" /\ call' = call /\ mem' = mem
      /\ loop' = [loop EXCEPT !.guess = g, !.r_order = w]
      /\ pc' = IF Wanted THEN "accumulate" ELSE "reduce"
  BY <1>1 DEF Guess
<1>3. PICK n, d, k, D, o : n = prem /\ d = divisor /\ k = y_order /\ D = dividend
                           /\ o = loop.r_order
  OBVIOUS
<1>4. /\ TypeOK /\ Apart /\ given2 # 0 /\ loop \in Loops /\ type \in Types /\ pc # "idle"
      /\ D \in Nat /\ d \in Nat /\ py = d /\ n \in Nat /\ n <= D /\ D < Modulus(type)
      /\ k \in Nat \ {0} /\ Power(k) <= d /\ d < Power(k + 1)
  BY <1>2, <1>3, InHelping DEF Helping, Sides
<1>5. /\ d <= n /\ o \in Nat /\ Power(o) <= n /\ n < Power(o + 1) /\ o < Size(D)
  BY <1>2, <1>3, InGuess
<1>6. g = GuessOf(n, d, k, o).digit /\ w = GuessOf(n, d, k, o).r_order
  BY <1>1, <1>3, <1>4 DEF Guessed, GuessOf
<1>7. GuessGood(n, d, k, D, type.limbs, Modulus(type), g, w) /\ w <= o
  BY <1>4, <1>5, <1>6, GuessIsGood, Zenon
<1>8. g \in 1 .. Base - 1 /\ w \in Nat /\ k <= w /\ w < Size(D)
  BY <1>7 DEF GuessGood
<1>9. /\ loop' \in Loops /\ loop'.guess = g /\ loop'.r_order = w /\ loop'.qsize = loop.qsize
      /\ loop'.r_neg = loop.r_neg /\ loop'.first_pass = loop.first_pass
  <2>1. g \in 0 .. Base - 1
    BY <1>8, Bases
  <2> QED BY <1>2, <1>4, <1>8, <2>1 DEF Loops
<1>10. /\ Apart' /\ dividend' = dividend /\ divisor' = divisor /\ Wanted' = Wanted
       /\ type' = type /\ y_order' = y_order /\ Room' = Room /\ py' = py
  BY <1>2, <1>4, Frame DEF Kept
<1>11. prem' = prem /\ pr' = pr /\ pc' \in {"accumulate", "reduce"}
       /\ (Wanted <=> pc' = "accumulate")
  BY <1>2 DEF prem, pr
<1>12. TypeOK'
  BY <1>2, <1>4, <1>9, <1>11 DEF TypeOK, Loops, Labels
<1>13. LimbsSoFar' /\ Results0' /\ DividesExactly'
  BY <1>11 DEF LimbsSoFar, Results0, DividesExactly
<1>14. Guesses'
  <2>1. shift' = w - k
    BY <1>3, <1>9, <1>10 DEF shift
  <2>2. /\ loop'.guess = g /\ py' = d /\ prem' = n /\ y_order' = k /\ loop'.r_order = w
        /\ dividend' = D /\ divisor' = d /\ type' = type
    BY <1>3, <1>4, <1>9, <1>10, <1>11
  <2>3. g >= 1
    BY <1>8
  <2>4. Guesses' = (pc' \in {"accumulate", "reduce"} =>
           LET t == g * d * Power(w - k) IN
           /\ pc' = "accumulate" => Wanted'
           /\ g >= 1 /\ k <= w /\ w < Size(D)
           /\ g * Limb(d, k) * Power(w) <= n
           /\ Abs(n - t) < n /\ Abs(n - t) < Power(w + 1)
           /\ Power(type.limbs) <= t =>
                w + 1 = type.limbs /\ Modulus(type) = Power(type.limbs))
    BY <2>1, <2>2 DEF Guesses
  <2>5. pc' = "accumulate" => Wanted'
    BY <1>10, <1>11
  <2> QED BY <1>7, <2>3, <2>4, <2>5 DEF GuessGood
<1>15. Remainders'
  <2>1. Left' = Left
    BY <1>9, <1>11 DEF Left
  <2>2. PICK quo \in Int : Divides(quo, Left)
    BY <1>2 DEF Inv, Remainders, Helping
  <2>3. Divides(quo, Left)' /\ dividend' = quo * divisor' + Left'
    BY <1>10, <1>11, <2>1, <2>2 DEF Divides
  <2>4. /\ Base <= divisor /\ divisor <= dividend /\ prem \in Nat /\ prem <= dividend
        /\ Wanted /\ ~loop.first_pass => prem < dividend
        /\ Wanted /\ loop.first_pass => prem = dividend /\ ~loop.r_neg
    BY <1>2 DEF Inv, Remainders, Helping
  <2> QED BY <1>9, <1>10, <1>11, <2>3, <2>4 DEF Remainders
<1>16. Quotients'
  <2>1. SUFFICES ASSUME Wanted PROVE Quotients'
    BY <1>10 DEF Quotients
  <2>2. /\ pr \in Nat /\ pr < Power(Room) /\ \E e \in Nat : pr = e * Power(shift)
        /\ y_order <= loop.r_order
        /\ loop.first_pass => pr = 0 /\ loop.qsize = Room
        /\ ~loop.first_pass => pr # 0 /\ loop.qsize = Size(pr)
    BY <1>2, <2>1 DEF Inv, Quotients, Helping
  <2>3. shift' = w - k /\ shift = o - k
    BY <1>3, <1>9, <1>10 DEF shift
  <2>4. \E e \in Nat : pr = e * Power(w - k)
    <3>1. PICK c \in Nat : pr = c * Power(o - k)
      BY <2>2, <2>3
    <3>2. o - k \in Nat /\ w - k \in Nat /\ w - k <= o - k
      BY <1>4, <1>5, <1>7, <1>8
    <3>3. \E e \in Nat : c * Power(o - k) = e * Power(w - k)
      BY <3>2, SmallerPower
    <3> QED BY <3>1, <3>3
  <2>5. y_order' <= loop'.r_order
    BY <1>3, <1>8, <1>9, <1>10
  <2>6. pc' = "accumulate"
    BY <1>11, <2>1
  <2> QED BY <1>9, <1>10, <1>11, <2>2, <2>3, <2>4, <2>5, <2>6 DEF Quotients
<1> QED BY <1>10, <1>12, <1>13, <1>14, <1>15, <1>16 DEF Inv

\* What is known when the guess is booked: its digit is one of the quotient's.
LEMMA InAccumulate ==
  ASSUME Inv, pc = "accumulate"
  PROVE  /\ Wanted /\ loop.guess \in 1 .. Base - 1 /\ shift \in Nat /\ shift < Room
         /\ loop.r_order = y_order + shift
         /\ pr \in Nat /\ pr < Power(Room)
         /\ dividend = pr * divisor + Left
         /\ \E e \in Nat : pr = e * Power(shift)
         /\ loop.first_pass => pr = 0 /\ loop.qsize = Room
         /\ ~loop.first_pass => pr # 0 /\ loop.qsize = Size(pr) /\ shift < Size(pr)
<1>1. pc \in Helping
  BY DEF Helping
<1>2. /\ loop \in Loops /\ dividend \in Nat
      /\ y_order \in Nat /\ Room \in Nat /\ Room + y_order = Size(dividend)
  BY <1>1, InHelping DEF Sides
<1>3. loop.guess \in 0 .. Base - 1 /\ loop.r_order \in Nat
  BY <1>2 DEF Loops
<1>4. Wanted /\ loop.guess >= 1 /\ y_order <= loop.r_order /\ loop.r_order < Size(dividend)
  BY DEF Inv, Guesses
<1>5. shift \in Nat /\ shift < Room /\ loop.r_order = y_order + shift
  BY <1>2, <1>3, <1>4 DEF shift
<1>6. /\ pr \in Nat /\ pr < Power(Room)
      /\ \E e \in Nat : pr = e * Power(shift)
      /\ loop.first_pass => pr = 0 /\ loop.qsize = Room
      /\ ~loop.first_pass => pr # 0 /\ loop.qsize = Size(pr)
  BY <1>1, <1>4 DEF Inv, Quotients
<1>7. dividend = pr * divisor + Left
  <2>1. PICK quo \in Int : Divides(quo, Left)
    BY <1>1 DEF Inv, Remainders
  <2> QED BY <1>4, <2>1 DEF Divides
<1>8. ASSUME pr # 0 PROVE shift < Size(pr)
  <2>1. PICK e \in Nat : pr = e * Power(shift)
    BY <1>6
  <2>2. Power(shift) \in Nat \ {0}
    BY <1>5, PowerFacts
  <2>3. e # 0
    BY <1>8, <2>1, <2>2, Products
  <2>4. 1 * Power(shift) <= e * Power(shift)
    <3>1. 1 \in Int /\ e \in Int /\ 1 <= e /\ Power(shift) \in Nat
      BY <2>2, <2>3
    <3> QED BY <3>1, Monotone
  <2>5. Power(shift) <= pr
    BY <2>1, <2>2, <2>4
  <2>6. pr < Power(Size(pr)) /\ Size(pr) \in Nat /\ Power(Size(pr)) \in Nat
    BY <1>6, Sizes, PowerFacts
  <2>7. CASE Size(pr) <= shift
    <3>1. Power(Size(pr)) <= Power(shift)
      BY <1>5, <2>6, <2>7, PowersGrow
    <3> QED BY <1>6, <2>2, <2>5, <2>6, <3>1
  <2> QED BY <1>5, <2>6, <2>7
<1> QED BY <1>3, <1>4, <1>5, <1>6, <1>7, <1>8, Bases

\* A quotient that stays a natural number stays a multiple.
LEMMA StaysMultiple ==
  ASSUME NEW c \in Nat, NEW x \in Int, NEW p \in Nat \ {0}, c * p + x * p \in Nat
  PROVE  \E e \in Nat : c * p + x * p = e * p
<1>1. c * p + x * p = (c + x) * p /\ c + x \in Int
  OBVIOUS
<1>2. c + x >= 0
  <2>1. SUFFICES ASSUME c + x <= -1 PROVE FALSE
    BY <1>1
  <2>2. (c + x) * p <= (-1) * p
    <3> DEFINE y == c + x
    <3>1. y \in Int /\ y <= -1 /\ p \in Nat
      BY <1>1, <2>1
    <3> HIDE DEF y
    <3>2. y * p <= (-1) * p
      BY <3>1, Monotone
    <3> QED BY <3>2 DEF y
  <2>3. (-1) * p < 0
    OBVIOUS
  <2> DEFINE z == (c + x) * p
             u == (-1) * p
  <2>4. z \in Nat /\ z <= u /\ u < 0 /\ u \in Int
    BY <1>1, <2>2, <2>3
  <2> HIDE DEF z, u
  <2> QED BY <2>4
<1> QED BY <1>1, <1>2

\* The quotient's size, whether the guess is booked in one limb or not
LEMMA SizeInOneLimb ==
  ASSUME NEW quo \in Nat \ {0}, NEW k \in Nat, k < Size(quo), NEW x \in Int,
         Limb(quo, k) + x \in 1 .. Base - 1
  PROVE  Size(quo + x * Power(k)) = Size(quo)
<1> DEFINE l == Limb(quo, k) + x
<1>1. Size(WithLimb(quo, k, l)) = Size(quo)
  <2>1. l \in 0 .. Base - 1 /\ l >= 1
    BY Bases
  <2> HIDE DEF l
  <2> QED BY <2>1, SizeKept
<1>2. l - Limb(quo, k) = x
  BY LimbFacts
<1> QED BY <1>1, <1>2 DEF WithLimb

LEMMA AccumulateKeeps ==
  ASSUME Inv, Accumulate
  PROVE  Inv'
<1>1. PICK new, x, s : new = pr + change * Power(shift) /\ x = change /\ s = shift
  OBVIOUS
<1>2. /\ pc = "accumulate" /\ pc' = "reduce" /\ call' = call
      /\ mem' = [mem EXCEPT ![call.q] = new]
      /\ loop' = [loop EXCEPT !.qsize = IF InOneLimb THEN @ ELSE Size(new)]
  BY <1>1 DEF Accumulate
<1>3. PICK n, d, k, D, c, g, room :
        /\ n = prem /\ d = divisor /\ k = y_order /\ D = dividend /\ c = pr
        /\ g = loop.guess /\ room = Room
  OBVIOUS
<1>4. /\ TypeOK /\ Apart /\ given2 # 0 /\ loop \in Loops /\ pc # "idle"
      /\ D \in Nat /\ d \in Nat /\ n \in Nat /\ n <= D /\ py = d
      /\ k \in Nat /\ Power(k) <= d /\ d < Power(k + 1)
      /\ room \in Nat \ {0} /\ D < Power(room + k)
  BY <1>2, <1>3, InHelping DEF Helping, Sides
<1>5. /\ Wanted /\ g \in 1 .. Base - 1 /\ s \in Nat /\ s < room /\ loop.r_order = k + s
      /\ c \in Nat /\ c < Power(room) /\ D = c * d + Left
      /\ \E e \in Nat : c = e * Power(s)
      /\ loop.first_pass => c = 0 /\ loop.qsize = room
      /\ ~loop.first_pass => c # 0 /\ loop.qsize = Size(c) /\ s < Size(c)
  BY <1>1, <1>2, <1>3, InAccumulate
<1>6. /\ g * Limb(d, k) * Power(k + s) <= n /\ Abs(n - g * d * Power(s)) < n
  BY <1>1, <1>2, <1>3, <1>4, <1>5 DEF Inv, Guesses
<1>7. loop.r_neg \in BOOLEAN /\ Left = Signed(n, loop.r_neg) /\ x = Signed(g, loop.r_neg)
      /\ x \in Int
  <2>1. loop.r_neg \in BOOLEAN /\ Left = Signed(n, loop.r_neg)
    BY <1>3, <1>4 DEF Loops, Left
  <2>2. x = Signed(g, loop.r_neg)
    BY <1>1, <1>3 DEF change, Signed
  <2> QED BY <1>5, <2>1, <2>2, Bases DEF Signed
<1>8. new \in Nat \ {0} /\ new < Power(room)
  <2>1. Booked(D, d, k, room, n, c, g, s, loop.r_neg)
    <3>1. D = c * d + Signed(n, loop.r_neg) /\ loop.r_neg \in BOOLEAN
      BY <1>5, <1>7
    <3>2. /\ D \in Nat /\ d \in Nat /\ n \in Nat /\ n <= D
          /\ k \in Nat /\ Power(k) <= d /\ d < Power(k + 1)
          /\ room \in Nat \ {0} /\ D < Power(room + k)
      BY <1>4
    <3>3. g \in 1 .. Base - 1 /\ s \in Nat /\ s < room /\ c \in Nat /\ c < Power(room)
      BY <1>5
    <3>4. PICK neg \in BOOLEAN : neg = loop.r_neg
      BY <3>1
    <3>5. MadeUp(D, d, c, Signed(n, neg))
      BY <3>1, <3>4 DEF MadeUp
    <3>6. Booked(D, d, k, room, n, c, g, s, neg)
      BY <1>6, <3>2, <3>3, <3>5, QuotientFits, SMTT(60)
    <3> QED BY <3>4, <3>6
  <2>2. new = c + Signed(g, loop.r_neg) * Power(s)
    BY <1>1, <1>3, <1>7
  <2> QED BY <2>1, <2>2 DEF Booked
<1>9. PICK qsize \in Nat : loop' = [loop EXCEPT !.qsize = qsize]
                           /\ qsize = IF InOneLimb THEN loop.qsize ELSE Size(new)
  <2>1. Size(new) \in Nat /\ loop.qsize \in Nat
    BY <1>4, <1>8, Sizes DEF Loops
  <2> QED BY <1>2, <2>1
<1>10. /\ loop' \in Loops /\ loop'.guess = g /\ loop'.r_order = loop.r_order
       /\ loop'.qsize = qsize /\ loop'.r_neg = loop.r_neg
       /\ loop'.first_pass = loop.first_pass
  BY <1>3, <1>4, <1>9 DEF Loops
<1>11. Written(new, prem)
  BY <1>2, <1>4, <1>5, <1>8, Given, Typed DEF Written, Kept, Apart, prem
<1>12. /\ Apart' /\ dividend' = dividend /\ divisor' = divisor /\ Wanted' = Wanted
       /\ type' = type /\ y_order' = y_order /\ Room' = Room /\ py' = py
  BY <1>2, <1>4, <1>11, Frame DEF Written
<1>13. prem' = prem /\ pr' = new
  BY <1>2, <1>5, <1>11 DEF Written, prem, pr
<1>14. shift' = s /\ change' = x /\ Left' = Left
  BY <1>1, <1>3, <1>10, <1>12, <1>13 DEF shift, change, Left
<1>15. TypeOK'
  BY <1>2, <1>4, <1>10, <1>11, Typed DEF TypeOK, Calls, Loops, Written, Labels
<1>16. LimbsSoFar' /\ Results0' /\ DividesExactly'
  BY <1>2 DEF LimbsSoFar, Results0, DividesExactly
<1>17. Guesses'
  BY <1>2, <1>3, <1>10, <1>12, <1>13, <1>14, <1>1 DEF Inv, Guesses
<1>18. Remainders'
  <2>1. /\ Wanted => new = c + x * Power(s)
        /\ dividend = c * divisor + Left
    BY <1>1, <1>3, <1>5
  <2>2. \E quo \in Int : /\ Wanted' => pr' = quo + change' * Power(shift')
                         /\ dividend' = quo * divisor' + Left'
    BY <1>5, <1>12, <1>13, <1>14, <2>1
  <2>3. /\ Base <= divisor /\ divisor <= dividend /\ prem \in Nat /\ prem <= dividend
        /\ Wanted /\ ~loop.first_pass => prem < dividend
        /\ Wanted /\ loop.first_pass => prem = dividend /\ ~loop.r_neg
    BY <1>2 DEF Inv, Remainders, Helping
  <2> QED BY <1>2, <1>10, <1>12, <1>13, <2>2, <2>3 DEF Remainders
<1>19. Quotients'
  <2>1. \E e \in Nat : new = e * Power(s)
    <3>1. PICK e \in Nat : c = e * Power(s)
      BY <1>5
    <3>2. e * Power(s) + x * Power(s) \in Nat /\ Power(s) \in Nat \ {0}
      BY <1>1, <1>3, <1>5, <1>8, <3>1, PowerFacts
    <3>3. \E f \in Nat : e * Power(s) + x * Power(s) = f * Power(s)
      BY <1>7, <3>2, StaysMultiple
    <3> QED BY <1>1, <1>3, <3>1, <3>3
  <2>2. Size(new) <= room /\ Size(new) \in Nat
    BY <1>4, <1>8, Sizes
  <2>3. loop.first_pass => Size(new) <= qsize /\ qsize <= room
    BY <1>4, <1>5, <1>9, <2>2
  <2>4. ~loop.first_pass => qsize = Size(new)
    <3>1. SUFFICES ASSUME ~loop.first_pass, InOneLimb PROVE Size(c) = Size(new)
      BY <1>5, <1>9
    <3>2. c \in Nat \ {0} /\ s < Size(c)
      BY <1>5, <3>1
    <3>3. Limb(c, s) + x \in 1 .. Base - 1
      <4>1. Limb(c, s) + x \in (IF loop.r_neg THEN 1 ELSE 0) .. Base - 2
        BY <1>1, <1>3, <3>1 DEF InOneLimb
      <4>2. ~loop.r_neg => x >= 1
        BY <1>5, <1>7 DEF Signed
      <4>3. Limb(c, s) \in Nat
        BY <1>5, LimbFacts
      <4> QED BY <1>7, <4>1, <4>2, <4>3, Bases
    <3>4. Size(c + x * Power(s)) = Size(c)
      BY <1>5, <1>7, <3>2, <3>3, SizeInOneLimb
    <3> QED BY <1>1, <1>3, <3>4
  <2>5. y_order <= loop.r_order
    BY <1>3, <1>4, <1>5
  <2> QED BY <1>2, <1>3, <1>8, <1>10, <1>12, <1>13, <1>14, <2>1, <2>2, <2>3, <2>4, <2>5
          DEF Quotients
<1> QED BY <1>12, <1>15, <1>16, <1>17, <1>18, <1>19 DEF Inv

\* What is left after a guess
LEMMA LeftAfter ==
  ASSUME NEW c \in Int, NEW d \in Nat, NEW n \in Nat, NEW g \in Nat, NEW p \in Nat,
         NEW neg \in BOOLEAN, NEW flipped \in BOOLEAN,
         flipped <=> (IF n <= g * d * p THEN ~neg ELSE neg)
  PROVE  SameWhole(d, c, Signed(n, neg), c + Signed(g, neg) * p,
                   Signed(Abs(n - g * d * p), flipped))
<1> DEFINE t == g * d * p
           a == Abs(n - t)
           x == Signed(g, neg)
           m == Signed(n, neg)
           r == Signed(a, flipped)
<1>1. t \in Nat
  <2>1. g * d \in Nat
    BY Products
  <2> QED BY <2>1, Products
<1> HIDE DEF t
<1>2. a \in Int /\ a = IF n <= t THEN t - n ELSE n - t
  BY <1>1 DEF Abs
<1> HIDE DEF a
<1>3. flipped <=> (IF n <= t THEN ~neg ELSE neg)
  BY DEF t
<1>4. /\ x \in Int /\ m \in Int /\ r \in Int
      /\ \/ x = g /\ m = n /\ r = n - t
         \/ x = -g /\ m = -n /\ r = t - n
  <2>1. CASE neg /\ n <= t
    BY <1>1, <1>2, <1>3, <2>1 DEF Signed
  <2>2. CASE neg /\ t < n
    BY <1>1, <1>2, <1>3, <2>2 DEF Signed
  <2>3. CASE ~neg /\ n <= t
    BY <1>1, <1>2, <1>3, <2>3 DEF Signed
  <2>4. CASE ~neg /\ t < n
    BY <1>1, <1>2, <1>3, <2>4 DEF Signed
  <2> QED BY <1>1, <2>1, <2>2, <2>3, <2>4
<1> HIDE DEF x, m, r
<1>5. SameWhole(d, c, m, c + x * p, r)
  BY <1>4, InStep DEF t
<1> QED BY <1>5, Zenon DEF x, m, r, a, t

\* What is known when the guess is subtracted
LEMMA InReduce ==
  ASSUME Inv, pc = "reduce"
  PROVE  /\ loop.guess \in 1 .. Base - 1 /\ shift \in Nat
         /\ loop.r_order = y_order + shift /\ loop.r_order \in Nat
         /\ Abs(prem - loop.guess * divisor * Power(shift)) < prem
         /\ Abs(prem - loop.guess * divisor * Power(shift)) < Power(loop.r_order + 1)
         /\ Power(type.limbs) <= loop.guess * divisor * Power(shift) =>
              loop.r_order + 1 = type.limbs /\ Modulus(type) = Power(type.limbs)
<1>1. pc \in Helping
  BY DEF Helping
<1>2. loop \in Loops /\ y_order \in Nat /\ py = divisor
  BY <1>1, InHelping DEF Sides
<1>3. loop.guess \in 0 .. Base - 1 /\ loop.r_order \in Nat
  BY <1>2 DEF Loops
<1>4. loop.guess >= 1 /\ y_order <= loop.r_order
  BY DEF Inv, Guesses
<1>5. shift \in Nat /\ loop.r_order = y_order + shift
  BY <1>2, <1>3, <1>4 DEF shift
<1> DEFINE t == loop.guess * divisor * Power(shift)
<1>6. /\ Abs(prem - t) < prem /\ Abs(prem - t) < Power(loop.r_order + 1)
      /\ Power(type.limbs) <= t =>
           loop.r_order + 1 = type.limbs /\ Modulus(type) = Power(type.limbs)
  BY <1>2 DEF Inv, Guesses
<1> QED BY <1>3, <1>4, <1>5, <1>6, Bases

\* The remainder that a guess leaves is exact, and smaller.
LEMMA ReducedExactly ==
  ASSUME TypesAssumption, Inv, pc = "reduce",
         NEW t, t = loop.guess * divisor * Power(shift)
  PROVE  /\ t \in Nat
         /\ reduced(t).rem = Abs(prem - t) /\ ~reduced(t).overflows
         /\ reduced(t).flips \in BOOLEAN /\ (reduced(t).flips <=> prem <= t)
<1>1. PICK n, w, m, mod : n = prem /\ w = loop.r_order /\ m = type.limbs /\ mod = Modulus(type)
  OBVIOUS
<1>2. /\ n \in Nat /\ divisor \in Nat /\ m \in Nat \ {0} /\ mod \in Nat /\ mod <= Power(m)
      /\ n < mod
  <2>1. /\ n \in Nat /\ divisor \in Nat /\ n <= dividend /\ dividend < mod /\ type \in Types
        /\ dividend \in Nat
    BY <1>1, InHelping DEF Helping
  <2>2. m \in Nat \ {0} /\ mod \in Nat /\ mod <= Power(m)
    BY <1>1, <2>1, Moduli
  <2> QED BY <2>1, <2>2
<1>3. /\ t \in Nat /\ w \in Nat /\ Abs(n - t) < n
      /\ Power(m) <= t => w + 1 = m /\ mod = Power(m)
  <2>1. /\ loop.guess \in 1 .. Base - 1 /\ shift \in Nat /\ w \in Nat /\ Abs(n - t) < n
        /\ Power(m) <= t => w + 1 = m /\ mod = Power(m)
    BY <1>1, InReduce
  <2>2. loop.guess \in Nat /\ Power(shift) \in Nat
    BY <2>1, PowerFacts, Bases
  <2>3. t \in Nat
    <3>1. loop.guess * divisor \in Nat
      BY <1>2, <2>2, Products
    <3> QED BY <2>2, <3>1, Products
  <2> QED BY <2>1, <2>3
<1>4. Reduces(n, t, w, m, mod)
  BY <1>2, <1>3, ReducedTo, Zenon
<1> DEFINE wraps == Size(t) > m
           negated == ((Power(w + 1) - 1 - n) % mod) + 1
           rem == IF wraps THEN negated + (t % Power(m)) ELSE Abs(n - t)
<1>5. rem = Abs(n - t) /\ rem % mod = rem /\ rem < mod /\ (wraps => n <= t)
  BY <1>4, Zenon DEF Reduces
<1> DEFINE flips == wraps \/ n <= t
           overflows == type.checked /\ rem >= mod
<1>6. reduced(t) = [rem |-> rem % mod, flips |-> flips, overflows |-> overflows]
  BY <1>1, Zenon DEF reduced
<1>7. flips \in BOOLEAN /\ (flips <=> n <= t)
  <2> HIDE DEF wraps
  <2> QED BY <1>5
<1>8. ~overflows
  <2> HIDE DEF rem
  <2>1. rem \in Int
    BY <1>2, <1>3, <1>5 DEF Abs
  <2> QED BY <1>2, <1>5, <2>1
<1> HIDE DEF rem, wraps, flips, overflows
<1>9. reduced(t).rem = Abs(n - t) /\ reduced(t).flips = flips
      /\ reduced(t).overflows = overflows
  BY <1>5, <1>6
<1> QED BY <1>1, <1>3, <1>7, <1>8, <1>9

LEMMA ReduceKeeps ==
  ASSUME TypesAssumption, Inv, Reduce
  PROVE  Inv'
<1>1. PICK t, new : t = loop.guess * py * Power(shift) /\ new = reduced(t)
  OBVIOUS
<1> DEFINE neg == loop.r_neg # new.flips
           first == loop.first_pass /\ ~Wanted
<1>2. /\ pc = "reduce" /\ call' = call
      /\ mem' = [mem EXCEPT ![call.r] = new.rem]
      /\ loop' = [loop EXCEPT !.r_neg = neg, !.r_order = Size(new.rem) - 1,
                              !.qsize = stripped, !.first_pass = first]
      /\ pc' = IF new.overflows THEN "threw" ELSE IF new.rem < py THEN "correct" ELSE "guess"
  BY <1>1, Zenon DEF Reduce
<1>3. PICK n, d, k, D, g, s, a :
        /\ n = prem /\ d = divisor /\ k = y_order /\ D = dividend
        /\ g = loop.guess /\ s = shift /\ a = new.rem
  OBVIOUS
<1>4. /\ TypeOK /\ Apart /\ given2 # 0 /\ loop \in Loops /\ pc # "idle"
      /\ D \in Nat /\ d \in Nat \ {0} /\ d \in Nat /\ n \in Nat /\ n <= D /\ py = d
      /\ Base <= d /\ d <= D
      /\ k \in Nat \ {0} /\ Power(k) <= d /\ d < Power(k + 1) /\ y_order = Size(d) - 1
  BY <1>2, <1>3, InHelping DEF Helping, Sides, y_order
<1>5. /\ g \in 1 .. Base - 1 /\ s \in Nat /\ loop.r_order = k + s /\ loop.r_order \in Nat
  BY <1>2, <1>3, InReduce
<1>6. /\ t \in Nat /\ a = Abs(n - t) /\ ~new.overflows
      /\ new.flips \in BOOLEAN /\ (new.flips <=> n <= t) /\ t = g * d * Power(s)
  BY <1>1, <1>2, <1>3, <1>4, ReducedExactly
<1>7. a \in Nat /\ a < n /\ a < Power(loop.r_order + 1)
  <2>1. a < n /\ a < Power(loop.r_order + 1)
    BY <1>2, <1>3, <1>6, InReduce
  <2>2. a \in Nat
    BY <1>4, <1>6 DEF Abs
  <2> QED BY <2>1, <2>2
<1>8. loop.r_neg \in BOOLEAN /\ loop.first_pass \in BOOLEAN /\ loop.qsize \in Nat
  BY <1>4 DEF Loops
<1>9. /\ neg \in BOOLEAN /\ (neg <=> IF n <= t THEN ~loop.r_neg ELSE loop.r_neg)
      /\ first \in BOOLEAN /\ (first <=> loop.first_pass /\ ~Wanted)
  BY <1>6, <1>8
<1> HIDE DEF neg, first
<1>10. pc' \in {"guess", "correct"} /\ (pc' = "guess" <=> d <= a)
  BY <1>2, <1>3, <1>4, <1>6, <1>7
<1>11. Size(a) \in Nat \ {0} /\ Size(a) - 1 \in Nat /\ stripped \in Nat
  <2>1. Size(a) \in Nat \ {0}
    BY <1>7, Sizes
  <2>2. stripped \in Nat
    <3>1. Wanted => pr \in Nat
      BY <1>2 DEF Inv, Quotients, Helping
    <3> QED BY <1>8, <3>1, Sizes DEF stripped
  <2> QED BY <2>1, <2>2
<1>12. /\ loop' \in Loops /\ loop'.guess = g /\ loop'.r_order = Size(a) - 1
       /\ loop'.qsize = stripped /\ loop'.r_neg = neg /\ loop'.first_pass = first
  <2>1. loop' = [qsize |-> stripped, r_order |-> Size(a) - 1, guess |-> g, r_neg |-> neg,
                 first_pass |-> first]
    BY <1>2, <1>3, <1>4, <1>11 DEF Loops
  <2>2. g \in 0 .. Base - 1
    BY <1>5, Bases
  <2> QED BY <1>9, <1>11, <2>1, <2>2 DEF Loops
<1>13. Written(pr, a)
  BY <1>2, <1>3, <1>4, <1>7, Given, Typed DEF Written, Kept, Apart, pr
<1>14. /\ Apart' /\ dividend' = dividend /\ divisor' = divisor /\ Wanted' = Wanted
       /\ type' = type /\ y_order' = y_order /\ Room' = Room /\ py' = py
  BY <1>4, <1>2, <1>10, <1>13, Frame DEF Written
<1>15. prem' = a /\ (Wanted => pr' = pr)
  BY <1>2, <1>13 DEF Written, prem, pr
<1>16. TypeOK'
  BY <1>2, <1>4, <1>10, <1>12, <1>13, Typed DEF TypeOK, Calls, Loops, Written, Labels
<1>17. LimbsSoFar' /\ Results0' /\ DividesExactly' /\ Guesses'
  BY <1>10 DEF LimbsSoFar, Results0, DividesExactly, Guesses
<1>18. Remainders'
  <2>1. PICK c \in Int : /\ Wanted => pr = c + change * Power(shift)
                         /\ dividend = c * divisor + Left
    BY <1>2 DEF Inv, Remainders, Helping
  <2>2. Left = Signed(n, loop.r_neg) /\ change = Signed(g, loop.r_neg)
        /\ Left' = Signed(a, neg)
    BY <1>3, <1>12, <1>15 DEF Left, change, Signed
  <2> DEFINE p == Power(s)
             x == Signed(g, loop.r_neg)
             quo == c + x * p
  <2>3. SameWhole(d, c, Signed(n, loop.r_neg), quo, Signed(a, neg))
    <3>1. p \in Nat /\ g \in Nat /\ neg \in BOOLEAN
      BY <1>5, <1>9, PowerFacts, Bases
    <3>2. a = Abs(n - g * d * p) /\ t = g * d * p
      BY <1>6
    <3> HIDE DEF p
    <3>3. neg <=> (IF n <= g * d * p THEN ~loop.r_neg ELSE loop.r_neg)
      BY <1>9, <3>2
    <3>4. SameWhole(d, c, Signed(n, loop.r_neg), quo, Signed(Abs(n - g * d * p), neg))
      BY <1>4, <1>8, <3>1, <3>3, LeftAfter
    <3> QED BY <3>2, <3>4
  <2>4. quo \in Int
    <3>1. x \in Int /\ p \in Int
      BY <1>5, PowerFacts, Bases DEF Signed
    <3> HIDE DEF x, p
    <3> QED BY <3>1, Products
  <2>5. (Wanted => pr = quo) /\ dividend = quo * divisor + Signed(a, neg)
    <3>1. Wanted => pr = quo
      BY <1>3, <2>1, <2>2
    <3> HIDE DEF quo
    <3> QED BY <1>3, <2>1, <2>2, <2>3, <3>1 DEF SameWhole
  <2> HIDE DEF quo
  <2>6. PICK q \in Int : (Wanted => pr = q) /\ dividend = q * divisor + Signed(a, neg)
    BY <2>4, <2>5
  <2>7. \E e \in Int : Divides(e, Left)'
    <3>1. Divides(q, Left)'
      BY <1>14, <1>15, <2>2, <2>6 DEF Divides
    <3> QED BY <3>1
  <2>8. a \in Nat /\ a < dividend /\ a <= dividend
    BY <1>3, <1>4, <1>7
  <2>9. pc' = "guess" => divisor <= a
    BY <1>3, <1>10
  <2>10. pc' = "correct" => a < divisor
    BY <1>3, <1>4, <1>7, <1>10
  <2>11. Base <= divisor /\ divisor <= dividend
    BY <1>3, <1>4
  <2> QED BY <1>9, <1>10, <1>12, <1>14, <1>15, <2>7, <2>8, <2>9, <2>10, <2>11
          DEF Remainders
<1>19. Quotients'
  <2>1. SUFFICES ASSUME Wanted PROVE Quotients'
    BY <1>14 DEF Quotients
  <2>2. /\ pr \in Nat /\ pr < Power(Room) /\ \E e \in Nat : pr = e * Power(shift)
        /\ pr # 0 /\ stripped = Size(pr)
    BY <1>2, <2>1 DEF Inv, Quotients, Helping, stripped
  <2>3. ~loop'.first_pass
    BY <1>9, <1>12, <2>1
  <2>4. ASSUME pc' = "guess"
        PROVE  /\ y_order <= loop'.r_order /\ \E e \in Nat : pr = e * Power(shift')
    <3>1. Size(d) <= Size(a) /\ Size(d) \in Nat
      BY <1>4, <1>7, <1>10, <2>4, SizesGrow, Sizes
    <3>2. y_order <= Size(a) - 1
      BY <1>4, <1>11, <3>1
    <3>3. Size(a) <= loop.r_order + 1
      BY <1>5, <1>7, Sizes
    <3>4. shift' = Size(a) - 1 - k
      BY <1>3, <1>12, <1>14 DEF shift
    <3>5. shift' \in Nat /\ shift' <= s
      BY <1>3, <1>4, <1>5, <1>11, <3>2, <3>3, <3>4
    <3>6. PICK c \in Nat : pr = c * Power(s)
      BY <1>3, <2>2
    <3>7. \E e \in Nat : c * Power(s) = e * Power(shift')
      BY <1>5, <3>5, SmallerPower
    <3> QED BY <1>12, <3>2, <3>6, <3>7
  <2> QED BY <1>10, <1>12, <1>14, <1>15, <2>1, <2>2, <2>3, <2>4 DEF Quotients
<1> QED BY <1>14, <1>16, <1>17, <1>18, <1>19 DEF Inv

\* The last guess was one too many: one less is left with what the divisor has more.
LEMMA OneLess ==
  ASSUME NEW c \in Int, NEW d \in Nat, NEW n \in Nat, NEW D \in Nat, D = c * d - n, n < d, n # 0
  PROVE  c - 1 \in Nat /\ d - n \in Nat /\ d - n < d /\ D = (c - 1) * d + (d - n)
<1>1. (c - 1) * d = c * d - d /\ c * d \in Int
  BY Products
<1>2. c >= 1
  <2>1. SUFFICES ASSUME c <= 0 PROVE FALSE
    OBVIOUS
  <2>2. c * d <= 0 * d /\ 0 * d = 0
    BY <2>1, Monotone, Products
  <2> DEFINE cd == c * d
  <2>3. cd \in Int /\ cd <= 0 /\ D = cd - n
    BY <1>1, <2>2
  <2> HIDE DEF cd
  <2> QED BY <2>3
<1> DEFINE cd == c * d
           c1 == (c - 1) * d
<1>3. c1 = cd - d /\ cd \in Int /\ D = cd - n
  BY <1>1
<1> HIDE DEF cd, c1
<1>4. D = c1 + (d - n)
  BY <1>3
<1> QED BY <1>2, <1>4 DEF c1

\* A quotient that is not negative
LEMMA NotNegative ==
  ASSUME NEW c \in Int, NEW d \in Nat, NEW n \in Nat, NEW D \in Nat, D = c * d + n, n < d
  PROVE  c \in Nat
<1> SUFFICES ASSUME c <= -1 PROVE FALSE
  OBVIOUS
<1>1. c * d <= (-1) * d /\ (-1) * d = -d /\ c * d \in Int
  BY Monotone, Products
<1> DEFINE cd == c * d
<1>2. cd <= -d /\ cd \in Int /\ D = cd + n
  BY <1>1
<1> HIDE DEF cd
<1> QED BY <1>2

LEMMA CorrectKeeps ==
  ASSUME Inv, Correct
  PROVE  Inv'
<1>1. /\ pc = "correct" /\ pc' = "computed" /\ call' = call
      /\ OneTooMany =>
           /\ mem' = Assigned(pr - 1, py - prem)
           /\ loop' = [loop EXCEPT !.qsize =
                          IF Wanted => Limb(pr, 0) > 0 THEN @ ELSE Size(pr - 1)]
      /\ ~OneTooMany => mem' = mem /\ loop' = loop
  BY DEF Correct
<1>2. PICK n, d, D : n = prem /\ d = divisor /\ D = dividend
  OBVIOUS
<1>3. /\ TypeOK /\ Apart /\ given2 # 0 /\ loop \in Loops /\ pc # "idle"
      /\ D \in Nat /\ d \in Nat /\ n \in Nat /\ py = d /\ Base <= d /\ d <= D
  BY <1>1, <1>2, InHelping DEF Helping
<1>4. n < d /\ loop.r_neg \in BOOLEAN /\ loop.qsize \in Nat
  BY <1>1, <1>2, <1>3 DEF Inv, Remainders, Helping, Loops
<1>5. PICK c \in Int : (Wanted => pr = c) /\ D = c * d + Signed(n, loop.r_neg)
  <2>1. \E c \in Int : Divides(c, Left)
    BY <1>1 DEF Inv, Remainders, Helping
  <2> QED BY <1>2, <2>1 DEF Divides, Left
<1>6. Wanted => c \in Nat \ {0} /\ loop.qsize = Size(c)
  BY <1>1, <1>5 DEF Inv, Quotients, Helping
<1>7. CASE OneTooMany
  <2>1. D = c * d - n /\ n # 0
    <3>1. Signed(n, loop.r_neg) = -n /\ n # 0
      BY <1>2, <1>7 DEF OneTooMany, Signed
    <3> DEFINE cd == c * d
    <3>2. cd \in Int
      BY <1>3, <1>5, Products
    <3>3. D = cd + Signed(n, loop.r_neg)
      BY <1>5
    <3> HIDE DEF cd
    <3>4. D = cd - n
      BY <1>3, <3>1, <3>2, <3>3
    <3> QED BY <3>1, <3>4 DEF cd
  <2>2. PICK whole, rem : whole = c - 1 /\ rem = d - n
    OBVIOUS
  <2>3. whole \in Nat /\ rem \in Nat /\ rem < d /\ D = whole * d + rem
    BY <1>3, <1>4, <1>5, <2>1, <2>2, OneLess
  <2>4. Written(pr - 1, rem)
    <3>1. mem' = Assigned(pr - 1, rem)
      BY <1>1, <1>2, <1>3, <1>7, <2>2
    <3>2. (Wanted => pr - 1 \in Int) /\ rem \in Int
      BY <1>5, <2>3
    <3> QED BY <1>3, <3>1, <3>2, WrittenBoth
  <2>5. Wanted => pr - 1 = whole
    BY <1>5, <2>2
  <2>6. loop' \in Loops /\ (Wanted => loop'.qsize = Size(whole))
    <3>1. PICK qsize : /\ qsize = IF Wanted => Limb(pr, 0) > 0 THEN loop.qsize
                                  ELSE Size(pr - 1)
                       /\ loop' = [loop EXCEPT !.qsize = qsize]
      BY <1>1, <1>7
    <3>2. Wanted => qsize = Size(whole)
      <4>1. SUFFICES ASSUME Wanted, Limb(c, 0) > 0 PROVE Size(c) = Size(whole)
        BY <1>5, <1>6, <2>5, <3>1
      <4>2. Limb(c, 0) + (-1) \in 0 .. Base - 1 /\ c \in Nat
        <5>1. c \in Nat /\ 0 \in Nat
          BY <1>6, <4>1
        <5>2. Limb(c, 0) \in 0 .. Base - 1
          BY <5>1, LimbFacts, Zenon
        <5> QED BY <4>1, <5>1, <5>2, Bases
      <4>3. Size(WithLimb(c, 0, Limb(c, 0) + (-1))) = Size(c)
        <5>1. 0 \in Nat /\ 0 < Size(c)
          BY <4>2, Sizes
        <5> QED BY <4>2, <5>1, SizeKept
      <4>4. WithLimb(c, 0, Limb(c, 0) + (-1)) = whole
        <5>1. Power(0) = 1 /\ Limb(c, 0) \in Int
          BY <4>2, PowerFacts, LimbFacts, Bases
        <5> QED BY <2>2, <4>2, <5>1 DEF WithLimb
      <4> QED BY <4>3, <4>4
    <3>3. qsize \in Nat
      <4>1. Size(whole) \in Nat
        BY <2>3, Sizes
      <4> QED BY <1>4, <3>1, <3>2, <4>1
    <3> QED BY <1>3, <3>1, <3>2, <3>3 DEF Loops
  <2>7. Wanted => loop'.qsize = Size(pr - 1)
    BY <2>5, <2>6
  <2> QED BY <1>1, <1>2, <1>3, <2>3, <2>4, <2>5, <2>6, <2>7, ToComputed
<1>8. CASE ~OneTooMany
  <2>1. D = c * d + n
    <3>1. Signed(n, loop.r_neg) = n
      BY <1>2, <1>3, <1>8 DEF OneTooMany, Signed
    <3> QED BY <1>5, <3>1
  <2>2. c \in Nat
    BY <1>3, <1>4, <1>5, <2>1, NotNegative
  <2>3. Written(pr, n)
    BY <1>1, <1>2, <1>3, <1>8, Typed DEF Written, Kept, pr, prem
  <2>4. loop' \in Loops /\ (Wanted => loop'.qsize = Size(pr))
    BY <1>1, <1>3, <1>5, <1>6, <1>8
  <2> QED BY <1>1, <1>2, <1>3, <1>4, <1>5, <2>1, <2>2, <2>3, <2>4, ToComputed
<1> QED BY <1>7, <1>8

\* Truncated division has the sign of the dividend in the remainder.
LEMMA SignedDivision ==
  ASSUME NEW m \in Int, NEW n \in Int, NEW q \in Nat, NEW r \in Nat, Abs(m) = q * Abs(n) + r,
         NEW neg \in BOOLEAN, neg <=> (IF n < 0 THEN m >= 0 ELSE m < 0)
  PROVE  Signed(r, m < 0) = m - Signed(q, neg) * n
<1> DEFINE qn == q * Abs(n)
<1>1. qn \in Nat /\ Abs(n) \in Nat
  BY Products DEF Abs
<1>2. Signed(q, neg) * n = IF m < 0 THEN -qn ELSE qn
  <2>1. Abs(n) = IF n < 0 THEN -n ELSE n
    BY DEF Abs
  <2>2. Signed(q, neg) = IF neg THEN -q ELSE q
    BY DEF Signed
  <2>3. /\ (-q) * n = -(q * n) /\ q * (-n) = -(q * n) /\ q * n \in Int
    BY Products
  <2> DEFINE y == q * n
             z == (-q) * n
             u == q * (-n)
  <2>4. y \in Int /\ z = -y /\ u = -y
    BY <2>3
  <2>5. qn = IF n < 0 THEN u ELSE y
    BY <2>1
  <2>6. Signed(q, neg) * n = IF neg THEN z ELSE y
    BY <2>2
  <2> HIDE DEF y, z, u, qn
  <2> QED BY <2>4, <2>5, <2>6
<1>3. Abs(m) = qn + r
  OBVIOUS
<1> HIDE DEF qn
<1>4. Signed(r, m < 0) = m - (IF m < 0 THEN -qn ELSE qn)
  BY <1>1, <1>3 DEF Signed, Abs
<1> QED BY <1>2, <1>4

\* The sign of the quotient, as the program compares the signs
LEMMA SignsCompared ==
  ASSUME NEW m \in Int, NEW n \in Int
  PROVE  /\ ((m < 0) # (n < 0)) \in BOOLEAN
         /\ ((m < 0) # (n < 0)) <=> (IF n < 0 THEN m >= 0 ELSE m < 0)
OBVIOUS

LEMMA SetSignsKeeps ==
  ASSUME Inv, SetSigns
  PROVE  Inv'
<1> DEFINE s == (given1 < 0) # (given2 < 0)
<1>1. /\ pc = "computed" /\ pc' = "returned" /\ call' = call /\ loop' = loop
      /\ mem' = Assigned(Signed(pr, s), Signed(prem, given1 < 0))
  BY DEF SetSigns, remSign, given1, given2
<1>2. /\ TypeOK /\ Apart /\ given2 # 0 /\ given1 \in Int /\ given2 \in Int
      /\ dividend = Abs(given1) /\ divisor = Abs(given2)
      /\ dividend \in Nat /\ divisor \in Nat \ {0} /\ divisor \in Int
  <2>1. TypeOK /\ Apart /\ given2 # 0
    BY <1>1 DEF Inv, Apart
  <2> QED BY <1>1, <2>1, Given DEF Abs
<1>3. PICK quo \in Nat, rem \in Nat :
        /\ rem = prem /\ rem < divisor /\ (Wanted => pr = quo /\ loop.qsize = Size(quo))
        /\ dividend = quo * divisor + rem
  BY <1>1 DEF Inv, Results0, Divides
<1>4. /\ s \in BOOLEAN /\ (s <=> IF given2 < 0 THEN given1 >= 0 ELSE given1 < 0)
  BY <1>2, SignsCompared
<1>5. Truncated(given1, given2) = Signed(quo, s)
  <2>1. dividend \div divisor = quo
    <3>1. dividend = divisor * quo + rem /\ rem \in 0 .. divisor - 1 /\ quo \in Int
      <4>1. quo * divisor = divisor * quo
        BY <1>2, <1>3, Products
      <4> QED BY <1>2, <1>3, <4>1
    <3>2. dividend \in Int
      BY <1>2
    <3> QED BY <1>2, <3>1, <3>2, DivisionUnique, Zenon
  <2> QED BY <1>2, <2>1, Zenon DEF Truncated
<1>6. Signed(rem, given1 < 0) = given1 - Signed(quo, s) * given2
  <2>1. PICK m \in Int, n \in Int, neg \in BOOLEAN : m = given1 /\ n = given2 /\ neg = s
    BY <1>2, <1>4
  <2> HIDE DEF s
  <2>2. Abs(m) = quo * Abs(n) + rem
    BY <1>2, <1>3, <2>1
  <2>3. neg <=> (IF n < 0 THEN m >= 0 ELSE m < 0)
    BY <1>4, <2>1
  <2>4. Signed(rem, m < 0) = m - Signed(quo, neg) * n
    BY <2>2, <2>3, SignedDivision
  <2> QED BY <2>1, <2>4
<1>7. PICK q \in Int, r \in Int : q = Signed(quo, s) /\ r = Signed(rem, given1 < 0)
  BY <1>3 DEF Signed
<1>8. Size(Abs(q)) = Size(quo)
  BY <1>3, <1>7 DEF Signed, Abs
<1> HIDE DEF s
<1>9. Written(q, r)
  <2>1. (Wanted => Signed(pr, s) = q) /\ Signed(prem, given1 < 0) = r
    BY <1>3, <1>7
  <2>2. Written(Signed(pr, s), r)
    <3>1. mem' = Assigned(Signed(pr, s), r)
      BY <1>1, <2>1
    <3>2. Wanted => Signed(pr, s) \in Int
      BY <2>1, <1>7
    <3> QED BY <1>1, <1>2, <1>7, <3>1, <3>2, WrittenBoth
  <2> QED BY <2>1, <2>2 DEF Written
<1>10. /\ Apart' /\ given1' = given1 /\ given2' = given2 /\ Wanted' = Wanted
  BY <1>1, <1>2, <1>9, Frame DEF Written
<1>11. TypeOK'
  BY <1>1, <1>2, <1>9, Typed DEF TypeOK, Calls, Loops, Written, Labels
<1>12. /\ LimbsSoFar' /\ Remainders' /\ Quotients' /\ Guesses' /\ Results0'
  BY <1>1 DEF LimbsSoFar, Remainders, Quotients, Guesses, Results0, Helping
<1>13. DividesExactly'
  <2>1. Truncated(given1, given2) = q /\ r = given1 - q * given2
    BY <1>5, <1>6, <1>7
  <2>2. (Wanted => pr' = q) /\ mem'[call.r] = r
    BY <1>1, <1>9 DEF Written, pr
  <2>3. /\ "u" \notin {call.q, call.r} => mem'["u"] = given1
        /\ "v" \notin {call.q, call.r} => mem'["v"] = given2
    BY <1>1, <1>10 DEF Apart
  <2>4. Wanted => loop'.qsize = Size(Abs(q))
    BY <1>1, <1>3, <1>8
  <2>5. given1 = call'.given[1] /\ given2 = call'.given[2]
    BY <1>1 DEF given1, given2
  <2> QED BY <1>1, <1>10, <2>1, <2>2, <2>3, <2>4, <2>5 DEF DividesExactly
<1> QED BY <1>10, <1>11, <1>12, <1>13 DEF Inv

LEMMA ReturnKeeps ==
  ASSUME TypesAssumption, Inv, Return
  PROVE  Inv'
<1>1. Init'
  BY DEF Return, Init
<1>2. Init => Inv
  BY InitHolds
<1> QED BY <1>1, <1>2, InitHolds, PTL

LEMMA StutterKeeps ==
  ASSUME Inv, UNCHANGED vars
  PROVE  Inv'
BY DEF Inv, vars, TypeOK, Apart, LimbsSoFar, Remainders, Quotients, Guesses, Results0,
       DividesExactly, given1, given2, Room, Left, Divides, type, fn, px, py, pr, prem,
       y_order, Wanted, shift, change, dividend, divisor

LEMMA StepKeeps ==
  ASSUME TypesAssumption, ValuesAssumption, Inv, [Next]_vars
  PROVE  Inv'
<1>1. CASE Call
  BY <1>1, CallKeeps
<1>2. CASE Return
  BY <1>2, ReturnKeeps
<1>3. CASE UNCHANGED vars
  BY <1>3, StutterKeeps
<1>4. CASE Step
  <2>1. CASE ZeroDivisor
    BY <2>1, ZeroDivisorKeeps
  <2>2. CASE ModulusByLimb
    BY <2>2, ModulusByLimbKeeps
  <2>3. CASE LessThanDivisor
    BY <2>3, LessThanDivisorKeeps
  <2>4. CASE DoubleLimbs
    BY <2>4, DoubleLimbsKeeps
  <2>5. CASE BeginLimbs
    BY <2>5, BeginLimbsKeeps
  <2>6. CASE LimbDigit
    BY <2>6, LimbDigitKeeps
  <2>7. CASE LimbsDone
    BY <2>7, LimbsDoneKeeps
  <2>8. CASE BeginGuessing
    BY <2>8, BeginGuessingKeeps
  <2>9. CASE Guess
    BY <2>9, GuessKeeps
  <2>10. CASE Accumulate
    BY <2>10, AccumulateKeeps
  <2>11. CASE Reduce
    BY <2>11, ReduceKeeps
  <2>12. CASE Correct
    BY <2>12, CorrectKeeps
  <2>13. CASE SetSigns
    BY <2>13, SetSignsKeeps
  <2> QED BY <1>4, <2>1, <2>2, <2>3, <2>4, <2>5, <2>6, <2>7, <2>8, <2>9, <2>10, <2>11,
             <2>12, <2>13 DEF Step
<1> QED BY <1>1, <1>2, <1>3, <1>4 DEF Next

----------------------------------------------------------------------------
(* What holds for every base, every type and all operands.                 *)

\* The invariant that the others follow from
THEOREM Invariant ==
  ASSUME TypesAssumption, ValuesAssumption
  PROVE  Spec => []Inv
<1>1. Init => Inv
  BY InitHolds
<1>2. Inv /\ [Next]_vars => Inv'
  BY StepKeeps
<1> QED BY <1>1, <1>2, PTL DEF Spec

\* No local leaves its type: a guess is a limb, r_order and the quotient's size are not
\* negative.
THEOREM TypesAreKept ==
  ASSUME TypesAssumption, ValuesAssumption
  PROVE  Spec => []TypeOK
<1>1. Inv => TypeOK
  BY DEF Inv
<1> QED BY <1>1, Invariant, PTL

\* What a call leaves behind ("remainder must be less than the divisor or our code has
\* failed", divide.hpp:308): the truncated quotient, in normal form, the remainder with the
\* sign of the dividend, and every other number as it was; only a zero divisor throws.
THEOREM QuotientsAreExact ==
  ASSUME TypesAssumption, ValuesAssumption
  PROVE  Spec => []DividesExactly
<1>1. Inv => DividesExactly
  BY DEF Inv
<1> QED BY <1>1, Invariant, PTL

\* Between the steps of the helper, quotient * divisor + remainder is the dividend
\* (divide.hpp:33, "very simple, fairly braindead long division"), whatever was guessed:
\* a guess that is too large leaves the remainder negative, never wrong.
THEOREM IdentityIsKept ==
  ASSUME TypesAssumption, ValuesAssumption
  PROVE  Spec => []DivisionIdentity
<1>1. Inv => DivisionIdentity
  <2> SUFFICES ASSUME Inv PROVE DivisionIdentity
    OBVIOUS
  <2>1. ASSUME pc \in {"guess", "correct", "computed"}
        PROVE  LET rem == IF loop.r_neg /\ pc # "computed" THEN -prem ELSE prem
               IN IF Wanted THEN dividend = pr * divisor + rem
                  ELSE (dividend - rem) % divisor = 0
    <3> DEFINE rem == IF loop.r_neg /\ pc # "computed" THEN -prem ELSE prem
    <3>1. TypeOK /\ Apart /\ given2 # 0
      BY <2>1 DEF Inv, Apart
    <3>2. dividend \in Nat /\ divisor \in Nat \ {0} /\ prem \in Int
      BY <2>1, <3>1, Given DEF Abs
    <3>3. PICK quo \in Int : Divides(quo, rem)
      <4>1. CASE pc = "computed"
        BY <4>1 DEF Inv, Results0
      <4>2. CASE pc \in {"guess", "correct"}
        <5>1. \E quo \in Int : Divides(quo, Left)
          BY <4>2 DEF Inv, Remainders, Helping
        <5>2. Left = rem
          BY <4>2 DEF Left, Signed
        <5> QED BY <5>1, <5>2
      <4> QED BY <2>1, <4>1, <4>2
    <3>4. rem \in Int
      BY <3>2
    <3> HIDE DEF rem
    <3>5. dividend = quo * divisor + rem /\ (Wanted => pr = quo)
      BY <3>3 DEF Divides
    <3>6. (dividend - rem) % divisor = 0
      <4> DEFINE n == dividend - rem
      <4>1. quo * divisor = divisor * quo /\ quo * divisor \in Int
        BY <3>2, Products
      <4>2. n = divisor * quo + 0 /\ n \in Int /\ 0 \in 0 .. divisor - 1
        BY <3>2, <3>4, <3>5, <4>1
      <4> HIDE DEF n
      <4>3. n % divisor = 0
        BY <3>2, <4>2, DivisionUnique
      <4> QED BY <4>3 DEF n
    <3> QED BY <3>5, <3>6 DEF rem
  <2>2. ASSUME pc = "limbs"
        PROVE  dividend = (pr - (pr % Power(loop.r_order))) * divisor + prem
    BY <2>2, InLimbs DEF DownTo
  <2> QED BY <2>1, <2>2 DEF DivisionIdentity
<1> QED BY <1>1, Invariant, PTL

\* The digit that a guess is booked at exists, and the quotient never needs a limb more
\* than was prepared: its limbs are not moved while the helper points to them
\* (divide.hpp:143).
THEOREM QuotientStaysInPlace ==
  ASSUME TypesAssumption, ValuesAssumption
  PROVE  Spec => []QuotientInPlace
<1>1. Inv => QuotientInPlace
  <2> SUFFICES ASSUME Inv PROVE QuotientInPlace
    OBVIOUS
  <2>1. ASSUME pc = "accumulate" PROVE shift \in 0 .. loop.qsize - 1
    <3>1. Room \in Nat
      BY <2>1, InHelping DEF Helping, Sides
    <3>2. CASE loop.first_pass
      BY <2>1, <3>1, <3>2, InAccumulate
    <3>3. CASE ~loop.first_pass
      <4>1. shift \in Nat /\ shift < loop.qsize /\ loop.qsize = Size(pr) /\ pr \in Nat
        BY <2>1, <3>3, InAccumulate
      <4>2. loop.qsize \in Nat
        BY <4>1, Sizes
      <4> QED BY <4>1, <4>2
    <3> QED BY <3>2, <3>3
  <2>2. ASSUME pc \in {"accumulate", "reduce", "guess", "correct"}, Wanted
        PROVE  pr >= 0 /\ Size(pr) <= loop.qsize /\ loop.qsize <= Room
    <3>1. pc \in Helping
      BY <2>2 DEF Helping
    <3>2. Room \in Nat \ {0}
      BY <3>1, InHelping DEF Sides
    <3>3. /\ pr \in Nat /\ pr < Power(Room)
          /\ loop.first_pass => \/ pr = 0 /\ loop.qsize = Room
                                \/ Size(pr) <= loop.qsize /\ loop.qsize <= Room
          /\ ~loop.first_pass => loop.qsize = Size(pr)
      BY <2>2, <3>1 DEF Inv, Quotients
    <3>4. Size(pr) \in Nat /\ Size(pr) <= Room
      BY <3>2, <3>3, Sizes
    <3>5. CASE loop.first_pass
      BY <3>2, <3>3, <3>4, <3>5, SizeOfZero
    <3>6. CASE ~loop.first_pass
      BY <3>3, <3>4, <3>6
    <3> QED BY <3>3, <3>5, <3>6
  <2> QED BY <2>1, <2>2 DEF QuotientInPlace, Room
<1> QED BY <1>1, Invariant, PTL

\* Every guess makes the remainder smaller, also one that is too large, and no guess is
\* zero: "If the guess ever gets to zero we go on forever" (divide.hpp:178).
THEOREM GuessesHelp ==
  ASSUME TypesAssumption, ValuesAssumption
  PROVE  Spec => EveryGuessHelps
<1>1. Inv /\ [Next]_vars => [pc = "reduce" => loop.guess > 0 /\ mem'[call.r] < prem]_vars
  <2> SUFFICES ASSUME Inv, Next, pc = "reduce"
               PROVE  loop.guess > 0 /\ mem'[call.r] < prem
    OBVIOUS
  <2>1. Reduce
    BY DEF Next, Step, Call, Return, ZeroDivisor, ModulusByLimb, LessThanDivisor,
           DoubleLimbs, BeginLimbs, LimbDigit, LimbsDone, BeginGuessing, Guess, Accumulate,
           Correct, SetSigns, InHelper, Entered
  <2>2. PICK t : t = loop.guess * divisor * Power(shift)
    OBVIOUS
  <2>3. /\ loop.guess \in 1 .. Base - 1 /\ Abs(prem - t) < prem
    BY <2>2, InReduce
  <2>4. reduced(t).rem = Abs(prem - t)
    BY <2>2, ReducedExactly
  <2>5. py = divisor /\ mem \in [Objects -> Int] /\ call.r \in Objects
    <3>1. TypeOK /\ Apart /\ pc \in Helping
      BY InHelping DEF Helping
    <3> QED BY <3>1, Given, Typed
  <2>6. mem' = [mem EXCEPT ![call.r] = reduced(t).rem]
    BY <2>1, <2>2, <2>5, Zenon DEF Reduce
  <2>7. mem'[call.r] = Abs(prem - t)
    BY <2>4, <2>5, <2>6
  <2> QED BY <2>3, <2>7, Bases
<1> QED BY <1>1, Invariant, PTL DEF Spec, EveryGuessHelps
=============================================================================
