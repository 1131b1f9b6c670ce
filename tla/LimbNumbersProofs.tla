-------------------------- MODULE LimbNumbersProofs -------------------------
(***************************************************************************)
(* Magnitudes that are read and written limb by limb, for every base:      *)
(* what the powers of the base are, what a limb is, what writing one       *)
(* changes, and how many limbs a number has; and one level of the square   *)
(* root of a number.                                                       *)
(*                                                                         *)
(* Power and Size are recursive functions.  That there are such functions, *)
(* and that all of them have the same values, takes the least number for   *)
(* which it would not be so (LeastNatural) in place of induction.          *)
(***************************************************************************)
EXTENDS LimbNumbers, IntegerRoots, WellFoundedInduction, NaturalsInduction, TLAPS

----------------------------------------------------------------------------
(* Integers. *)

\* Every set of naturals has a least one.
LEMMA LeastNatural ==
  ASSUME NEW S \in SUBSET Nat, S # {}
  PROVE  \E n \in S : \A k \in S : n <= k
<1>1. PICK R : R = {ss \in Nat \X Nat : ss[1] < ss[2]}
  OBVIOUS
<1>2. IsWellFoundedOn(R, Nat)
  BY <1>1, NatLessThanWellFounded DEF OpToRel
<1>3. PICK n \in S : \A k \in S : ~(<<k, n>> \in R)
  BY <1>2, WFMin
<1>4. \A k \in S : n <= k
  <2>1. TAKE k \in S
  <2>2. ~(k < n)
    BY <1>1, <1>3
  <2> QED BY <2>2
<1> QED BY <1>4

\* Multiplication
LEMMA Products ==
  /\ \A p, q \in Int : p * q \in Int /\ p * q = q * p
  /\ \A p, q \in Nat : p * q \in Nat
  /\ \A p, q, s \in Int : p * (q * s) = (p * q) * s
  /\ \A p, q, s \in Int : p * (q + s) = p * q + p * s /\ p * (q - s) = p * q - p * s
  /\ \A p \in Int : p * 1 = p /\ 1 * p = p /\ p * 0 = 0 /\ 0 * p = 0
BY SMT

\* Products are ordered as their factors.
LEMMA Monotone ==
  ASSUME NEW m \in Int, NEW n \in Int, NEW k \in Nat, m <= n
  PROVE  m * k <= n * k /\ k * m <= k * n
BY SMT

\* A factor that is not zero cancels.
LEMMA Cancel ==
  ASSUME NEW d \in Nat \ {0}, NEW m \in Int, NEW n \in Int
  PROVE  /\ d * m = d * n => m = n
         /\ d * m < d * n => m < n
<1>1. ASSUME m < n PROVE d * m < d * n
  <2>1. d * (m + 1) <= d * n
    BY <1>1, Monotone
  <2>2. d * (m + 1) = d * m + d /\ d * m \in Int /\ d * n \in Int
    BY Products
  <2> QED BY <2>1, <2>2
<1>2. ASSUME n < m PROVE d * n < d * m
  <2>1. d * (n + 1) <= d * m
    BY <1>2, Monotone
  <2>2. d * (n + 1) = d * n + d /\ d * m \in Int /\ d * n \in Int
    BY Products
  <2> QED BY <2>1, <2>2
<1>3. d * m \in Int /\ d * n \in Int
  BY Products
<1> QED BY <1>1, <1>2, <1>3

\* Division by a positive number
LEMMA Division ==
  ASSUME NEW n \in Int, NEW d \in Nat \ {0}
  PROVE  n \div d \in Int /\ n % d \in 0 .. d - 1 /\ n = d * (n \div d) + (n % d)
BY SMT

\* The quotient and the remainder are the only ones.
LEMMA DivisionUnique ==
  ASSUME NEW n \in Int, NEW d \in Nat \ {0}, NEW q \in Int, NEW r \in 0 .. d - 1,
         n = d * q + r
  PROVE  n \div d = q /\ n % d = r
<1> DEFINE p == n \div d
           s == n % d
<1>1. p \in Int /\ s \in 0 .. d - 1 /\ n = d * p + s
  BY Division
<1> HIDE DEF p, s
<1>2. d * p \in Int /\ d * q \in Int /\ d * (q + 1) = d * q + d /\ d * (p + 1) = d * p + d
  BY <1>1, Products
<1>3. d * p < d * (q + 1) /\ d * q < d * (p + 1)
  BY <1>1, <1>2
<1>4. p < q + 1 /\ q < p + 1
  BY <1>1, <1>3, Cancel
<1>5. p = q
  BY <1>1, <1>4
<1>6. s = r
  BY <1>1, <1>2, <1>5
<1> QED BY <1>5, <1>6 DEF p, s

\* The division of a natural number, and of one that is smaller than the divisor
LEMMA NaturalDivision ==
  ASSUME NEW n \in Nat, NEW d \in Nat \ {0}
  PROVE  /\ n \div d \in Nat /\ n % d \in Nat /\ n % d <= n /\ d * (n \div d) <= n
         /\ n < d => n % d = n /\ n \div d = 0
<1> DEFINE q == n \div d
<1>1. q \in Int /\ n % d \in 0 .. d - 1 /\ n = d * q + (n % d)
  BY Division
<1>2. q >= 0
  <2>1. SUFFICES ASSUME q <= -1 PROVE FALSE
    BY <1>1
  <2>2. d * q <= d * (-1) /\ d * (-1) = -d
    BY <1>1, <2>1, Monotone
  <2> HIDE DEF q
  <2>3. d * q \in Int
    BY <1>1, Products
  <2> QED BY <1>1, <2>2, <2>3
<1>3. d * q \in Nat
  BY <1>1, <1>2, Products
<1>4. ASSUME n < d PROVE n % d = n /\ q = 0
  BY <1>4, DivisionUnique, Products
<1> HIDE DEF q
<1> QED BY <1>1, <1>2, <1>3, <1>4 DEF q

\* Division by a product is one division after the other.
LEMMA DivisionTwice ==
  ASSUME NEW n \in Nat, NEW d \in Nat \ {0}, NEW e \in Nat \ {0}
  PROVE  /\ n \div (d * e) = (n \div d) \div e
         /\ n % (d * e) = (n % d) + d * ((n \div d) % e)
         /\ (n % (d * e)) % d = n % d
<1> DEFINE q == n \div d
           r == n % d
           p == q \div e
           s == q % e
<1>1. q \in Nat /\ r \in 0 .. d - 1 /\ n = d * q + r
  BY Division, NaturalDivision
<1> HIDE DEF q, r
<1>2. p \in Nat /\ s \in 0 .. e - 1 /\ q = e * p + s
  <2>1. s \in 0 .. e - 1 /\ q = e * p + s
    BY <1>1, Division
  <2>2. p \in Nat
    BY <1>1, NaturalDivision
  <2> QED BY <2>1, <2>2
<1> HIDE DEF p, s
<1>3. /\ d * e \in Nat /\ d * e # 0 /\ (d * e) * p \in Nat /\ d * s \in Nat /\ d * (e * p) \in Nat
      /\ d * q = d * (e * p) + d * s /\ d * (e * p) = (d * e) * p
      /\ d * (s + 1) = d * s + d
  BY <1>1, <1>2, Products
<1>4. d * (s + 1) <= d * e
  BY <1>2, Monotone
<1>5. r + d * s \in 0 .. d * e - 1 /\ n = (d * e) * p + (r + d * s)
  BY <1>1, <1>3, <1>4
<1>6. n \div (d * e) = p /\ n % (d * e) = r + d * s
  BY <1>3, <1>5, <1>2, DivisionUnique
<1>7. (r + d * s) % d = r
  <2>1. r + d * s = d * s + r /\ r + d * s \in Int
    BY <1>1, <1>3
  <2> QED BY <1>1, <1>2, <2>1, DivisionUnique
<1> QED BY <1>6, <1>7 DEF p, q, r, s

----------------------------------------------------------------------------
(* Powers of the base.                                                     *)

\* The first powers, up to the n'th
IsPower(p, n) == p[0] = 1 /\ \A k \in 1 .. n : p[k] = Base * p[k - 1]

\* There is a function of the first powers, however many.
LEMMA FirstPowers ==
  ASSUME NEW n \in Nat
  PROVE  \E p \in [Nat -> Nat] : IsPower(p, n)
<1> DEFINE S == {m \in Nat : \A p \in [Nat -> Nat] : ~IsPower(p, m)}
<1>1. SUFFICES ASSUME S # {} PROVE FALSE
  OBVIOUS
<1>2. PICK m \in S : \A k \in S : m <= k
  BY <1>1, LeastNatural
<1>3. m # 0
  <2>1. [k \in Nat |-> 1] \in [Nat -> Nat] /\ IsPower([k \in Nat |-> 1], 0)
    BY DEF IsPower
  <2> QED BY <2>1, <1>2
<1>4. PICK p \in [Nat -> Nat] : IsPower(p, m - 1)
  <2>1. m - 1 \in Nat /\ m - 1 \notin S
    BY <1>2, <1>3, SMTT(60)
  <2> QED BY <2>1
<1> DEFINE q == [k \in Nat |-> IF k = m THEN Base * p[m - 1] ELSE p[k]]
<1>5. q \in [Nat -> Nat]
  <2>1. Base * p[m - 1] \in Nat
    BY <1>2, <1>3, BaseAssumption, Products
  <2> QED BY <2>1, <1>4
<1>6. IsPower(q, m)
  <2>1. q[0] = 1
    BY <1>3, <1>4 DEF IsPower
  <2>2. ASSUME NEW k \in 1 .. m PROVE q[k] = Base * q[k - 1]
    <3>1. CASE k = m
      BY <3>1, <1>2, <1>3
    <3>2. CASE k < m
      <4>1. k \in 1 .. m - 1 /\ k \in Nat /\ k - 1 \in Nat /\ k # m /\ k - 1 # m
        BY <3>2, <1>2, <1>3
      <4>2. q[k] = p[k] /\ q[k - 1] = p[k - 1]
        BY <4>1
      <4>3. p[k] = Base * p[k - 1]
        BY <4>1, <1>4 DEF IsPower
      <4> QED BY <4>2, <4>3
    <3> QED BY <3>1, <3>2, <1>2
  <2> HIDE DEF q
  <2> QED BY <2>1, <2>2 DEF IsPower
<1>7. m \notin S
  BY <1>5, <1>6
<1> QED BY <1>2, <1>7

\* Two of them agree.
LEMMA PowersAgree ==
  ASSUME NEW n \in Nat, NEW m \in Nat, n <= m,
         NEW p \in [Nat -> Nat], NEW q \in [Nat -> Nat], IsPower(p, n), IsPower(q, m)
  PROVE  p[n] = q[n]
<1> DEFINE S == {k \in 0 .. n : p[k] # q[k]}
<1>1. SUFFICES ASSUME S # {} PROVE FALSE
  OBVIOUS
<1>2. PICK k \in S : \A l \in S : k <= l
  <2>1. S \in SUBSET Nat
    OBVIOUS
  <2> QED BY <1>1, <2>1, LeastNatural
<1>3. k # 0
  BY DEF IsPower
<1>4. p[k - 1] = q[k - 1]
  <2>1. k - 1 \in 0 .. n /\ k - 1 \notin S
    BY <1>2, <1>3
  <2> QED BY <2>1
<1>5. k \in 1 .. n /\ k \in 1 .. m
  BY <1>3
<1> QED BY <1>4, <1>5 DEF IsPower

\* The powers: the first is 1, and each is the base times the one before it.
LEMMA PowerFacts ==
  /\ Power(0) = 1
  /\ \A n \in Nat : Power(n) \in Nat \ {0} /\ Power(n + 1) = Base * Power(n)
<1> DEFINE first(n) == CHOOSE p \in [Nat -> Nat] : IsPower(p, n)
           f == [n \in Nat |-> first(n)[n]]
           step(g) == [k \in Nat |-> IF k = 0 THEN 1 ELSE Base * g[k - 1]]
           power == CHOOSE g : g = step(g)
<1>1. \A n \in Nat : first(n) \in [Nat -> Nat] /\ IsPower(first(n), n)
  BY FirstPowers
<1>2. f[0] = 1 /\ \A n \in Nat : f[n + 1] = Base * f[n]
  <2>1. f[0] = 1
    BY <1>1 DEF IsPower
  <2>2. ASSUME NEW n \in Nat PROVE f[n + 1] = Base * f[n]
    <3> HIDE DEF first
    <3>1. first(n + 1)[n + 1] = Base * first(n + 1)[n]
      BY <1>1 DEF IsPower
    <3>2. first(n)[n] = first(n + 1)[n]
      <4>1. n + 1 \in Nat /\ n <= n + 1
        OBVIOUS
      <4>2. /\ first(n) \in [Nat -> Nat] /\ IsPower(first(n), n)
            /\ first(n + 1) \in [Nat -> Nat] /\ IsPower(first(n + 1), n + 1)
        BY <1>1, <4>1
      <4> QED BY <4>1, <4>2, PowersAgree, Zenon
    <3> QED BY <3>1, <3>2
  <2> QED BY <2>1, <2>2
<1>3. f = step(f)
  <2>1. ASSUME NEW k \in Nat PROVE f[k] = step(f)[k]
    <3>1. CASE k = 0
      BY <3>1, <1>2
    <3>2. CASE k # 0
      <4>1. k - 1 \in Nat /\ (k - 1) + 1 = k
        BY <3>2
      <4>2. f[k] = Base * f[k - 1]
        BY <4>1, <1>2
      <4> QED BY <4>2, <3>2
    <3> QED BY <3>1, <3>2
  <2> HIDE DEF first
  <2> QED BY <2>1
<1> HIDE DEF f
<1>4. power = step(power)
  BY <1>3
<1>5. \A n : Power(n) = power[n]
  BY Zenon DEF Power
<1> HIDE DEF power
<1>6. power[0] = 1 /\ \A n \in Nat : power[n + 1] = Base * power[n]
  <2>1. power[0] = 1
    BY <1>4
  <2>2. ASSUME NEW n \in Nat PROVE power[n + 1] = Base * power[n]
    <3>1. n + 1 \in Nat /\ n + 1 # 0 /\ (n + 1) - 1 = n
      OBVIOUS
    <3>2. power[n + 1] = step(power)[n + 1]
      BY <1>4, Zenon
    <3> QED BY <3>1, <3>2
  <2> QED BY <2>1, <2>2
<1>7. \A n \in Nat : power[n] \in Nat \ {0}
  <2> DEFINE S == {n \in Nat : power[n] \notin Nat \ {0}}
  <2>1. SUFFICES ASSUME S # {} PROVE FALSE
    OBVIOUS
  <2>2. PICK n \in S : \A k \in S : n <= k
    BY <2>1, LeastNatural
  <2>3. n # 0
    BY <1>6
  <2>4. n - 1 \in Nat /\ n - 1 \notin S /\ n = (n - 1) + 1
    BY <2>2, <2>3
  <2>5. power[n - 1] \in Nat \ {0} /\ power[n] = Base * power[n - 1]
    <3>1. power[(n - 1) + 1] = Base * power[n - 1]
      BY <2>4, <1>6
    <3> QED BY <2>4, <3>1
  <2>6. Base * 1 <= Base * power[n - 1] /\ Base * power[n - 1] \in Nat
    BY <2>5, BaseAssumption, Monotone, Products
  <2> QED BY <2>2, <2>5, <2>6, BaseAssumption
<1> QED BY <1>5, <1>6, <1>7

\* A power of a sum is a product of powers.
LEMMA PowerOfSum ==
  ASSUME NEW m \in Nat, NEW n \in Nat
  PROVE  Power(m + n) = Power(m) * Power(n)
<1> DEFINE S == {k \in Nat : Power(m + k) # Power(m) * Power(k)}
<1>1. SUFFICES ASSUME S # {} PROVE FALSE
  OBVIOUS
<1>2. PICK k \in S : \A l \in S : k <= l
  BY <1>1, LeastNatural
<1>3. k # 0
  BY PowerFacts, Products
<1> DEFINE l == k - 1
<1>4. l \in Nat /\ l \notin S /\ k = l + 1 /\ m + k = (m + l) + 1 /\ m + l \in Nat
  BY <1>2, <1>3
<1> HIDE DEF l
<1>5. Power(m + l) = Power(m) * Power(l)
  BY <1>4
<1>6. Power(m + k) = Base * Power(m + l) /\ Power(k) = Base * Power(l)
  <2>1. Power((m + l) + 1) = Base * Power(m + l)
    BY <1>4, PowerFacts
  <2>2. Power(l + 1) = Base * Power(l)
    BY <1>4, PowerFacts
  <2> QED BY <2>1, <2>2, <1>4
<1> DEFINE p == Power(m)
           q == Power(l)
<1>7. p \in Int /\ q \in Int /\ Base \in Int
  BY <1>4, PowerFacts, BaseAssumption
<1>8. Base * (p * q) = p * (Base * q)
  <2> HIDE DEF p, q
  <2>1. Base * (p * q) = (Base * p) * q /\ Base * p = p * Base /\ p * (Base * q) = (p * Base) * q
    BY <1>7, Products
  <2> QED BY <2>1
<1> QED BY <1>2, <1>5, <1>6, <1>8

\* Powers grow, and faster than their exponents.
LEMMA PowersGrow ==
  ASSUME NEW m \in Nat, NEW n \in Nat
  PROVE  /\ m <= n => Power(m) <= Power(n)
         /\ m < n => Power(m) < Power(n)
         /\ n < Power(n)
<1>1. \A k \in Nat : Power(k) + 1 <= Power(k + 1)
  <2> TAKE k \in Nat
  <2> DEFINE p == Power(k)
  <2>1. p \in Nat \ {0} /\ Power(k + 1) = Base * p
    BY PowerFacts
  <2> HIDE DEF p
  <2>2. 2 * p <= Base * p /\ Base * p \in Int
    BY <2>1, Monotone, Products, BaseAssumption
  <2> QED BY <2>1, <2>2 DEF p
<1>2. ASSUME NEW k \in Nat, NEW l \in Nat, k <= l PROVE Power(k) <= Power(l)
  <2> DEFINE p == Power(k)
             q == Power(l - k)
  <2>1. p \in Nat \ {0} /\ q \in Nat \ {0} /\ Power(l) = p * q
    <3>1. l - k \in Nat /\ l = k + (l - k)
      BY <1>2
    <3>2. Power(k + (l - k)) = p * q
      BY <3>1, PowerOfSum
    <3>3. p \in Nat \ {0} /\ q \in Nat \ {0}
      BY <3>1, PowerFacts
    <3> QED BY <3>1, <3>2, <3>3
  <2> HIDE DEF p, q
  <2>2. p * 1 <= p * q /\ p * 1 = p
    BY <2>1, Monotone, Products
  <2> QED BY <2>1, <2>2 DEF p
<1>3. ASSUME m < n PROVE Power(m) < Power(n)
  <2>1. Power(m) + 1 <= Power(m + 1) /\ Power(m + 1) <= Power(n)
    BY <1>1, <1>2, <1>3
  <2> QED BY <2>1, PowerFacts
<1>4. n < Power(n)
  <2> DEFINE S == {k \in Nat : ~(k < Power(k))}
  <2>1. SUFFICES ASSUME S # {} PROVE FALSE
    OBVIOUS
  <2>2. PICK k \in S : \A l \in S : k <= l
    BY <2>1, LeastNatural
  <2>3. k # 0
    BY PowerFacts
  <2>4. k - 1 \in Nat /\ k - 1 \notin S /\ k = (k - 1) + 1
    BY <2>2, <2>3
  <2>5. Power(k - 1) + 1 <= Power((k - 1) + 1) /\ Power(k - 1) \in Nat /\ Power(k) \in Nat
    BY <2>4, <1>1, PowerFacts
  <2> QED BY <2>2, <2>4, <2>5
<1> QED BY <1>2, <1>3, <1>4

----------------------------------------------------------------------------
(* The low and the high part of a number.                                  *)

\* A number is its low and its high part; one below a power is its low part.
LEMMA Parts ==
  ASSUME NEW n \in Nat, NEW k \in Nat
  PROVE  /\ n % Power(k) \in 0 .. Power(k) - 1 /\ n % Power(k) \in Nat /\ n % Power(k) <= n
         /\ n \div Power(k) \in Nat /\ n = Power(k) * (n \div Power(k)) + (n % Power(k))
         /\ n < Power(k) => n % Power(k) = n /\ n \div Power(k) = 0
<1> DEFINE d == Power(k)
<1>1. d \in Nat \ {0} /\ n \in Int
  BY PowerFacts
<1> HIDE DEF d
<1>2. n % d \in 0 .. d - 1 /\ n = d * (n \div d) + (n % d)
  BY <1>1, Division, Zenon
<1>3. /\ n \div d \in Nat /\ n % d \in Nat /\ n % d <= n
      /\ n < d => n % d = n /\ n \div d = 0
  BY <1>1, NaturalDivision, Zenon
<1> QED BY <1>2, <1>3, Zenon DEF d

\* The low part of a low part, the high part of a high part, and what is between them
LEMMA PartsOfParts ==
  ASSUME NEW n \in Nat, NEW k \in Nat, NEW l \in Nat
  PROVE  /\ n % Power(k + l) = (n % Power(k)) + Power(k) * ((n \div Power(k)) % Power(l))
         /\ n \div Power(k + l) = (n \div Power(k)) \div Power(l)
         /\ (n % Power(k + l)) % Power(k) = n % Power(k)
<1> DEFINE d == Power(k)
           e == Power(l)
<1>1. d \in Nat \ {0} /\ e \in Nat \ {0} /\ Power(k + l) = d * e
  BY PowerFacts, PowerOfSum
<1> HIDE DEF d, e
<1>2. /\ n \div (d * e) = (n \div d) \div e
      /\ n % (d * e) = (n % d) + d * ((n \div d) % e)
      /\ (n % (d * e)) % d = n % d
  BY <1>1, DivisionTwice, Zenon
<1> QED BY <1>1, <1>2, Zenon DEF d, e

\* The low part of a low part
LEMMA LowOfLow ==
  ASSUME NEW n \in Nat, NEW k \in Nat, NEW s \in Nat, k <= s
  PROVE  (n % Power(s)) % Power(k) = n % Power(k)
<1> DEFINE l == s - k
<1>1. l \in Nat /\ s = k + l
  OBVIOUS
<1> HIDE DEF l
<1>2. (n % Power(k + l)) % Power(k) = n % Power(k)
  BY <1>1, PartsOfParts, ZenonT(60)
<1> QED BY <1>1, <1>2, Zenon

\* A limb is less than the base, and is what the low part with it has more than the
\* one without; the limbs of a low part are those of the number.
LEMMA LimbFacts ==
  ASSUME NEW n \in Nat, NEW k \in Nat
  PROVE  /\ Limb(n, k) \in 0 .. Base - 1 /\ Limb(n, k) \in Nat
         /\ n % Power(k + 1) = (n % Power(k)) + Power(k) * Limb(n, k)
         /\ n < Power(k) => Limb(n, k) = 0
         /\ \A s \in Nat : k < s => Limb(n % Power(s), k) = Limb(n, k)
<1>1. Power(1) = Base /\ Base \in Nat \ {0}
  BY PowerFacts, BaseAssumption, Products
<1>2. \A m \in Nat : /\ Limb(m, k) \in 0 .. Base - 1
                     /\ m % Power(k + 1) = (m % Power(k)) + Power(k) * Limb(m, k)
  <2> TAKE m \in Nat
  <2>1. m \div Power(k) \in Int
    <3>1. m \div Power(k) \in Nat
      BY Parts, Zenon
    <3> QED BY <3>1
  <2>2. Limb(m, k) \in 0 .. Base - 1
    BY <1>1, <2>1, Division, Zenon DEF Limb
  <2>3. m % Power(k + 1) = (m % Power(k)) + Power(k) * ((m \div Power(k)) % Power(1))
    <3>1. 1 \in Nat
      OBVIOUS
    <3> QED BY <3>1, PartsOfParts, Zenon
  <2> QED BY <1>1, <2>2, <2>3, Zenon DEF Limb
<1>3. ASSUME n < Power(k) PROVE Limb(n, k) = 0
  <2>1. n \div Power(k) = 0
    BY <1>3, Parts
  <2>2. 0 % Base = 0
    BY <1>1, NaturalDivision
  <2> QED BY <2>1, <2>2 DEF Limb
<1>4. ASSUME NEW s \in Nat, k < s PROVE Limb(n % Power(s), k) = Limb(n, k)
  <2> DEFINE m == n % Power(s)
             d == Power(k)
             x == Limb(n, k)
             y == Limb(m, k)
  <2>1. m \in Nat /\ d \in Nat \ {0} /\ x \in 0 .. Base - 1
    BY Parts, PowerFacts, <1>2
  <2>2. y \in 0 .. Base - 1
    BY <2>1, <1>2
  <2>3. m % d = n % d
    BY <1>4, LowOfLow
  <2>4. m % Power(k + 1) = n % Power(k + 1)
    <3>1. k + 1 \in Nat /\ k + 1 <= s
      BY <1>4
    <3> QED BY <3>1, LowOfLow, Zenon
  <2>5. (n % d) + d * x = (n % d) + d * y
    <3>1. m % Power(k + 1) = (m % d) + d * y
      BY <2>1, <1>2
    <3>2. n % Power(k + 1) = (n % d) + d * x
      BY <1>2
    <3> QED BY <2>3, <2>4, <3>1, <3>2
  <2>6. n % d \in Int
    BY Parts
  <2> HIDE DEF m, d, x, y
  <2>7. d * x \in Int /\ d * y \in Int
    BY <2>1, <2>2, Products, BaseAssumption
  <2>8. d * x = d * y
    <3> DEFINE o == n % d
               px == d * x
               py == d * y
    <3>1. o \in Int /\ px \in Int /\ py \in Int /\ o + px = o + py
      BY <2>5, <2>6, <2>7
    <3> HIDE DEF o, px, py
    <3>2. px = py
      BY <3>1
    <3> QED BY <3>2 DEF px, py
  <2>9. x = y
    <3>1. x \in Int /\ y \in Int
      BY <2>1, <2>2, BaseAssumption
    <3> QED BY <2>1, <2>8, <3>1, Cancel
  <2> QED BY <2>9 DEF x, y, m
<1> QED
  <2>1. Limb(n, k) \in 0 .. Base - 1 => Limb(n, k) \in Nat
    BY BaseAssumption
  <2> QED BY <1>2, <1>3, <1>4, <2>1, Zenon

\* Writing a limb changes that limb, and no other.
LEMMA WriteLimb ==
  ASSUME NEW n \in Nat, NEW k \in Nat, NEW l \in 0 .. Base - 1
  PROVE  /\ WithLimb(n, k, l) \in Nat
         /\ WithLimb(n, k, l) % Power(k) = n % Power(k)
         /\ WithLimb(n, k, l) % Power(k + 1) = (n % Power(k)) + Power(k) * l
         /\ WithLimb(n, k, l) \div Power(k + 1) = n \div Power(k + 1)
<1> DEFINE d == Power(k)
           e == Power(k + 1)
           x == Limb(n, k)
           w == WithLimb(n, k, l)
           h == n \div e
           o == n % d
<1>1. /\ d \in Nat \ {0} /\ e = Base * d /\ e \in Nat \ {0} /\ Base \in Nat \ {0}
      /\ x \in 0 .. Base - 1 /\ h \in Nat /\ o \in 0 .. d - 1
      /\ n = e * h + (n % e) /\ n % e = o + d * x
  <2>1. d \in Nat \ {0} /\ e = Base * d /\ e \in Nat \ {0} /\ Base \in Nat \ {0}
    BY PowerFacts, BaseAssumption
  <2>2. x \in 0 .. Base - 1 /\ n % e = o + d * x
    BY LimbFacts, Zenon
  <2>3. o \in 0 .. d - 1
    BY Parts, Zenon
  <2>4. h \in Nat /\ n = e * h + (n % e)
    <3>1. k + 1 \in Nat
      OBVIOUS
    <3> QED BY <3>1, Parts, Zenon
  <2> QED BY <2>1, <2>2, <2>3, <2>4, Zenon
<1>2. w = n + (l - x) * d
  BY DEF WithLimb
<1> HIDE DEF d, e, x, w, h, o
<1>3. /\ (l - x) * d = d * l - d * x /\ d * l \in Nat /\ d * x \in Nat /\ e * h \in Nat
      /\ d * (l + 1) = d * l + d /\ d * Base = e
  BY <1>1, Products, BaseAssumption
<1>4. d * (l + 1) <= d * Base
  BY <1>1, Monotone, BaseAssumption
<1>5. o + d * l \in 0 .. e - 1 /\ w = e * h + (o + d * l)
  BY <1>1, <1>2, <1>3, <1>4
<1>6. w \in Nat
  BY <1>3, <1>5, <1>1
<1>7. w \div e = h /\ w % e = o + d * l
  <2>1. w \in Int /\ h \in Int
    BY <1>1, <1>6
  <2> QED BY <1>1, <1>5, <2>1, DivisionUnique, ZenonT(60)
<1>8. w % d = o
  <2>1. (w % e) % d = w % d
    <3>1. k + 1 \in Nat /\ k <= k + 1
      OBVIOUS
    <3> QED BY <1>6, <3>1, LowOfLow, Zenon DEF e, d
  <2>2. (o + d * l) % d = o
    <3>1. o + d * l = d * l + o /\ o + d * l \in Int /\ l \in Int
      BY <1>1, <1>3
    <3> QED BY <1>1, <3>1, DivisionUnique
  <2> QED BY <1>7, <2>1, <2>2
<1> QED BY <1>6, <1>7, <1>8, Zenon DEF d, e, w, h, o

\* The part above the limb stays.
LEMMA WriteAbove ==
  ASSUME NEW n \in Nat, NEW k \in Nat, NEW l \in 0 .. Base - 1, NEW s \in Nat, k < s
  PROVE  /\ WithLimb(n, k, l) \div Power(s) = n \div Power(s)
         /\ WithLimb(n, k, l) % Power(s) = (n % Power(s)) + Power(k) * l - Power(k) * Limb(n, k)
         /\ n < Power(s) => WithLimb(n, k, l) < Power(s)
<1> DEFINE w == WithLimb(n, k, l)
           j == k + 1
           m == s - j
           lw == w % Power(j)
           ln == n % Power(j)
           above == Power(j) * ((n \div Power(j)) % Power(m))
           low == n % Power(k)
           pl == Power(k) * l
           px == Power(k) * Limb(n, k)
<1>1. j \in Nat /\ m \in Nat /\ s = j + m
  OBVIOUS
<1>2. /\ w \in Nat /\ lw = low + pl /\ w \div Power(j) = n \div Power(j)
  BY WriteLimb, Zenon
<1>3. ln = low + px /\ low \in Nat
  BY LimbFacts, Parts, Zenon
<1>4. pl \in Nat /\ px \in Nat
  <2>1. Power(k) \in Nat /\ l \in Nat
    BY PowerFacts, BaseAssumption
  <2>2. Limb(n, k) \in Nat
    BY LimbFacts, Zenon
  <2> QED BY <2>1, <2>2, Products
<1>5. above \in Nat
  <2>1. Power(j) \in Nat /\ n \div Power(j) \in Nat
    BY <1>1, PowerFacts, Parts
  <2>2. (n \div Power(j)) % Power(m) \in Nat
    BY <1>1, <2>1, Parts, Zenon
  <2> QED BY <2>1, <2>2, Products
<1> HIDE DEF j, m
<1>6. n % Power(s) = ln + above /\ w % Power(s) = lw + above
  <2>1. n % Power(j + m) = ln + above
    BY <1>1, PartsOfParts, ZenonT(60)
  <2>2. w % Power(j + m) = lw + Power(j) * ((w \div Power(j)) % Power(m))
    BY <1>1, <1>2, PartsOfParts, ZenonT(60)
  <2> QED BY <1>1, <1>2, <2>1, <2>2, Zenon
<1>7. w \div Power(s) = n \div Power(s)
  <2>1. n \div Power(j + m) = (n \div Power(j)) \div Power(m)
    <3>1. n \in Nat
      OBVIOUS
    <3> QED BY <1>1, <3>1, PartsOfParts
  <2>2. w \div Power(j + m) = (w \div Power(j)) \div Power(m)
    BY <1>1, <1>2, PartsOfParts, ZenonT(60)
  <2> QED BY <1>1, <1>2, <2>1, <2>2, Zenon
<1>8. ASSUME n < Power(s) PROVE w < Power(s)
  <2>1. w \div Power(s) = 0
    BY <1>7, <1>8, Parts
  <2>2. w = Power(s) * (w \div Power(s)) + (w % Power(s)) /\ w % Power(s) \in 0 .. Power(s) - 1
    BY <1>2, Parts, Zenon
  <2>3. Power(s) \in Nat
    BY PowerFacts
  <2> HIDE DEF w
  <2>4. Power(s) * 0 = 0
    BY <2>3
  <2> QED BY <2>1, <2>2, <2>3, <2>4
<1>9. w % Power(s) = (n % Power(s)) + pl - px
  <2> HIDE DEF w, lw, ln, low, above, pl, px
  <2> QED BY <1>2, <1>3, <1>4, <1>5, <1>6
<1> QED BY <1>7, <1>8, <1>9, Zenon

\* The low part of what is written
LEMMA WriteLow ==
  ASSUME NEW n \in Nat, NEW k \in Nat, NEW l \in 0 .. Base - 1, NEW s \in Nat, k < s
  PROVE  WithLimb(n, k, l) % Power(s) = WithLimb(n % Power(s), k, l)
<1> DEFINE d == Power(k)
           x == Limb(n, k)
           g == n % Power(s)
<1>1. WithLimb(n, k, l) % Power(s) = g + d * l - d * x
  BY WriteAbove, Zenon
<1>2. d \in Nat /\ x \in Nat /\ g \in Nat /\ l \in Int
  <2>1. d \in Nat /\ l \in Int
    BY PowerFacts, BaseAssumption
  <2>2. x \in Nat
    BY LimbFacts, Zenon
  <2>3. g \in Nat
    BY Parts, Zenon
  <2> QED BY <2>1, <2>2, <2>3
<1>3. Limb(g, k) = x
  BY LimbFacts
<1>4. WithLimb(g, k, l) = g + (l - x) * d
  BY <1>3, Zenon DEF WithLimb
<1> HIDE DEF d, x, g
<1>5. (l - x) * d = d * l - d * x /\ d * l \in Int /\ d * x \in Int
  BY <1>2
<1>6. g + d * l - d * x = g + (d * l - d * x)
  BY <1>2, <1>5
<1> QED BY <1>1, <1>4, <1>5, <1>6, Zenon DEF g

\* The limbs after a limb has been written
LEMMA WrittenLimbs ==
  ASSUME NEW n \in Nat, NEW k \in Nat, NEW l \in 0 .. Base - 1, NEW j \in Nat
  PROVE  Limb(WithLimb(n, k, l), j) = IF j = k THEN l ELSE Limb(n, j)
<1> DEFINE w == WithLimb(n, k, l)
<1>1. w \in Nat
  BY WriteLimb
<1>2. CASE j < k
  <2>1. w % Power(k) = n % Power(k)
    BY WriteLimb
  <2>2. Limb(w % Power(k), j) = Limb(w, j) /\ Limb(n % Power(k), j) = Limb(n, j)
    BY <1>1, <1>2, LimbFacts, ZenonT(60)
  <2> QED BY <1>2, <2>1, <2>2
<1>3. CASE k < j
  <2>1. w \div Power(j) = n \div Power(j)
    BY <1>3, WriteAbove
  <2> QED BY <1>3, <2>1 DEF Limb
<1>4. CASE j = k
  <2> DEFINE d == Power(k)
             low == n % d
             x == Limb(w, k)
  <2>1. w % Power(k + 1) = low + d * l /\ w % d = low
    BY WriteLimb, Zenon
  <2>2. w % Power(k + 1) = (w % d) + d * x /\ x \in 0 .. Base - 1
    BY <1>1, LimbFacts, Zenon
  <2>3. d \in Nat \ {0} /\ low \in Nat
    BY PowerFacts, Parts
  <2> HIDE DEF w, d, low, x
  <2>4. x \in Int /\ l \in Int
    BY <2>2, BaseAssumption
  <2>5. low + d * l = low + d * x /\ d * l \in Int /\ d * x \in Int
    BY <2>1, <2>2, <2>3, <2>4, Products
  <2>6. d * l = d * x
    <3> DEFINE dl == d * l
               dx == d * x
    <3> HIDE DEF dl, dx
    <3>1. low + dl = low + dx /\ dl \in Int /\ dx \in Int
      BY <2>5, Zenon DEF dl, dx
    <3>2. dl = dx
      BY <2>3, <3>1
    <3> QED BY <3>2 DEF dl, dx
  <2>7. x = l
    BY <2>3, <2>4, <2>6, Cancel
  <2> QED BY <1>4, <2>7 DEF w, x
<1> QED BY <1>2, <1>3, <1>4

----------------------------------------------------------------------------
(* The number of limbs.                                                    *)

\* k limbs are enough for n, and fewer are not; zero has one.
IsSize(n, k) == k \in Nat \ {0} /\ n < Power(k) /\ (k = 1 \/ Power(k - 1) <= n)

LEMMA SizeExists ==
  ASSUME NEW n \in Nat
  PROVE  \E k : IsSize(n, k)
<1> DEFINE S == {k \in Nat \ {0} : n < Power(k)}
<1>1. S \in SUBSET Nat /\ S # {}
  <2>1. n + 1 \in Nat \ {0} /\ n + 1 < Power(n + 1) /\ Power(n + 1) \in Nat
    BY PowersGrow, PowerFacts
  <2>2. n + 1 \in S
    BY <2>1
  <2> QED BY <2>2
<1>2. PICK k \in S : \A l \in S : k <= l
  BY <1>1, LeastNatural
<1>3. ASSUME k # 1 PROVE Power(k - 1) <= n
  <2>1. k - 1 \in Nat \ {0} /\ k - 1 \notin S
    BY <1>2, <1>3
  <2>2. Power(k - 1) \in Nat
    BY <2>1, PowerFacts
  <2> QED BY <2>1, <2>2
<1> QED BY <1>2, <1>3 DEF IsSize

\* A number of limbs is enough just if it is no less.
LEMMA SizesOrdered ==
  ASSUME NEW n \in Nat, NEW k, IsSize(n, k), NEW l \in Nat \ {0}
  PROVE  n < Power(l) <=> k <= l
<1>1. k \in Nat \ {0} /\ Power(k) \in Nat /\ Power(l) \in Nat
  BY PowerFacts DEF IsSize
<1>2. ASSUME k <= l PROVE n < Power(l)
  BY <1>1, <1>2, PowersGrow DEF IsSize
<1>3. ASSUME l < k PROVE ~(n < Power(l))
  <2>1. k - 1 \in Nat /\ l <= k - 1 /\ Power(k - 1) <= n
    BY <1>1, <1>3 DEF IsSize
  <2>2. Power(l) <= Power(k - 1) /\ Power(k - 1) \in Nat
    BY <2>1, PowersGrow, PowerFacts
  <2> QED BY <1>1, <2>1, <2>2
<1> QED BY <1>1, <1>2, <1>3

\* A longer number has a limb more than what is above its lowest limb.
LEMMA SizeStep ==
  ASSUME NEW n \in Nat, NEW k
  PROVE  /\ n < Base => IsSize(n, 1)
         /\ ~(n < Base) => n \div Base \in Nat /\ n \div Base < n
         /\ ~(n < Base) /\ IsSize(n \div Base, k) => IsSize(n, k + 1)
<1>1. Power(1) = Base /\ Base \in Nat \ {0} /\ Base >= 2 /\ Base \in Int
  BY PowerFacts, BaseAssumption, Products
<1>2. n < Base => IsSize(n, 1)
  BY <1>1 DEF IsSize
<1> DEFINE m == n \div Base
           o == n % Base
<1>3. m \in Nat /\ o \in 0 .. Base - 1 /\ n = Base * m + o
  <2>1. n \in Int
    OBVIOUS
  <2>2. o \in 0 .. Base - 1 /\ n = Base * m + o
    BY <1>1, <2>1, Division, Zenon
  <2>3. m \in Nat
    BY <1>1, NaturalDivision, Zenon
  <2> QED BY <2>2, <2>3
<1> HIDE DEF m, o
<1>4. Base * m \in Nat /\ Base * (m + 1) = Base * m + Base
  BY <1>1, <1>3, Products
<1>5. ASSUME ~(n < Base) PROVE m < n
  <2>1. 2 * m <= Base * m
    BY <1>1, <1>3, Monotone
  <2>2. m # 0
    BY <1>1, <1>3, <1>5
  <2> QED BY <1>3, <1>4, <2>1, <2>2
<1>6. ASSUME ~(n < Base), IsSize(m, k) PROVE IsSize(n, k + 1)
  <2>1. k \in Nat \ {0} /\ m < Power(k) /\ Power(k) \in Nat
    BY <1>6, PowerFacts DEF IsSize
  <2>2. Power(k + 1) = Base * Power(k) /\ Power(k + 1) \in Nat
    BY <2>1, PowerFacts
  <2>3. Base * (m + 1) <= Power(k + 1)
    BY <1>1, <1>3, <2>1, <2>2, Monotone
  <2>4. n < Power(k + 1)
    <3> DEFINE bm == Base * m
               bm1 == Base * (m + 1)
               q == Power(k + 1)
    <3>1. bm \in Nat /\ bm1 = bm + Base /\ bm1 <= q /\ q \in Nat /\ n = bm + o
      BY <1>3, <1>4, <2>2, <2>3
    <3> HIDE DEF bm, bm1, q
    <3>2. n < q
      BY <1>1, <1>3, <3>1
    <3> QED BY <3>2 DEF q
  <2>5. Power(k) <= n
    <3>1. CASE k = 1
      BY <3>1, <1>1, <1>6
    <3>2. CASE k # 1
      <4>1. k - 1 \in Nat /\ (k - 1) + 1 = k /\ Power(k - 1) <= m
        BY <3>2, <2>1, <1>6 DEF IsSize
      <4>2. Power(k - 1) \in Nat /\ Power((k - 1) + 1) = Base * Power(k - 1)
        BY <4>1, PowerFacts
      <4>3. Base * Power(k - 1) <= Base * m
        BY <1>1, <1>3, <4>1, <4>2, Monotone
      <4>4. Power(k) <= Base * m
        BY <4>1, <4>2, <4>3
      <4> QED BY <1>3, <1>4, <2>1, <4>4
    <3> QED BY <3>1, <3>2
  <2> QED BY <2>1, <2>4, <2>5 DEF IsSize
<1> QED BY <1>2, <1>3, <1>5, <1>6 DEF m

\* Size is the number of limbs that are needed.
LEMMA SizeFacts ==
  ASSUME NEW n \in Nat
  PROVE  IsSize(n, Size(n))
<1> DEFINE step(g) == [m \in Nat |-> IF m < Base THEN 1 ELSE 1 + g[m \div Base]]
           size == CHOOSE g : g = step(g)
           needed(m) == CHOOSE k : IsSize(m, k)
           f == [m \in Nat |-> needed(m)]
<1>1. \A m \in Nat : IsSize(m, f[m])
  BY SizeExists
<1>2. \A m \in Nat : \A k : IsSize(m, k) => k = f[m]
  <2> SUFFICES ASSUME NEW m \in Nat, NEW k, IsSize(m, k) PROVE k = f[m]
    OBVIOUS
  <2> DEFINE l == f[m]
  <2>1. IsSize(m, l)
    BY <1>1
  <2> HIDE DEF l
  <2>2. k \in Nat \ {0} /\ l \in Nat \ {0} /\ m < Power(k) /\ m < Power(l)
    BY <2>1 DEF IsSize
  <2>3. k <= l /\ l <= k
    BY <2>1, <2>2, SizesOrdered
  <2>4. k = l
    BY <2>2, <2>3
  <2> QED BY <2>4 DEF l
<1> HIDE DEF f
<1>3. f = step(f)
  <2>1. ASSUME NEW m \in Nat PROVE f[m] = step(f)[m]
    <3>1. CASE m < Base
      <4>1. f[m] = 1
        BY <3>1, <1>2, SizeStep
      <4> QED BY <4>1, <3>1
    <3>2. CASE ~(m < Base)
      <4>1. m \div Base \in Nat
        BY <3>2, SizeStep
      <4>2. IsSize(m \div Base, f[m \div Base])
        BY <4>1, <1>1
      <4>3. IsSize(m, f[m \div Base] + 1)
        BY <3>2, <4>2, SizeStep
      <4>4. f[m] = f[m \div Base] + 1 /\ f[m \div Base] \in Nat
        BY <4>2, <4>3, <1>2 DEF IsSize
      <4> QED BY <4>4, <3>2
    <3> QED BY <3>1, <3>2
  <2>2. f = [m \in Nat |-> f[m]]
    BY DEF f
  <2> QED BY <2>1, <2>2
<1>4. size = step(size)
  BY <1>3
<1>5. Size(n) = size[n]
  BY Zenon DEF Size
<1> HIDE DEF size
<1> DEFINE S == {m \in Nat : size[m] # f[m]}
<1>6. S = {}
  <2>1. SUFFICES ASSUME S # {} PROVE FALSE
    OBVIOUS
  <2>2. PICK m \in S : \A l \in S : m <= l
    BY <2>1, LeastNatural
  <2>3. size[m] = step(size)[m] /\ f[m] = step(f)[m]
    BY <1>3, <1>4, Zenon
  <2>4. ~(m < Base)
    BY <2>2, <2>3
  <2>5. m \div Base \in Nat /\ m \div Base < m
    BY <2>2, <2>4, SizeStep
  <2>6. m \div Base \notin S
    BY <2>2, <2>5
  <2> QED BY <2>2, <2>3, <2>4, <2>5, <2>6
<1> QED BY <1>1, <1>5, <1>6

\* What a number's size says of it
LEMMA Sizes ==
  ASSUME NEW n \in Nat
  PROVE  /\ Size(n) \in Nat \ {0} /\ n < Power(Size(n))
         /\ Size(n) # 1 => Size(n) - 1 \in Nat \ {0} /\ Power(Size(n) - 1) <= n
         /\ Size(n) = 1 <=> n < Base
         /\ \A k \in Nat \ {0} : n < Power(k) <=> Size(n) <= k
<1>1. IsSize(n, Size(n))
  BY SizeFacts
<1>2. \A k \in Nat \ {0} : n < Power(k) <=> Size(n) <= k
  BY <1>1, SizesOrdered
<1>3. Power(1) = Base
  BY PowerFacts, BaseAssumption, Products
<1>4. /\ Size(n) \in Nat \ {0} /\ n < Power(Size(n))
      /\ Size(n) # 1 => Size(n) - 1 \in Nat \ {0} /\ Power(Size(n) - 1) <= n
  BY <1>1 DEF IsSize
<1> QED BY <1>2, <1>3, <1>4

\* Zero is a number of one limb.
LEMMA SizeOfZero == Size(0) = 1
BY Sizes, BaseAssumption

\* A number in memory that held another: above its limbs, the other's are left.
LEMMA ReplaceLow ==
  ASSUME NEW m \in Nat, NEW k \in Nat, NEW n \in Nat, n < Power(k)
  PROVE  /\ (m \div Power(k)) * Power(k) + n \in Nat
         /\ ((m \div Power(k)) * Power(k) + n) % Power(k) = n
         /\ \A s \in Nat :
              k <= s /\ m < Power(s) => (m \div Power(k)) * Power(k) + n < Power(s)
<1> DEFINE d == Power(k)
           h == m \div d
           w == h * d + n
<1>1. d \in Nat \ {0} /\ h \in Nat
  BY PowerFacts, Parts
<1> HIDE DEF d, h
<1>2. h * d \in Nat /\ h * d = d * h
  BY <1>1, Products
<1>3. w \in Nat /\ w = d * h + n /\ n \in 0 .. d - 1 /\ w \in Int /\ h \in Int
  BY <1>1, <1>2 DEF d
<1> HIDE DEF w
<1>4. w \div d = h /\ w % d = n
  BY <1>1, <1>3, DivisionUnique, Zenon
<1>5. ASSUME NEW s \in Nat, k <= s, m < Power(s) PROVE w < Power(s)
  <2> DEFINE l == s - k
  <2>1. l \in Nat /\ s = k + l
    BY <1>5
  <2> HIDE DEF l
  <2>2. w \div Power(k + l) = (w \div d) \div Power(l) /\ m \div Power(k + l) = h \div Power(l)
    <3>1. w \div Power(k + l) = (w \div Power(k)) \div Power(l)
      BY <1>3, <2>1, PartsOfParts
    <3>2. m \div Power(k + l) = (m \div Power(k)) \div Power(l)
      BY <2>1, PartsOfParts
    <3> QED BY <3>1, <3>2, Zenon DEF d, h
  <2>3. m \div Power(s) = 0
    BY <1>5, Parts, Zenon
  <2>4. w \div Power(s) = 0
    BY <1>4, <2>1, <2>2, <2>3, Zenon
  <2>5. w = Power(s) * (w \div Power(s)) + (w % Power(s)) /\ w % Power(s) \in 0 .. Power(s) - 1
    BY <1>3, Parts, Zenon
  <2>6. Power(s) \in Nat
    BY PowerFacts
  <2>7. Power(s) * 0 = 0
    BY <2>6
  <2> QED BY <2>4, <2>5, <2>6, <2>7
<1> QED BY <1>3, <1>4, <1>5, Zenon DEF w, h, d

\* The same, of zero
LEMMA ClearLow ==
  ASSUME NEW m \in Nat, NEW k \in Nat
  PROVE  /\ (m \div Power(k)) * Power(k) \in Nat
         /\ ((m \div Power(k)) * Power(k)) % Power(k) = 0
         /\ \A s \in Nat : k <= s /\ m < Power(s) => (m \div Power(k)) * Power(k) < Power(s)
<1> DEFINE w == (m \div Power(k)) * Power(k)
<1>1. \A n \in Nat : n < Power(k) =>
        /\ (w + n) % Power(k) = n
        /\ \A s \in Nat : k <= s /\ m < Power(s) => w + n < Power(s)
  BY ReplaceLow
<1>2. w \in Nat /\ 0 < Power(k)
  <2>1. m \div Power(k) \in Nat /\ Power(k) \in Nat \ {0}
    BY Parts, PowerFacts
  <2> QED BY <2>1, Products
<1> HIDE DEF w
<1>3. w + 0 = w
  BY <1>2
<1>4. /\ (w + 0) % Power(k) = 0
      /\ \A s \in Nat : k <= s /\ m < Power(s) => w + 0 < Power(s)
  BY <1>1, <1>2
<1>5. /\ w % Power(k) = 0
      /\ \A s \in Nat : k <= s /\ m < Power(s) => w < Power(s)
  BY <1>3, <1>4
<1> QED BY <1>2, <1>5 DEF w

\* A number is its low part of as many limbs as it has.
LEMMA LowBySize ==
  ASSUME NEW n \in Nat, NEW k \in Nat \ {0}, Size(n) <= k
  PROVE  n % Power(k) = n /\ n < Power(k)
BY Sizes, Parts

\* What a product of two limbs, with two more added, takes: two limbs
LEMMA Carries ==
  ASSUME NEW x \in 0 .. Base - 1, NEW y \in 0 .. Base - 1,
         NEW z \in 0 .. Base - 1, NEW c \in 0 .. Base - 1
  PROVE  /\ c + x * y + z \in Nat /\ x * y \in Nat
         /\ (c + x * y + z) \div Base \in 0 .. Base - 1
         /\ (c + x * y + z) % Base \in 0 .. Base - 1
         /\ c + x * y + z = Base * ((c + x * y + z) \div Base) + ((c + x * y + z) % Base)
<1> DEFINE n == c + x * y + z
           q == n \div Base
           o == n % Base
<1>1. Base \in Nat \ {0} /\ x \in Nat /\ y \in Nat /\ x * y \in Nat
  BY BaseAssumption, Products
<1>2. n \in Nat /\ n \in Int
  BY <1>1
<1>3. x * y <= (Base - 1) * y /\ (Base - 1) * y <= (Base - 1) * (Base - 1)
  BY <1>1, Monotone
<1>4. (Base - 1) * (Base - 1) = Base * Base - 2 * Base + 1 /\ Base * Base \in Nat
  BY <1>1
<1>5. (Base - 1) * y \in Int
  BY <1>1
<1>6. n < Base * Base
  <2> DEFINE xy == x * y
             by == (Base - 1) * y
             b2 == Base * Base
  <2>1. xy \in Nat /\ by \in Int /\ b2 \in Nat /\ xy <= by /\ by <= b2 - 2 * Base + 1
    BY <1>1, <1>3, <1>4, <1>5
  <2>2. n = c + xy + z
    OBVIOUS
  <2> HIDE DEF xy, by, b2, n
  <2>3. n < b2
    BY <1>1, <2>1, <2>2
  <2> QED BY <2>3 DEF b2
<1> HIDE DEF n
<1>7. q \in Nat /\ Base * q <= n /\ o \in 0 .. Base - 1 /\ n = Base * q + o
  <2>1. q \in Nat /\ Base * q <= n
    BY <1>1, <1>2, NaturalDivision, Zenon
  <2>2. o \in 0 .. Base - 1 /\ n = Base * q + o
    BY <1>1, <1>2, Division, Zenon
  <2> QED BY <2>1, <2>2
<1> HIDE DEF q, o
<1>8. q < Base
  <2>1. Base * q < Base * Base
    BY <1>1, <1>2, <1>4, <1>6, <1>7, Products
  <2> QED BY <1>1, <1>7, <2>1, Cancel
<1>9. q \in 0 .. Base - 1
  BY <1>1, <1>7, <1>8
<1> QED BY <1>1, <1>2, <1>7, <1>9, Zenon DEF n, q, o

----------------------------------------------------------------------------
(* One level of the Karatsuba square root, for every base b and every       *)
(* number: the root and the remainder of the leading part, the quotient     *)
(* and the rest of one division, and at most one correction make up the     *)
(* root and the remainder of the whole number.                              *)

\* The digit that the division yields is at most the base: the root of the leading
\* part is at least half of it.
LEMMA DigitBounded ==
  ASSUME NEW s \in Nat \ {0}, NEW r \in 0 .. 2 * s, NEW b \in Nat \ {0}, b <= 2 * s,
         NEW a1 \in 0 .. b - 1
  PROVE  /\ NextDigits(s, r, b, a1) \in 0 .. b
         /\ NextRest(s, r, b, a1) \in 0 .. 2 * s - 1
         /\ r * b + a1 = 2 * s * NextDigits(s, r, b, a1) + NextRest(s, r, b, a1)
<1> DEFINE q == NextDigits(s, r, b, a1)
           u == NextRest(s, r, b, a1)
<1>1. r * b \in Nat /\ r * b + a1 \in Nat /\ 2 * s \in Nat \ {0}
  BY SMT
<1>2. q \in Nat /\ u \in 0 .. 2 * s - 1 /\ r * b + a1 = 2 * s * q + u
  <2> DEFINE m == r * b + a1
             d == 2 * s
  <2>1. m \in Nat /\ d \in Nat \ {0} /\ q = m \div d /\ u = m % d
    BY <1>1 DEF NextDigits, NextRest
  <2> HIDE DEF m, d, q, u
  <2>2. q \in Nat
    BY <2>1, NaturalDivision
  <2>3. u \in 0 .. d - 1 /\ m = d * q + u
    BY <2>1, Division
  <2> QED BY <2>2, <2>3 DEF m, d
<1>3. r * b <= 2 * s * b
  BY Monotone
<1>4. q <= b
  <2>1. SUFFICES ASSUME q >= b + 1 PROVE FALSE
    BY <1>2
  <2>2. 2 * s * (b + 1) <= 2 * s * q
    BY <1>2, <2>1, Monotone
  <2>3. 2 * s * (b + 1) = 2 * s * b + 2 * s
    BY SMT
  <2> QED BY <1>2, <1>3, <2>2, <2>3
<1> QED BY <1>2, <1>4

\* The difference is at most what a remainder may be, and if it is negative, one less
\* than the root makes up for it.
LEMMA DifferenceBounded ==
  ASSUME NEW s \in Nat \ {0}, NEW b \in Nat \ {0}, b <= 2 * s,
         NEW a0 \in 0 .. b - 1, NEW q \in 0 .. b, NEW u \in 0 .. 2 * s - 1
  PROVE  /\ Difference(u, b, a0, q) <= 2 * (s * b + q)
         /\ Difference(u, b, a0, q) + 2 * (s * b + q) - 1 >= 0 \/ q = 0
<1>1. u * b + b <= 2 * s * b
  <2>1. (u + 1) * b <= 2 * s * b
    BY Monotone
  <2>2. (u + 1) * b = u * b + b
    BY SMT
  <2> QED BY <2>1, <2>2
<1>2. q * q \in Nat /\ s * b \in Nat /\ u * b \in Nat
  BY SMT
<1>3. q * q <= b * b
  BY Monotone
<1>4. b * b <= 2 * s * b
  BY Monotone
<1>5. 2 * s * b = 2 * (s * b)
  BY SMT
<1>6. Difference(u, b, a0, q) = u * b + a0 - q * q
  BY DEF Difference
<1>7. Difference(u, b, a0, q) <= 2 * (s * b + q)
  BY <1>1, <1>2, <1>5, <1>6
<1>8. CASE q >= 1
  BY <1>2, <1>3, <1>4, <1>5, <1>6, <1>7, <1>8
<1> QED BY <1>7, <1>8

\* A level of eval_sqrt_karatsuba (and of its base cases) returns the root and the
\* remainder of its number, if it was given those of the leading part and the root
\* of that is at least half the base: one correction is enough.
THEOREM OneCorrectionSuffices ==
  ASSUME NEW s \in Nat \ {0}, NEW r \in Nat, NEW n \in Nat, IsRoot(s, r, n),
         NEW b \in Nat \ {0}, b <= 2 * s,
         NEW a1 \in 0 .. b - 1, NEW a0 \in 0 .. b - 1
  PROVE  IsRoot(LowerHalf(s, r, b, a1, a0).s, LowerHalf(s, r, b, a1, a0).r,
                n * (b * b) + a1 * b + a0)
<1> DEFINE q == NextDigits(s, r, b, a1)
           u == NextRest(s, r, b, a1)
           d == Difference(u, b, a0, q)
           t == s * b + q
           x == n * (b * b) + a1 * b + a0
           c == Corrected(t, d)
<1>0. SUFFICES IsRoot(c.s, c.r, x)
  BY DEF LowerHalf
<1>1. r \in 0 .. 2 * s /\ n = s * s + r
  BY DEF IsRoot
<1>2. q \in 0 .. b /\ u \in 0 .. 2 * s - 1 /\ r * b + a1 = 2 * s * q + u
  BY <1>1, DigitBounded
<1>3. x = t * t + d
  <2>1. q \in Nat /\ u \in Nat /\ r \in Nat
    BY <1>1, <1>2
  <2>2. (r * b + a1) * b = (2 * s * q + u) * b
    BY <1>2
  <2> HIDE DEF q, u
  <2>3. x = (s * s) * (b * b) + (r * b + a1) * b + a0
    BY <1>1, <2>1
  <2>4. (2 * s * q + u) * b = 2 * (s * b) * q + u * b
    BY <2>1, SMT
  <2>5. t * t = (s * s) * (b * b) + 2 * (s * b) * q + q * q
    BY <2>1, SMT
  <2> QED BY <2>1, <2>2, <2>3, <2>4, <2>5 DEF Difference
<1>4. d <= 2 * t /\ (d + 2 * t - 1 >= 0 \/ q = 0)
  BY <1>2, DifferenceBounded
<1>5. t \in Nat /\ t >= 1 /\ d \in Int
  BY <1>2 DEF Difference
<1> HIDE DEF t, x, d, q, u
<1>6. CASE d >= 0
  <2>1. c.s = t /\ c.r = d
    BY <1>5, <1>6 DEF Corrected
  <2>2. d \in 0 .. 2 * t
    BY <1>4, <1>5, <1>6
  <2>3. IsRoot(t, d, x)
    BY <1>3, <1>5, <2>2 DEF IsRoot
  <2> QED BY <2>1, <2>3
<1>7. CASE d < 0
  <2>1. c.s = t - 1 /\ c.r = d + 2 * t - 1
    BY <1>5, <1>7 DEF Corrected
  <2>2. q # 0
    <3>1. SUFFICES ASSUME q = 0 PROVE d >= 0
      BY <1>5, <1>7
    <3>2. u * b \in Nat /\ q * q = 0
      BY <1>2, <3>1
    <3> QED BY <1>2, <3>1, <3>2 DEF Difference, d
  <2>3. (t - 1) * (t - 1) = t * t - 2 * t + 1
    BY <1>5, SMT
  <2>4. t * t \in Nat
    BY <1>5, SMT
  <2> DEFINE tt == t * t
  <2> HIDE DEF tt
  <2>5. d + 2 * t - 1 \in 0 .. 2 * (t - 1) /\ t - 1 \in Nat
    BY <1>4, <1>5, <1>7, <2>2
  <2>6. x = (t - 1) * (t - 1) + (d + 2 * t - 1)
    BY <1>3, <1>5, <2>3, <2>4 DEF tt
  <2>7. IsRoot(t - 1, d + 2 * t - 1, x)
    BY <2>5, <2>6 DEF IsRoot
  <2> QED BY <2>1, <2>7
<1> QED BY <1>5, <1>6, <1>7
=============================================================================
