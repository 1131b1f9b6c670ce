----------------------- MODULE CppIntAddSubtractProofs ----------------------
(***************************************************************************)
(* The loops of CppIntAddSubtract stay inside the limbs, read what the     *)
(* call was given, and leave numbers in normal form: for every base, every *)
(* precision and every set of numbers.                                     *)
(*                                                                         *)
(* The three rest on one another: the normal form stops the search for a   *)
(* limb to borrow from, and the sizes of the operands, which Running       *)
(* relates to the limbs that are left, keep the loops inside them.         *)
(***************************************************************************)
EXTENDS CppIntAddSubtract, SequenceTheorems, WellFoundedInduction, TLAPS

Limbs == UNION {[1..n -> Limb] : n \in 1..MaxLimbs}

\* Normal form of the limbs alone
NormalLimbs(s) ==
  /\ Len(s) > 1 => s[Len(s)] # 0
  /\ Len(s) = MaxLimbs => s[MaxLimbs] < TopLimb

----------------------------------------------------------------------------
(* Numbers and limbs. *)

\* Every set of naturals has a least one: this takes the place of induction.
LEMMA LeastNatural ==
  ASSUME NEW S \in SUBSET Nat, S # {}
  PROVE  \E n \in S : \A k \in S : n <= k
<1>1. PICK R : R = {ss \in Nat \X Nat : ss[1] < ss[2]}
  OBVIOUS
<1>2. IsWellFoundedOn(R, Nat)
  BY <1>1, NatLessThanWellFounded DEF OpToRel
<1>3. PICK n \in S : \A k \in S : ~(<<k, n>> \in R)
  BY <1>2, WFMin
<1>4. \A k \in S : n <= k
  <2>1. TAKE k \in S
  <2>2. ~(k < n)
    BY <1>1, <1>3
  <2> QED BY <2>2
<1> QED BY <1>4

\* The sizes, without the relation of the topmost limb's width to that of the others
LEMMA Sizes ==
  /\ Base \in Nat /\ Base \in Int /\ Base >= 2
  /\ MaxLimbs \in Nat /\ MaxLimbs \in Int /\ MaxLimbs >= 2
  /\ TopLimb \in Nat \ {0} /\ TopLimb \in Int /\ TopLimb >= 2 /\ TopLimb <= Base
BY SizesAssumption

\* Division by a positive number
LEMMA Division ==
  ASSUME NEW n \in Int, NEW d \in Nat \ {0}
  PROVE  n \div d \in Int /\ n % d \in 0 .. d - 1 /\ n = d * (n \div d) + (n % d)
BY SMT

\* Limbs are a sequence.
LEMMA LimbsType ==
  ASSUME NEW s \in Limbs
  PROVE  /\ s \in Seq(Limb) /\ s # <<>> /\ Len(s) \in 1..MaxLimbs /\ Len(s) \in Nat
         /\ s \in [1..Len(s) -> Limb] /\ DOMAIN s = 1..Len(s)
         /\ \A k \in 1..Len(s) : s[k] \in Limb /\ s[k] \in Int
<1>1. PICK n \in 1..MaxLimbs : s \in [1..n -> Limb]
  BY DEF Limbs
<1>2. n \in Nat /\ s \in Seq(Limb) /\ Len(s) = n
  BY <1>1, Sizes
<1>3. s # <<>>
  BY <1>1, <1>2, EmptySeq
<1> QED BY <1>1, <1>2, <1>3 DEF Limb

\* A function on the first n numbers is such a sequence.
LEMMA LimbsMade ==
  ASSUME NEW n \in 1..MaxLimbs, NEW s \in [1..n -> Limb]
  PROVE  s \in Limbs /\ Len(s) = n
BY Sizes DEF Limbs

\* The leading zeros of limbs
LEMMA UsedLimbs ==
  ASSUME NEW s \in Limbs
  PROVE  /\ Used(s) \in 1..Len(s)
         /\ \A j \in Used(s) + 1 .. Len(s) : s[j] = 0
         /\ Used(s) > 1 => s[Used(s)] # 0
<1> DEFINE n == Len(s)
           P(k) == /\ \A j \in k + 1 .. n : s[j] = 0
                   /\ k > 1 => s[k] # 0
           S == {k \in 1..n : \A j \in k + 1 .. n : s[j] = 0}
<1>1. n \in Nat /\ n \in 1..n /\ n + 1 .. n = {}
  BY LimbsType
<1>2. S \in SUBSET Nat /\ n \in S
  BY <1>1
<1>3. PICK k \in S : \A j \in S : k <= j
  BY <1>2, LeastNatural
<1>4. k \in 1..n /\ \A j \in k + 1 .. n : s[j] = 0
  BY <1>3
<1>5. ASSUME k > 1, s[k] = 0 PROVE FALSE
  <2>1. k - 1 \in 1..n /\ \A j \in (k - 1) + 1 .. n : j = k \/ j \in k + 1 .. n
    BY <1>1, <1>4, <1>5
  <2>2. k - 1 \in S
    BY <1>4, <1>5, <2>1
  <2>3. k <= k - 1
    BY <1>3, <2>2
  <2> QED BY <1>1, <1>4, <2>3
<1>6. P(k)
  BY <1>4, <1>5
<1>7. \E j \in 1..n : P(j)
  BY <1>4, <1>6
<1>8. Used(s) = CHOOSE j \in 1..n : P(j)
  BY DEF Used
<1> HIDE DEF P, n
<1>9. Used(s) \in 1..n /\ P(Used(s))
  BY <1>7, <1>8
<1> QED BY <1>9 DEF P, n

\* normalize(): the mask, and no leading zeros
LEMMA NormalizedLimbs ==
  ASSUME NEW s \in Limbs
  PROVE  LET n == normalized(s)
             top == IF Len(s) = MaxLimbs THEN s[MaxLimbs] % TopLimb ELSE s[Len(s)]
         IN /\ n \in Limbs /\ NormalLimbs(n) /\ Len(n) <= Len(s)
            /\ \A k \in 1..Len(n) : n[k] = IF k = Len(s) THEN top ELSE s[k]
            /\ \A k \in Len(n) + 1 .. Len(s) :
                 (IF k = Len(s) THEN top ELSE s[k]) = 0
<1> DEFINE top == IF Len(s) = MaxLimbs THEN s[MaxLimbs] % TopLimb ELSE s[Len(s)]
           t == IF Len(s) = MaxLimbs THEN [s EXCEPT ![MaxLimbs] = @ % TopLimb] ELSE s
           u == Used(t)
           n == SubSeq(t, 1, u)
<1>1. /\ Len(s) \in 1..MaxLimbs /\ Len(s) \in Nat /\ s \in [1..Len(s) -> Limb]
      /\ \A k \in 1..Len(s) : s[k] \in Limb
  BY LimbsType
<1>2. TopLimb \in Nat \ {0} /\ TopLimb <= Base
  BY Sizes
<1>3. top \in Limb /\ (Len(s) = MaxLimbs => top < TopLimb)
  <2>1. CASE Len(s) = MaxLimbs
    <3>1. s[MaxLimbs] \in Int
      BY <1>1, <2>1 DEF Limb
    <3>2. top \in 0 .. TopLimb - 1
      BY <1>2, <2>1, <3>1, Division
    <3> QED BY <1>2, <3>2, Sizes DEF Limb
  <2>2. CASE Len(s) # MaxLimbs
    BY <1>1, <2>2
  <2> QED BY <2>1, <2>2
<1>4. t \in [1..Len(s) -> Limb] /\ \A k \in 1..Len(s) : t[k] = IF k = Len(s) THEN top ELSE s[k]
  BY <1>1, <1>3
<1>5. t \in Limbs /\ Len(t) = Len(s)
  BY <1>1, <1>4, LimbsMade
<1> HIDE DEF t, top
<1>6. /\ u \in 1..Len(s) /\ \A j \in u + 1 .. Len(s) : t[j] = 0
      /\ u > 1 => t[u] # 0
  BY <1>5, UsedLimbs
<1> HIDE DEF u
<1>7. /\ n \in Seq(Limb) /\ Len(n) = u /\ \A k \in 1..u : n[k] = t[k]
  <2>1. ASSUME NEW k \in 1..u PROVE t[k] \in Limb
    <3>1. k \in 1..Len(s)
      BY <1>1, <1>6
    <3> QED BY <1>4, <3>1
  <2>2. u \in Int /\ 1 <= u /\ u - 1 + 1 = u
    BY <1>1, <1>6
  <2>3. /\ n \in Seq(Limb) /\ Len(n) = IF 1 <= u THEN u - 1 + 1 ELSE 0
        /\ \A k \in 1 .. u - 1 + 1 : n[k] = t[1 + k - 1]
    BY <2>1, <2>2, SubSeqProperties
  <2> QED BY <2>2, <2>3
<1>8. n = normalized(s)
  BY DEF normalized, t, u
<1> HIDE DEF n
<1>9. n \in Limbs
  <2>1. u \in 1..MaxLimbs
    BY <1>1, <1>6, Sizes
  <2>2. n \in [1..Len(n) -> Limb]
    BY <1>7, LenProperties
  <2>3. n \in [1..u -> Limb]
    BY <1>7, <2>2
  <2> QED BY <2>1, <2>3, LimbsMade
<1>10. NormalLimbs(n)
  <2>1. ASSUME u = MaxLimbs PROVE Len(s) = MaxLimbs /\ MaxLimbs \in 1..u
    <3>1. Len(s) \in Int /\ Len(s) <= MaxLimbs /\ u \in Int /\ u <= Len(s)
      BY <1>1, <1>6, Sizes
    <3> QED BY <2>1, <3>1, Sizes
  <2>2. u \in 1..u
    BY <1>1, <1>6
  <2>3. u > 1 => n[u] # 0
    BY <1>6, <1>7, <2>2
  <2>4. ASSUME u = MaxLimbs PROVE n[MaxLimbs] < TopLimb
    <3>1. n[MaxLimbs] = t[MaxLimbs]
      BY <1>7, <2>1, <2>4
    <3>2. t[MaxLimbs] = top
      BY <1>1, <1>4, <2>1, <2>4
    <3> QED BY <1>3, <2>1, <2>4, <3>1, <3>2
  <2> QED BY <1>7, <2>3, <2>4 DEF NormalLimbs
<1>11. \A k \in 1..u : k \in 1..Len(s)
  BY <1>1, <1>6
<1>12. \A k \in u + 1 .. Len(s) : k \in 1..Len(s)
  BY <1>1, <1>6
<1>13. u <= Len(s)
  BY <1>1, <1>6
<1> QED BY <1>4, <1>6, <1>7, <1>8, <1>9, <1>10, <1>11, <1>12, <1>13 DEF top

\* Quotient and remainder are the only ones that fit.
LEMMA UniqueDivision ==
  ASSUME NEW n \in Int, NEW d \in Nat \ {0}, NEW p \in Int, NEW e \in 0 .. d - 1,
         n = d * p + e
  PROVE  n \div d = p /\ n % d = e
<1> DEFINE q == n \div d
           u == n % d
<1>1. q \in Int /\ u \in 0 .. d - 1 /\ n = d * q + u
  BY Division
<1> HIDE DEF q, u
<1>2. d * p - d * q = u - e /\ d * p \in Int /\ d * q \in Int
  BY <1>1
<1>3. ASSUME p >= q + 1 PROVE FALSE
  <2>1. d * p >= d * (q + 1)
    BY <1>1, <1>3
  <2>2. d * (q + 1) = d * q + d
    BY <1>1
  <2> QED BY <1>1, <1>2, <2>1, <2>2
<1>4. ASSUME q >= p + 1 PROVE FALSE
  <2>1. d * q >= d * (p + 1)
    BY <1>1, <1>4
  <2>2. d * (p + 1) = d * p + d
    OBVIOUS
  <2> QED BY <1>1, <1>2, <2>1, <2>2
<1>5. p = q
  BY <1>1, <1>3, <1>4
<1> QED BY <1>1, <1>2, <1>5 DEF q, u

\* One more than limbs in normal form is in normal form, unless it is a power of the
\* modulus.
LEMMA SuccessorNormal ==
  ASSUME NEW s \in Limbs, NormalLimbs(s),
         Len(s) = MaxLimbs /\ (\A j \in 1 .. MaxLimbs - 1 : s[j] = Base - 1)
           => s[MaxLimbs] # TopLimb - 1
  PROVE  Successor(s) \in Limbs /\ NormalLimbs(Successor(s))
<1> DEFINE full == {k \in 1..Len(s) : \A j \in 1..k : s[j] = Base - 1}
           n == Smaller(MaxLimbs, IF Len(s) \in full THEN Len(s) + 1 ELSE Len(s))
           t == [k \in 1..n |-> IF k \in full THEN 0
                     ELSE IF k > 1 /\ k - 1 \notin full THEN s[k]
                     ELSE IF k > Len(s) THEN 1 ELSE s[k] + 1]
<1>1. /\ Len(s) \in 1..MaxLimbs /\ Len(s) \in Nat
      /\ \A k \in 1..Len(s) : s[k] \in Limb
  BY LimbsType
<1>2. /\ Base \in Nat /\ Base >= 2 /\ MaxLimbs \in Nat /\ MaxLimbs >= 2
      /\ TopLimb \in Nat /\ TopLimb >= 2 /\ TopLimb <= Base
  BY Sizes
<1>3. Len(s) = MaxLimbs => Len(s) \notin full
  <2>1. SUFFICES ASSUME Len(s) = MaxLimbs, Len(s) \in full PROVE FALSE
    OBVIOUS
  <2>2. \A j \in 1..MaxLimbs : s[j] = Base - 1
    BY <2>1
  <2>3. MaxLimbs \in 1..MaxLimbs /\ \A j \in 1 .. MaxLimbs - 1 : j \in 1..MaxLimbs
    BY <1>2
  <2>4. s[MaxLimbs] = Base - 1 /\ s[MaxLimbs] < TopLimb
    BY <2>1, <2>2, <2>3 DEF NormalLimbs
  <2> QED BY <1>2, <2>1, <2>2, <2>3, <2>4
<1>4. n = IF Len(s) \in full THEN Len(s) + 1 ELSE Len(s)
  BY <1>1, <1>2, <1>3 DEF Smaller
<1>5. n \in 1..MaxLimbs /\ n \in Nat
  BY <1>1, <1>2, <1>3, <1>4
<1>6. Successor(s) = t
  BY DEF Successor
<1>7. \A k \in 1..Len(s) : k \notin full /\ (k = 1 \/ k - 1 \in full) => s[k] # Base - 1
  <2>1. SUFFICES ASSUME NEW k \in 1..Len(s), k = 1 \/ k - 1 \in full, s[k] = Base - 1
                 PROVE  k \in full
    OBVIOUS
  <2>2. ASSUME NEW j \in 1..k PROVE s[j] = Base - 1
    <3>1. j = k \/ j \in 1 .. k - 1
      BY <1>1
    <3> QED BY <1>1, <2>1, <3>1
  <2> QED BY <2>2
<1> DEFINE e(k) == IF k \in full THEN 0
                   ELSE IF k > 1 /\ k - 1 \notin full THEN s[k]
                   ELSE IF k > Len(s) THEN 1 ELSE s[k] + 1
<1>8. ASSUME NEW k \in 1..n PROVE e(k) \in Limb
  <2>1. k \in 1..Len(s) \/ (k = Len(s) + 1 /\ Len(s) \in full /\ k > 1 /\ k - 1 = Len(s))
    BY <1>1, <1>4
  <2>2. CASE k \in 1..Len(s)
    <3>1. s[k] \in Limb /\ ~(k > Len(s))
      BY <1>1, <2>2
    <3>2. 0 \in Limb /\ (s[k] # Base - 1 => s[k] + 1 \in Limb)
      BY <1>2, <3>1 DEF Limb
    <3>3. ~(k > 1 /\ k - 1 \notin full) => k = 1 \/ k - 1 \in full
      BY <2>2
    <3> QED BY <1>7, <2>2, <3>1, <3>2, <3>3
  <2>3. CASE k = Len(s) + 1 /\ Len(s) \in full /\ k > 1 /\ k - 1 = Len(s)
    <3>0. k = Len(s) + 1
      BY <2>3
    <3>1. k > Len(s) /\ k \notin 1..Len(s) /\ 1 \in Limb
      BY <1>1, <1>2, <3>0 DEF Limb
    <3>2. k \notin full
      BY <3>1
    <3> QED BY <2>3, <3>1, <3>2
  <2> QED BY <2>1, <2>2, <2>3
<1>9. t \in [1..n -> Limb] /\ \A k \in 1..n : t[k] = e(k)
  BY <1>8
<1>10. t \in Limbs /\ Len(t) = n
  BY <1>5, <1>9, LimbsMade
<1>11. t[n] = e(n) /\ n \in 1..n
  BY <1>5, <1>9
<1> HIDE DEF t, n
<1>12. CASE Len(s) \in full
  <2>1. n = Len(s) + 1 /\ n > 1 /\ n \notin full /\ n - 1 \in full /\ n > Len(s)
    BY <1>1, <1>4, <1>12
  <2>2. t[n] = 1
    BY <1>11, <2>1
  <2> QED BY <1>2, <1>6, <1>10, <2>2 DEF NormalLimbs
<1>13. CASE Len(s) \notin full
  <2>1. n = Len(s) /\ n \notin full /\ ~(n > Len(s)) /\ n \in 1..Len(s)
    BY <1>1, <1>4, <1>13
  <2>2. CASE n > 1 /\ n - 1 \notin full
    <3>1. t[n] = s[n]
      BY <1>11, <2>1, <2>2
    <3> QED BY <1>6, <1>10, <2>1, <3>1 DEF NormalLimbs
  <2>3. CASE ~(n > 1 /\ n - 1 \notin full)
    <3>1. t[n] = s[n] + 1 /\ s[n] \in Limb
      BY <1>1, <1>11, <2>1, <2>3
    <3>2. t[n] # 0
      BY <1>2, <3>1 DEF Limb
    <3>3. ASSUME n = MaxLimbs PROVE t[n] < TopLimb
      <4>1. n > 1 /\ n - 1 \in full
        BY <1>2, <2>3, <3>3
      <4>2. \A j \in 1 .. MaxLimbs - 1 : s[j] = Base - 1
        BY <3>3, <4>1
      <4>3. s[n] < TopLimb /\ s[n] # TopLimb - 1
        BY <2>1, <3>3, <4>2 DEF NormalLimbs
      <4> QED BY <1>2, <3>1, <4>3 DEF Limb
    <3> QED BY <1>6, <1>10, <3>2, <3>3 DEF NormalLimbs
  <2> QED BY <2>2, <2>3
<1> QED BY <1>12, <1>13

\* The two's complement of a number other than zero is in normal form.
LEMMA ComplementNormal ==
  ASSUME NEW s \in Limbs, NormalLimbs(s)
  PROVE  s # <<0>> => complement(s) \in Limbs /\ NormalLimbs(complement(s))
<1> DEFINE c == [k \in 1..MaxLimbs |-> Base - 1 - (IF k <= Len(s) THEN s[k] ELSE 0)]
           n == normalized(c)
<1>0. HAVE s # <<0>>
<1>1. /\ Len(s) \in 1..MaxLimbs /\ Len(s) \in Nat /\ DOMAIN s = 1..Len(s)
      /\ \A k \in 1..Len(s) : s[k] \in Limb /\ s[k] \in Int
  BY LimbsType
<1>2. /\ Base \in Nat /\ Base >= 2 /\ MaxLimbs \in Nat /\ MaxLimbs >= 2
      /\ TopLimb \in Nat \ {0} /\ TopLimb >= 2 /\ TopLimb <= Base
  BY Sizes
<1>3. c \in [1..MaxLimbs -> Limb]
  <2>1. ASSUME NEW k \in 1..MaxLimbs
        PROVE  Base - 1 - (IF k <= Len(s) THEN s[k] ELSE 0) \in Limb
    <3>1. k <= Len(s) => s[k] \in Limb
      BY <1>1
    <3> QED BY <1>2, <3>1 DEF Limb
  <2> QED BY <2>1
<1>4. c \in Limbs /\ Len(c) = MaxLimbs
  BY <1>2, <1>3, LimbsMade
<1>5. \A k \in 1..MaxLimbs : c[k] = Base - 1 - (IF k <= Len(s) THEN s[k] ELSE 0)
  OBVIOUS
<1> HIDE DEF c
<1>6. /\ n \in Limbs /\ NormalLimbs(n) /\ Len(n) <= MaxLimbs
      /\ \A k \in 1..Len(n) : n[k] = IF k = MaxLimbs THEN c[MaxLimbs] % TopLimb ELSE c[k]
  BY <1>4, NormalizedLimbs
<1> HIDE DEF n
<1>7. ASSUME Len(n) = MaxLimbs, \A j \in 1 .. MaxLimbs - 1 : n[j] = Base - 1,
             n[MaxLimbs] = TopLimb - 1
      PROVE  FALSE
  <2>1. \A j \in 1 .. MaxLimbs - 1 : j \in 1..MaxLimbs /\ j # MaxLimbs /\ j \in 1..Len(n)
    BY <1>2, <1>7
  <2>2. \A j \in 1 .. MaxLimbs - 1 : j <= Len(s) => s[j] = 0
    <3>1. TAKE j \in 1 .. MaxLimbs - 1
    <3>2. HAVE j <= Len(s)
    <3>3. n[j] = c[j] /\ n[j] = Base - 1
      BY <1>6, <1>7, <2>1
    <3>4. c[j] = Base - 1 - s[j]
      BY <1>5, <2>1, <3>2
    <3>5. s[j] \in Int
      BY <1>1, <3>2
    <3>6. Base - 1 - s[j] = Base - 1
      BY <3>3, <3>4
    <3> QED BY <3>5, <3>6, Sizes
  <2>3. CASE Len(s) < MaxLimbs
    <3>1. Len(s) \in 1 .. MaxLimbs - 1
      BY <1>1, <1>2, <2>3
    <3>2. s[Len(s)] = 0
      BY <1>1, <2>2, <3>1
    <3>3. Len(s) = 1
      BY <1>1, <3>2 DEF NormalLimbs
    <3>4. s \in Seq(Limb) /\ s[1] = 0
      BY <3>2, <3>3, LimbsType
    <3>5. s = <<0>>
      BY <3>3, <3>4
    <3> QED BY <1>0, <3>5
  <2>4. CASE Len(s) = MaxLimbs
    <3> DEFINE v == s[MaxLimbs]
    <3>1. v \in Int /\ v > 0 /\ v < TopLimb
      <4>1. v \in Limb /\ v # 0 /\ v < TopLimb
        BY <1>1, <1>2, <2>4 DEF NormalLimbs
      <4> QED BY <1>2, <4>1 DEF Limb
    <3>2. MaxLimbs \in 1..MaxLimbs /\ MaxLimbs <= Len(s) /\ MaxLimbs \in 1..Len(n)
      BY <1>2, <1>7, <2>4
    <3>3. c[MaxLimbs] = Base - 1 - v
      BY <1>5, <3>2
    <3> HIDE DEF v
    <3>4. PICK q \in Int : Base = TopLimb * q
      <4>1. Base \div TopLimb \in Int /\ Base = TopLimb * (Base \div TopLimb) + (Base % TopLimb)
        BY <1>2, Division
      <4>2. TopLimb * (Base \div TopLimb) \in Int
        BY <1>2, <4>1
      <4>3. Base % TopLimb = 0
        BY SizesAssumption
      <4> QED BY <1>2, <4>1, <4>2, <4>3
    <3>5. TopLimb * (q - 1) = TopLimb * q - TopLimb /\ TopLimb * q \in Int
      BY <1>2
    <3>6. c[MaxLimbs] = TopLimb * (q - 1) + (TopLimb - 1 - v)
      BY <1>2, <3>1, <3>3, <3>4, <3>5
    <3>7. TopLimb - 1 - v \in 0 .. TopLimb - 1 /\ q - 1 \in Int /\ c[MaxLimbs] \in Int
      BY <1>2, <3>1, <3>3
    <3>8. c[MaxLimbs] % TopLimb = TopLimb - 1 - v
      BY <1>2, <3>6, <3>7, UniqueDivision
    <3>9. n[MaxLimbs] = TopLimb - 1 - v
      BY <1>6, <3>2, <3>8
    <3> QED BY <1>2, <1>7, <3>1, <3>9
  <2>5. Len(s) \in Int /\ Len(s) <= MaxLimbs
    BY <1>1, <1>2
  <2> QED BY <2>3, <2>4, <2>5, Sizes
<1>8. Successor(n) \in Limbs /\ NormalLimbs(Successor(n))
  BY <1>6, <1>7, SuccessorNormal
<1>9. complement(s) = Successor(n)
  BY DEF complement, n, c
<1> QED BY <1>8, <1>9

\* sign(neg) yields a number in normal form.
LEMMA SignedNormal ==
  ASSUME NEW s \in Limbs, NormalLimbs(s), NEW neg \in BOOLEAN, type \in Types
  PROVE  signed(s, neg) \in Number /\ Normal(signed(s, neg))
<1>1. Signed \in BOOLEAN
  BY TypesAssumption DEF Signed
<1>2. CASE Signed
  <2> DEFINE b == neg /\ s # <<0>>
  <2>1. signed(s, neg) = [limbs |-> s, sign |-> b]
    BY <1>2 DEF signed
  <2>2. b \in BOOLEAN /\ (b => s # <<0>>)
    OBVIOUS
  <2> HIDE DEF b
  <2>3. signed(s, neg).limbs = s /\ signed(s, neg).sign = b
    BY <2>1
  <2>4. signed(s, neg) \in Number
    BY <2>1, <2>2 DEF Number, Limbs
  <2> QED BY <1>2, <2>2, <2>3, <2>4 DEF Normal, NormalLimbs
<1>3. CASE ~Signed
  <2> DEFINE t == IF neg /\ s # <<0>> THEN complement(s) ELSE s
  <2>1. signed(s, neg) = [limbs |-> t, sign |-> FALSE]
    BY <1>3 DEF signed
  <2>2. t \in Limbs /\ NormalLimbs(t)
    BY ComplementNormal
  <2> HIDE DEF t
  <2> QED BY <2>1, <2>2 DEF Number, Limbs, Normal, NormalLimbs
<1> QED BY <1>1, <1>2, <1>3

----------------------------------------------------------------------------
(* The invariant. *)

\* The types of the variables, but for exact, which no step of the code reads
Typed ==
  /\ type \in Types
  /\ num \in [Obj -> Number] /\ before \in [Obj -> Number]
  /\ failed \in SUBSET Obj
  /\ pc \in Loops \cup {"idle"}
  /\ r \in Obj /\ a \in Obj /\ pa \in Obj /\ pb \in Obj
  /\ m \in 0..MaxLimbs /\ x \in 0..MaxLimbs /\ i \in 0 .. MaxLimbs + 1
  /\ carry \in Limb /\ swapped \in BOOLEAN

\* What a loop has not yet read is as it was given, and the sizes are right.
Running ==
  /\ \A y \in Obj : y # r => num[y] = before[y]
  /\ pa \notin failed /\ pb \notin failed
  /\ size(r) = x /\ Len(before[pa].limbs) = x
  /\ m <= x /\ m <= Len(before[pb].limbs)
  /\ i \in 1 .. x + 1
  /\ \A k \in i..x : at(pa, k) = before[pa].limbs[k]
  /\ \A k \in i..m : at(pb, k) = before[pb].limbs[k]
  /\ pc \in {"add", "subtract"} => carry \in {0, 1}
  /\ pc = "subtract_limb" => 2 <= i /\ i <= x

IInv ==
  /\ Typed
  /\ \A y \in Obj \ failed : Normal(before[y])
  /\ pc = "idle" => before = num
  /\ pc \in Loops => Running

\* All numbers other than z that have a value are in normal form.
OthersNormal(z) == \A y \in Obj : y # z /\ y \notin failed => Normal(num[y])

\* The numbers that no call is writing are in normal form.
LEMMA OthersAreNormal ==
  ASSUME IInv, NEW z \in Obj, pc = "idle" \/ z = r
  PROVE  OthersNormal(z)
<1>1. SUFFICES ASSUME NEW y \in Obj, y # z, y \notin failed PROVE Normal(num[y])
  BY DEF OthersNormal
<1>2. pc \in Loops \cup {"idle"}
  BY DEF IInv, Typed
<1>3. num[y] = before[y]
  BY <1>1, <1>2 DEF IInv, Running
<1> QED BY <1>1, <1>3 DEF IInv

\* The fields of a number
LEMMA NumberFields ==
  ASSUME NEW n \in Number
  PROVE  n.limbs \in Limbs /\ n.sign \in BOOLEAN
BY DEF Number, Limbs

\* New limbs for a number
LEMMA NewLimbs ==
  ASSUME NEW n \in Number, NEW s \in Limbs
  PROVE  /\ [n EXCEPT !.limbs = s] \in Number
         /\ [n EXCEPT !.limbs = s].limbs = s /\ [n EXCEPT !.limbs = s].sign = n.sign
BY DEF Number, Limbs

\* A number without its sign
LEMMA WithoutSign ==
  ASSUME NEW n \in Number
  PROVE  /\ [n EXCEPT !.sign = FALSE] \in Number
         /\ [n EXCEPT !.sign = FALSE].limbs = n.limbs /\ [n EXCEPT !.sign = FALSE].sign = FALSE
BY DEF Number

\* The end of a call
LEMMA FinishKeeps ==
  ASSUME Typed, NEW z \in Obj, OthersNormal(z), NEW n \in Number, NEW bad \in BOOLEAN,
         bad \/ Normal(n), Finish(z, n, bad)
  PROVE  IInv'
<1>1. Typed'
  <2>1. num' \in [Obj -> Number] /\ before' \in [Obj -> Number]
    BY DEF Typed, Finish
  <2>2. failed' \in SUBSET Obj
    BY DEF Typed, Finish
  <2>3. 0 \in 0..MaxLimbs /\ 0 \in 0 .. MaxLimbs + 1 /\ 0 \in Limb
    BY Sizes DEF Limb
  <2> QED BY <2>1, <2>2, <2>3 DEF Typed, Finish
<1>2. before' = num' /\ pc' = "idle" /\ num' = [num EXCEPT ![z] = n] /\ type' = type
  BY DEF Finish
<1>3. ASSUME NEW y \in Obj, y \notin failed' PROVE Normal(num[y])'
  <2>1. CASE y = z
    <3>1. Normal(n)
      BY <1>3, <2>1 DEF Finish
    <3>2. num'[y] = n
      BY <1>2, <2>1 DEF Typed
    <3> QED BY <1>2, <3>1, <3>2 DEF Normal, Signed
  <2>2. CASE y # z
    <3>1. y \notin failed
      BY <1>3, <2>2 DEF Finish
    <3>2. num'[y] = num[y] /\ Normal(num[y])
      BY <1>2, <2>2, <3>1 DEF Typed, OthersNormal
    <3> QED BY <1>2, <3>2 DEF Normal, Signed
  <2> QED BY <2>1, <2>2
<1>4. \A y \in Obj \ failed' : Normal(before[y])'
  BY <1>2, <1>3 DEF Normal, Signed
<1>5. pc' \notin Loops
  BY <1>2 DEF Loops
<1> QED BY <1>1, <1>2, <1>4, <1>5 DEF IInv

\* A result that is in normal form
LEMMA ReturnKeeps ==
  ASSUME Typed, NEW z \in Obj, OthersNormal(z), NEW n \in Number, Normal(n), Return(z, n)
  PROVE  IInv'
BY FinishKeeps DEF Return

\* An exception
LEMMA ThrowKeeps ==
  ASSUME Typed, NEW z \in Obj, OthersNormal(z), NEW s \in Limbs, Throw(z, s)
  PROVE  IInv'
<1>1. num[z] \in Number
  BY DEF Typed
<1>2. [num[z] EXCEPT !.limbs = s] \in Number
  BY <1>1, NewLimbs
<1> QED BY <1>2, FinishKeeps DEF Throw

\* normalize() and sign() at the end of a call
LEMMA DeliverKeeps ==
  ASSUME Typed, NEW z \in Obj, OthersNormal(z), NEW s \in Limbs, NEW neg \in BOOLEAN,
         Deliver(z, s, neg)
  PROVE  IInv'
<1>1. Throw(z, s) \/ Return(z, signed(normalized(s), neg))
  BY DEF Deliver
<1>2. normalized(s) \in Limbs /\ NormalLimbs(normalized(s))
  BY NormalizedLimbs
<1>3. signed(normalized(s), neg) \in Number /\ Normal(signed(normalized(s), neg))
  BY <1>2, SignedNormal DEF Typed
<1> QED BY <1>1, <1>3, ThrowKeeps, ReturnKeeps

\* A carry out of the last limb
LEMMA CarryOutKeeps ==
  ASSUME IInv, pc \in Loops, NEW s \in Limbs, CarryOut(s)
  PROVE  IInv'
<1>1. Typed /\ r \in Obj /\ a \in Obj /\ OthersNormal(r)
  BY OthersAreNormal DEF IInv, Typed
<1>2. num[a].sign \in BOOLEAN /\ carry \in Limb
  BY <1>1, NumberFields DEF Typed
<1>3. CASE Throw(r, s)
  BY <1>1, <1>3, ThrowKeeps
<1>4. CASE Deliver(r, s, num[a].sign)
  BY <1>1, <1>2, <1>4, DeliverKeeps
<1>5. CASE Len(s) # MaxLimbs /\ Deliver(r, Append(s, carry), num[a].sign)
  <2> DEFINE t == Append(s, carry)
  <2>1. s \in Seq(Limb) /\ Len(s) \in 1..MaxLimbs /\ Len(s) \in Nat
    BY LimbsType
  <2>2. t \in Seq(Limb) /\ Len(t) = Len(s) + 1
    BY <1>2, <2>1, AppendProperties
  <2>3. Len(t) \in 1..MaxLimbs
    BY <1>5, <2>1, <2>2, Sizes
  <2>4. t \in [1..Len(t) -> Limb]
    BY <2>2, LenProperties
  <2>5. t \in Limbs
    BY <2>3, <2>4, LimbsMade
  <2> QED BY <1>1, <1>2, <1>5, <2>5, DeliverKeeps
<1> QED BY <1>3, <1>4, <1>5 DEF CarryOut

----------------------------------------------------------------------------
(* The loops. *)

\* The limbs that a loop reads next are limbs, those that the call was given.
LEMMA NextLimbs ==
  ASSUME IInv, pc \in Loops
  PROVE  /\ \A k \in i..x : at(pa, k) = before[pa].limbs[k] /\ at(pa, k) \in Limb
         /\ \A k \in i..m : at(pb, k) = before[pb].limbs[k] /\ at(pb, k) \in Limb
         /\ i \in Int /\ i >= 1 /\ i <= x + 1 /\ x \in Int /\ x <= MaxLimbs /\ m \in Int /\ m <= x
<1>1. Typed /\ Running
  BY DEF IInv
<1>2. pa \in Obj /\ pb \in Obj /\ before[pa].limbs \in Limbs /\ before[pb].limbs \in Limbs
  BY <1>1, NumberFields DEF Typed
<1>3. /\ \A k \in 1..Len(before[pa].limbs) : before[pa].limbs[k] \in Limb
      /\ \A k \in 1..Len(before[pb].limbs) : before[pb].limbs[k] \in Limb
  BY <1>2, LimbsType
<1>4. /\ i \in Int /\ i >= 1 /\ i <= x + 1 /\ x \in Int /\ x <= MaxLimbs
      /\ m \in Int /\ m <= x
  BY <1>1, Sizes DEF Typed, Running
<1>5. /\ Len(before[pa].limbs) = x /\ Len(before[pb].limbs) \in Nat
      /\ m <= Len(before[pb].limbs)
  BY <1>1, <1>2, LimbsType DEF Running
<1>6. ASSUME NEW k \in i..x PROVE at(pa, k) = before[pa].limbs[k] /\ at(pa, k) \in Limb
  <2>1. k \in 1..Len(before[pa].limbs)
    BY <1>4, <1>5
  <2> QED BY <1>1, <1>3, <2>1 DEF Running
<1>7. ASSUME NEW k \in i..m PROVE at(pb, k) = before[pb].limbs[k] /\ at(pb, k) \in Limb
  <2>1. k \in 1..Len(before[pb].limbs)
    BY <1>4, <1>5
  <2> QED BY <1>1, <1>3, <2>1 DEF Running
<1> QED BY <1>4, <1>6, <1>7

\* One more limb of the result: whatever is written, the limbs after it are not.
LEMMA StoreKeeps ==
  ASSUME IInv, pc \in Loops, i <= x, NEW l \in Limb, NEW c \in Limb,
         pc \in {"add", "subtract"} => c \in {0, 1},
         pc = "subtract_limb" => i + 1 <= x,
         Store(l, i + 1, c)
  PROVE  IInv'
<1>1. Typed /\ Running /\ r \in Obj /\ num[r] \in Number
  BY DEF IInv, Typed
<1>2. i \in Int /\ i >= 1 /\ i <= x /\ x \in Int /\ x <= MaxLimbs /\ m \in Int /\ m <= x
  BY NextLimbs
<1> DEFINE s == num[r].limbs
           t == [s EXCEPT ![i] = l]
<1>3. s \in [1..x -> Limb] /\ Len(s) = x /\ s \in Limbs
  BY <1>1, NumberFields, LimbsType DEF Running, size
<1>4. i \in 1..x /\ x \in 1..MaxLimbs
  BY <1>2, Sizes
<1>5. /\ t \in [1..x -> Limb] /\ t[i] = l
      /\ \A k \in 1..x : k # i => t[k] = s[k]
  BY <1>3, <1>4
<1>6. t \in Limbs /\ Len(t) = x
  BY <1>4, <1>5, LimbsMade
<1>7. /\ num' = [num EXCEPT ![r] = [num[r] EXCEPT !.limbs = t]]
      /\ i' = i + 1 /\ carry' = c
      /\ type' = type /\ before' = before /\ failed' = failed /\ pc' = pc
      /\ r' = r /\ a' = a /\ pa' = pa /\ pb' = pb /\ m' = m /\ x' = x /\ swapped' = swapped
  BY DEF Store, args
<1> HIDE DEF t, s
<1>8. /\ num' \in [Obj -> Number]
      /\ num'[r].limbs = t /\ \A y \in Obj : y # r => num'[y] = num[y]
  BY <1>1, <1>6, <1>7, NewLimbs DEF Typed
<1>9. i' \in 0 .. MaxLimbs + 1 /\ i' \in 1 .. x + 1 /\ i' = i + 1
  BY <1>2, <1>7, Sizes
<1>10. Typed'
  BY <1>1, <1>7, <1>8, <1>9 DEF Typed
<1>11. ASSUME NEW y \in Obj, NEW k \in i + 1 .. x, num[y].limbs[k] = before[y].limbs[k]
       PROVE  num'[y].limbs[k] = before[y].limbs[k]
  <2>1. k \in 1..x /\ k # i
    BY <1>2
  <2> QED BY <1>5, <1>8, <1>11, <2>1 DEF s
<1>12. (\A k \in i..x : at(pa, k) = before[pa].limbs[k])'
  <2>1. SUFFICES ASSUME NEW k \in i + 1 .. x PROVE num'[pa].limbs[k] = before[pa].limbs[k]
    BY <1>7 DEF at
  <2>2. k \in i..x
    BY <1>2
  <2> QED BY <1>1, <1>11, <2>2 DEF Running, at, Typed
<1>13. (\A k \in i..m : at(pb, k) = before[pb].limbs[k])'
  <2>1. SUFFICES ASSUME NEW k \in i + 1 .. m PROVE num'[pb].limbs[k] = before[pb].limbs[k]
    BY <1>7 DEF at
  <2>2. k \in i..m /\ k \in i + 1 .. x
    BY <1>2
  <2> QED BY <1>1, <1>11, <2>2 DEF Running, at, Typed
<1>14. (size(r) = x)'
  BY <1>6, <1>7, <1>8 DEF size
<1>15. (pc = "subtract_limb" => 2 <= i /\ i <= x)'
  BY <1>2, <1>7
<1>16. Running'
  BY <1>1, <1>7, <1>8, <1>9, <1>12, <1>13, <1>14, <1>15 DEF Running
<1>17. (\A y \in Obj \ failed : Normal(before[y]))'
  BY <1>7 DEF IInv, Normal, Signed
<1>18. pc # "idle"
  BY DEF Loops
<1> QED BY <1>7, <1>10, <1>16, <1>17, <1>18 DEF IInv

\* The rest of the limbs is copied.
LEMMA CopiedLimbs ==
  ASSUME IInv, pc \in Loops
  PROVE  /\ CopiedFrom(i) \in Limbs /\ Len(CopiedFrom(i)) = x
         /\ CopiedFrom(i) \in [1..x -> Limb]
<1>1. Typed /\ Running /\ r \in Obj /\ num[r] \in Number
  BY DEF IInv, Typed
<1>2. /\ i \in Int /\ i >= 1 /\ i <= x + 1 /\ x \in Int /\ x <= MaxLimbs
      /\ \A k \in i..x : at(pa, k) \in Limb
  BY NextLimbs
<1>3. num[r].limbs \in Limbs /\ size(r) = x
  BY <1>1, NumberFields DEF Running
<1>4. x \in 1..MaxLimbs /\ \A k \in 1..x : at(r, k) \in Limb
  BY <1>3, LimbsType DEF size, at
<1>5. \A k \in 1..x : k < i \/ k \in i..x
  BY <1>2
<1>6. CopiedFrom(i) \in [1..x -> Limb]
  BY <1>2, <1>3, <1>4, <1>5 DEF CopiedFrom
<1> QED BY <1>4, <1>6, LimbsMade

\* The last digit of an integer
LEMMA LastDigit ==
  ASSUME NEW n \in Int
  PROVE  n % Base \in Limb
<1>1. Base \in Nat \ {0}
  BY Sizes
<1> QED BY <1>1, Division DEF Limb

\* A sum of digits and a carry
LEMMA DigitSum ==
  ASSUME NEW u \in Limb, NEW v \in Limb, NEW c \in {0, 1}
  PROVE  LET sum == c + u + v IN sum % Base \in Limb /\ sum \div Base \in {0, 1}
<1> DEFINE sum == c + u + v
           q == sum \div Base
<1>1. sum \in Int /\ sum >= 0 /\ sum < 2 * Base
  BY Sizes DEF Limb
<1>2. q \in Int /\ sum % Base \in Limb /\ sum = Base * q + (sum % Base)
  BY <1>1, Sizes, Division, SMTT(60) DEF Limb
<1> DEFINE e == sum % Base
<1>3. e \in Int /\ 0 <= e /\ e < Base /\ sum = Base * q + e
  BY <1>2, Sizes DEF Limb
<1> HIDE DEF sum, q, e
<1>4. ASSUME q >= 2 PROVE FALSE
  <2>1. Base * q >= Base * 2
    BY <1>2, <1>4, Sizes
  <2>2. Base * q \in Int
    BY <1>2, Sizes
  <2> QED BY <1>1, <1>3, <2>1, <2>2, Sizes
<1>5. ASSUME q <= -1 PROVE FALSE
  <2>1. Base * q <= Base * (-1)
    BY <1>2, <1>5, Sizes
  <2>2. Base * q \in Int
    BY <1>2, Sizes
  <2> QED BY <1>1, <1>3, <2>1, <2>2, Sizes
<1>6. q \in {0, 1}
  BY <1>2, <1>4, <1>5
<1> QED BY <1>2, <1>6 DEF q, sum, e

\* Each step of a loop, and the end of each loop, keeps the invariant.
LEMMA StepKeeps ==
  ASSUME IInv, Step
  PROVE  IInv'
<1>1. pc \in Loops
  BY DEF Step, AddOverlap, AddTail, AddEnd, AddLimbStep, AddLimbEnd, SubtractOverlap,
         SubtractTail, SubtractEnd, SubtractLimbStep, SubtractLimbEnd, Loops
<1>2. /\ \A k \in i..x : at(pa, k) = before[pa].limbs[k] /\ at(pa, k) \in Limb
      /\ \A k \in i..m : at(pb, k) \in Limb
      /\ i \in Int /\ i >= 1 /\ i <= x + 1 /\ x \in Int /\ x <= MaxLimbs /\ m \in Int /\ m <= x
  BY <1>1, NextLimbs
<1>3. Typed /\ Running /\ r \in Obj /\ a \in Obj /\ carry \in Limb
  BY <1>1 DEF IInv, Typed
<1>4. num[a].sign \in BOOLEAN /\ swapped \in BOOLEAN
  BY <1>3, NumberFields DEF Typed
<1>5. OthersNormal(r)
  BY <1>3, OthersAreNormal
<1>6. CopiedFrom(i) \in Limbs /\ CopiedFrom(i) \in [1..x -> Limb] /\ Len(CopiedFrom(i)) = x
  BY <1>1, CopiedLimbs
<1>7. 0 \in Limb /\ 1 \in Limb /\ Base - 1 \in Limb /\ \A c \in {0, 1} : c \in Limb
  BY Sizes DEF Limb
<1>8. i <= x => at(pa, i) \in Limb
  BY <1>2
<1>9. CASE AddOverlap
  <2>1. pc = "add" /\ i <= m /\ i <= x
    BY <1>2, <1>9 DEF AddOverlap
  <2>2. carry \in {0, 1} /\ at(pa, i) \in Limb /\ at(pb, i) \in Limb
    BY <1>2, <1>3, <2>1 DEF Running
  <2> DEFINE sum == carry + at(pa, i) + at(pb, i)
  <2>3. sum % Base \in Limb /\ sum \div Base \in {0, 1}
    BY <2>2, DigitSum
  <2>4. Store(sum % Base, i + 1, sum \div Base)
    BY <1>9 DEF AddOverlap
  <2> HIDE DEF sum
  <2> QED BY <1>1, <1>7, <2>1, <2>3, <2>4, StoreKeeps
<1>10. CASE AddTail
  <2>1. pc = "add" /\ i <= x
    BY <1>10 DEF AddTail
  <2>2. carry \in {0, 1} /\ at(pa, i) \in Limb
    BY <1>3, <1>8, <2>1 DEF Running
  <2> DEFINE sum == carry + at(pa, i)
  <2>3. sum = carry + at(pa, i) + 0
    BY <1>3, <2>2, Sizes DEF Limb
  <2>4. sum % Base \in Limb /\ sum \div Base \in {0, 1}
    BY <1>7, <2>2, <2>3, DigitSum
  <2>5. Store(sum % Base, i + 1, sum \div Base)
    BY <1>10 DEF AddTail
  <2> HIDE DEF sum
  <2> QED BY <1>1, <1>7, <2>1, <2>4, <2>5, StoreKeeps
<1>11. CASE AddEnd
  BY <1>1, <1>6, <1>11, CarryOutKeeps DEF AddEnd
<1>12. CASE AddLimbStep
  <2>1. pc = "add_limb" /\ i <= x
    BY <1>12 DEF AddLimbStep
  <2> DEFINE sum == carry + at(pa, i)
  <2>2. sum = 0 + carry + at(pa, i)
    BY <1>3, <1>8, <2>1, Sizes DEF Limb
  <2>3. sum % Base \in Limb /\ sum \div Base \in {0, 1}
    BY <1>3, <1>8, <2>1, <2>2, DigitSum
  <2>4. Store(sum % Base, i + 1, sum \div Base)
    BY <1>12 DEF AddLimbStep
  <2> HIDE DEF sum
  <2> QED BY <1>1, <1>7, <2>1, <2>3, <2>4, StoreKeeps
<1>13. CASE AddLimbEnd
  BY <1>1, <1>6, <1>13, CarryOutKeeps DEF AddLimbEnd
<1>14. CASE SubtractOverlap
  <2>1. pc = "subtract" /\ i <= m /\ i <= x
    BY <1>2, <1>14 DEF SubtractOverlap
  <2> DEFINE d == at(pa, i) - at(pb, i) - carry
             c == IF d < 0 THEN 1 ELSE 0
  <2>2. at(pa, i) \in Limb /\ at(pb, i) \in Limb
    BY <1>2, <2>1
  <2>3. d \in Int
    BY <1>3, <2>2, Sizes DEF Limb
  <2>4. d % Base \in Limb /\ c \in {0, 1}
    BY <2>3, LastDigit
  <2>5. Store(d % Base, i + 1, c)
    BY <1>14 DEF SubtractOverlap
  <2> HIDE DEF d, c
  <2> QED BY <1>1, <1>7, <2>1, <2>4, <2>5, StoreKeeps
<1>15. CASE SubtractTail
  <2>1. pc = "subtract" /\ i <= x
    BY <1>15 DEF SubtractTail
  <2> DEFINE d == at(pa, i) - carry
             c == IF d < 0 THEN 1 ELSE 0
  <2>2. d \in Int
    BY <1>3, <1>8, <2>1, Sizes DEF Limb
  <2>3. d % Base \in Limb /\ c \in {0, 1}
    BY <2>2, LastDigit
  <2>4. Store(d % Base, i + 1, c)
    BY <1>15 DEF SubtractTail
  <2> HIDE DEF d, c
  <2> QED BY <1>1, <1>7, <2>1, <2>3, <2>4, StoreKeeps
<1>16. CASE SubtractEnd
  <2> DEFINE neg == num[a].sign # swapped
  <2>1. neg \in BOOLEAN
    OBVIOUS
  <2>2. Deliver(r, CopiedFrom(i), neg)
    BY <1>16 DEF SubtractEnd
  <2> HIDE DEF neg
  <2> QED BY <1>3, <1>5, <1>6, <2>1, <2>2, DeliverKeeps
<1>17. CASE SubtractLimbStep
  <2>1. pc = "subtract_limb" /\ at(pa, i) = 0 /\ 2 <= i /\ i <= x
    BY <1>3, <1>17 DEF SubtractLimbStep, Running
  <2>2. i # x
    <3>1. SUFFICES ASSUME i = x PROVE FALSE
      OBVIOUS
    <3>2. before[pa].limbs[x] = 0
      BY <1>2, <2>1, <3>1
    <3>3. Normal(before[pa]) /\ Len(before[pa].limbs) = x
      BY <1>3 DEF IInv, Running, Typed
    <3> QED BY <1>2, <2>1, <3>2, <3>3 DEF Normal
  <2>3. i + 1 <= x
    <3>1. i \in Int /\ x \in Int /\ i <= x
      BY <1>2, <2>1
    <3> QED BY <2>2, <3>1
  <2>4. Store(Base - 1, i + 1, 1)
    BY <1>17 DEF SubtractLimbStep
  <2> QED BY <1>1, <1>7, <2>1, <2>3, <2>4, StoreKeeps
<1>18. CASE SubtractLimbEnd
  <2>1. pc = "subtract_limb" /\ at(pa, i) # 0 /\ i <= x
    BY <1>3, <1>18 DEF SubtractLimbEnd, Running
  <2> DEFINE t == [CopiedFrom(i) EXCEPT ![i] = at(pa, i) - 1]
  <2>2. at(pa, i) - 1 \in Limb
    BY <1>8, <2>1, Sizes DEF Limb
  <2>6. i \in 1..x /\ x \in 1..MaxLimbs
    <3>1. i \in Int /\ x \in Int /\ i >= 1 /\ i <= x /\ x <= MaxLimbs
      BY <1>2, <2>1
    <3> QED BY <3>1, Sizes
  <2>3. t \in [1..x -> Limb] /\ x \in 1..MaxLimbs
    BY <1>6, <2>2, <2>6
  <2>4. t \in Limbs
    BY <2>3, LimbsMade
  <2>5. Deliver(r, t, num[a].sign)
    BY <1>18 DEF SubtractLimbEnd
  <2> HIDE DEF t
  <2> QED BY <1>3, <1>4, <1>5, <2>4, <2>5, DeliverKeeps
<1> QED BY <1>9, <1>10, <1>11, <1>12, <1>13, <1>14, <1>15, <1>16, <1>17, <1>18 DEF Step

----------------------------------------------------------------------------
(* The beginning of a call. *)

\* A number that a call reads has a value, and is in normal form.
LEMMA ReadableNumber ==
  ASSUME IInv, pc = "idle", NEW y \in Readable
  PROVE  /\ y \in Obj /\ y \notin failed /\ num[y] \in Number /\ Normal(num[y])
         /\ num[y].limbs \in Limbs /\ NormalLimbs(num[y].limbs) /\ num[y].sign \in BOOLEAN
         /\ size(y) \in 1..MaxLimbs /\ size(y) \in Nat
         /\ \A k \in 1..size(y) : num[y].limbs[k] \in Limb
<1>1. y \in Obj /\ y \notin failed /\ num[y] \in Number /\ Normal(num[y])
  BY DEF IInv, Typed, Readable
<1>2. num[y].limbs \in Limbs /\ num[y].sign \in BOOLEAN
  BY <1>1, NumberFields
<1>3. /\ size(y) \in 1..MaxLimbs /\ size(y) \in Nat
      /\ \A k \in 1..size(y) : num[y].limbs[k] \in Limb
  BY <1>2, LimbsType DEF size
<1> QED BY <1>1, <1>2, <1>3 DEF Normal, NormalLimbs

\* A loop begins: its result has its size, also if it is one of the operands.
LEMMA EnterKeeps ==
  ASSUME IInv, pc = "idle", NEW l \in Loops, NEW z \in Obj, NEW y \in Obj,
         NEW n \in 1..MaxLimbs, NEW t \in [1..n -> Limb], NEW k \in 1..n, NEW c \in Limb,
         \A j \in k..Smaller(n, size(z)) : t[j] = num[z].limbs[j],
         NEW p \in Readable, NEW q \in Readable, size(p) = n,
         NEW s \in Nat, s <= n, s <= size(q),
         l \in {"add", "subtract"} => c \in {0, 1},
         l = "subtract_limb" => 2 <= k,
         Enter(l, z, y, t, k, c),
         m' = s, x' = n, pa' = p, pb' = q, swapped' \in BOOLEAN
  PROVE  IInv'
<1>1. /\ n \in Int /\ n >= 1 /\ n <= MaxLimbs /\ k \in Int /\ k >= 1 /\ k <= n
      /\ MaxLimbs \in Int
  BY Sizes
<1>2. Typed /\ before = num /\ num[z] \in Number
  BY DEF IInv, Typed
<1>3. p \in Obj /\ q \in Obj /\ p \notin failed /\ q \notin failed /\ size(q) \in Nat
  BY ReadableNumber
<1>4. t \in Limbs /\ Len(t) = n
  BY LimbsMade
<1>5. /\ num' = [num EXCEPT ![z] = [num[z] EXCEPT !.limbs = t]]
      /\ pc' = l /\ r' = z /\ a' = y /\ i' = k /\ carry' = c
      /\ type' = type /\ before' = before /\ failed' = failed
  BY DEF Enter
<1>6. /\ num' \in [Obj -> Number]
      /\ num'[z].limbs = t /\ \A w \in Obj : w # z => num'[w] = num[w]
  BY <1>2, <1>4, <1>5, NewLimbs DEF Typed
<1>7. Typed'
  <2>1. s \in 0..MaxLimbs /\ n \in 0..MaxLimbs /\ k \in 0 .. MaxLimbs + 1
    BY <1>1
  <2> QED BY <1>2, <1>3, <1>5, <1>6, <2>1 DEF Typed
<1>8. size(z) \in Nat
  <2>1. num[z].limbs \in Limbs
    BY <1>2, NumberFields
  <2> QED BY <2>1, LimbsType DEF size
<1>9. ASSUME NEW w \in Obj, NEW j \in k..n, j <= size(w)
      PROVE  num'[w].limbs[j] = num[w].limbs[j]
  <2>1. CASE w = z
    <3>1. j \in k..Smaller(n, size(z))
      BY <1>1, <1>8, <1>9, <2>1 DEF Smaller
    <3> QED BY <1>6, <2>1, <3>1
  <2>2. CASE w # z
    BY <1>6, <2>2
  <2> QED BY <2>1, <2>2
<1>10. \A j \in k..n : num'[p].limbs[j] = num[p].limbs[j]
  <2>1. TAKE j \in k..n
  <2>2. j <= size(p)
    BY <1>1
  <2> QED BY <1>3, <1>9, <2>2
<1>11. \A j \in k..s : num'[q].limbs[j] = num[q].limbs[j]
  <2>1. TAKE j \in k..s
  <2>2. j \in k..n /\ j <= size(q)
    BY <1>1, <1>3
  <2> QED BY <1>3, <1>9, <2>2
<1>12. Running'
  <2>1. (\A w \in Obj : w # r => num[w] = before[w])'
    BY <1>2, <1>5, <1>6
  <2>2. (pa \notin failed /\ pb \notin failed)'
    BY <1>3, <1>5
  <2>3. (size(r) = x /\ Len(before[pa].limbs) = x)'
    BY <1>2, <1>4, <1>5, <1>6 DEF size
  <2>4. (m <= x /\ m <= Len(before[pb].limbs))'
    BY <1>2, <1>5 DEF size
  <2>5. (i \in 1 .. x + 1)'
    BY <1>1, <1>5
  <2>6. (\A j \in i..x : at(pa, j) = before[pa].limbs[j])'
    BY <1>2, <1>5, <1>10 DEF at
  <2>7. (\A j \in i..m : at(pb, j) = before[pb].limbs[j])'
    BY <1>2, <1>5, <1>11 DEF at
  <2>8. (pc \in {"add", "subtract"} => carry \in {0, 1})'
    BY <1>5
  <2>9. (pc = "subtract_limb" => 2 <= i /\ i <= x)'
    BY <1>1, <1>5
  <2> QED BY <2>1, <2>2, <2>3, <2>4, <2>5, <2>6, <2>7, <2>8, <2>9 DEF Running
<1>13. (\A w \in Obj \ failed : Normal(before[w]))'
  BY <1>5 DEF IInv, Normal, Signed
<1>14. pc' # "idle"
  BY <1>5 DEF Loops
<1> QED BY <1>7, <1>12, <1>13, <1>14 DEF IInv

\* A sequence of one limb, or of two
LEMMA FewLimbs ==
  ASSUME NEW u \in Limb
  PROVE  /\ <<u>> \in Limbs /\ NormalLimbs(<<u>>)
         /\ <<u, 1>> \in Limbs /\ NormalLimbs(<<u, 1>>)
<1>1. /\ 1 \in 1..MaxLimbs /\ 2 \in 1..MaxLimbs /\ 1 \in Limb /\ MaxLimbs # 1
      /\ 1 < TopLimb
  BY Sizes DEF Limb
<1>2. <<u>> \in [1..1 -> Limb] /\ Len(<<u>>) = 1
  OBVIOUS
<1>3. <<u, 1>> \in [1..2 -> Limb] /\ Len(<<u, 1>>) = 2 /\ <<u, 1>>[2] = 1
  BY <1>1
<1>4. <<u>> \in Limbs /\ <<u, 1>> \in Limbs
  BY <1>1, <1>2, <1>3, LimbsMade
<1> QED BY <1>1, <1>2, <1>3, <1>4 DEF NormalLimbs

\* A new lowest limb
LEMMA NewLow ==
  ASSUME NEW s \in Limbs, NormalLimbs(s), NEW u \in Limb
  PROVE  /\ [s EXCEPT ![1] = u] \in Limbs /\ NormalLimbs([s EXCEPT ![1] = u])
         /\ [s EXCEPT ![1] = u] = <<0>> => u = 0
<1> DEFINE t == [s EXCEPT ![1] = u]
<1>1. Len(s) \in 1..MaxLimbs /\ Len(s) \in Nat /\ s \in [1..Len(s) -> Limb] /\ MaxLimbs # 1
  BY LimbsType, Sizes
<1>2. 1 \in 1..Len(s)
  BY <1>1
<1>3. t \in [1..Len(s) -> Limb] /\ t[1] = u /\ \A k \in 1..Len(s) : k # 1 => t[k] = s[k]
  BY <1>1, <1>2
<1>4. t \in Limbs /\ Len(t) = Len(s)
  BY <1>1, <1>3, LimbsMade
<1> HIDE DEF t
<1>5. NormalLimbs(t)
  <2>1. ASSUME Len(t) > 1 PROVE t[Len(t)] # 0
    <3>1. Len(s) \in 1..Len(s) /\ Len(s) # 1
      BY <1>1, <1>4, <2>1
    <3> QED BY <1>3, <1>4, <2>1, <3>1 DEF NormalLimbs
  <2>2. ASSUME Len(t) = MaxLimbs PROVE t[MaxLimbs] < TopLimb
    <3>1. MaxLimbs \in 1..Len(s)
      BY <1>1, <1>4, <2>2
    <3> QED BY <1>1, <1>3, <1>4, <2>2, <3>1 DEF NormalLimbs
  <2> QED BY <2>1, <2>2 DEF NormalLimbs
<1>6. t = <<0>> => u = 0
  BY <1>3
<1> QED BY <1>4, <1>5, <1>6 DEF t

\* add_unsigned(result, a, b)
LEMMA AddKeeps ==
  ASSUME IInv, pc = "idle", NEW z \in Obj, NEW y \in Readable, NEW w \in Readable,
         add_unsigned(z, y, w)
  PROVE  IInv'
<1> DEFINE n == Larger(size(y), size(w))
           s == Smaller(size(y), size(w))
           sum == num[y].limbs[1] + num[w].limbs[1]
           p == IF size(y) < size(w) THEN w ELSE y
           q == IF size(y) < size(w) THEN y ELSE w
<1>1. Typed /\ OthersNormal(z)
  BY OthersAreNormal DEF IInv
<1>2. /\ y \in Obj /\ num[y].sign \in BOOLEAN
      /\ size(y) \in 1..MaxLimbs /\ size(y) \in Nat
      /\ size(w) \in 1..MaxLimbs /\ size(w) \in Nat
      /\ \A k \in 1..size(y) : num[y].limbs[k] \in Limb
      /\ \A k \in 1..size(w) : num[w].limbs[k] \in Limb
  BY ReadableNumber
<1>3. 1 \in 1..size(y) /\ 1 \in 1..size(w)
  BY <1>2
<1>4. num[y].limbs[1] \in Limb /\ num[w].limbs[1] \in Limb
  BY <1>2, <1>3
<1>5. /\ n \in 1..MaxLimbs /\ s \in Nat /\ s <= n /\ s <= size(q) /\ size(p) = n
      /\ p \in Readable /\ q \in Readable
  BY <1>2 DEF Larger, Smaller
<1>6. CASE n = 1
  <2> DEFINE t == IF sum < Base THEN <<sum>> ELSE <<sum % Base, 1>>
  <2>1. t \in Limbs /\ NormalLimbs(t)
    <3>1. sum \in Int /\ sum >= 0
      BY <1>4, Sizes DEF Limb
    <3>2. sum < Base => sum \in Limb
      BY <3>1, Sizes DEF Limb
    <3>3. sum % Base \in Limb
      BY <3>1, LastDigit
    <3> HIDE DEF sum
    <3> QED BY <3>2, <3>3, FewLimbs
  <2>2. Return(z, signed(t, num[y].sign))
    BY <1>6 DEF add_unsigned
  <2> HIDE DEF t
  <2>3. signed(t, num[y].sign) \in Number /\ Normal(signed(t, num[y].sign))
    BY <1>1, <1>2, <2>1, SignedNormal DEF Typed
  <2> QED BY <1>1, <2>2, <2>3, ReturnKeeps
<1>7. CASE n # 1
  <2>1. PICK t \in resized(num[z].limbs, n) : Enter("add", z, y, t, 1, 0)
    BY <1>7 DEF add_unsigned
  <2>2. /\ t \in [1..n -> Limb]
        /\ \A j \in 1..Smaller(n, size(z)) : t[j] = num[z].limbs[j]
    BY <2>1 DEF resized, size
  <2>3. m' = s /\ x' = n /\ pa' = p /\ pb' = q /\ swapped' \in BOOLEAN
    BY <1>7 DEF add_unsigned
  <2>4. 1 \in 1..n /\ 0 \in Limb /\ "add" \in Loops
    BY <1>5, Sizes DEF Limb, Loops
  <2> HIDE DEF n, s, p, q
  <2> QED BY <1>2, <1>5, <2>1, <2>2, <2>3, <2>4, EnterKeeps
<1> QED BY <1>6, <1>7

\* subtract_unsigned(result, a, b)
LEMMA SubtractKeeps ==
  ASSUME IInv, pc = "idle", NEW z \in Obj, NEW y \in Readable, NEW w \in Readable,
         subtract_unsigned(z, y, w)
  PROVE  IInv'
<1> DEFINE n == Larger(size(y), size(w))
           s == Smaller(size(y), size(w))
           less == less_unsigned(num[y].limbs, num[w].limbs)
           al == num[y].limbs[1]
           bl == num[w].limbs[1]
           p == IF less THEN w ELSE y
           q == IF less THEN y ELSE w
<1>1. Typed /\ OthersNormal(z)
  BY OthersAreNormal DEF IInv
<1>2. /\ y \in Obj /\ num[y].sign \in BOOLEAN
      /\ size(y) \in 1..MaxLimbs /\ size(y) \in Nat
      /\ size(w) \in 1..MaxLimbs /\ size(w) \in Nat
      /\ \A k \in 1..size(y) : num[y].limbs[k] \in Limb
      /\ \A k \in 1..size(w) : num[w].limbs[k] \in Limb
  BY ReadableNumber
<1>3. al \in Limb /\ bl \in Limb
  BY <1>2
<1>4. /\ less => size(y) <= size(w)
      /\ ~less => size(w) <= size(y)
  BY <1>2 DEF less_unsigned, size
<1>5. /\ n \in 1..MaxLimbs /\ s \in Nat /\ s <= n /\ s <= size(q) /\ size(p) = n
      /\ p \in Readable /\ q \in Readable
  <2> HIDE DEF less
  <2> QED BY <1>2, <1>4 DEF Larger, Smaller
<1>6. CASE n = 1
  <2> DEFINE neg == num[y].sign # (bl > al)
             d == IF bl > al THEN bl - al ELSE al - bl
  <2>1. d \in Limb
    BY <1>3, Sizes DEF Limb
  <2>2. neg \in BOOLEAN
    OBVIOUS
  <2>3. Deliver(z, <<d>>, neg)
    BY <1>6 DEF subtract_unsigned
  <2> HIDE DEF d, neg
  <2>4. <<d>> \in Limbs
    BY <2>1, FewLimbs
  <2> QED BY <1>1, <2>2, <2>3, <2>4, DeliverKeeps
<1>7. CASE n # 1 /\ num[y].limbs = num[w].limbs
  <2>1. Return(z, Zero)
    BY <1>7 DEF subtract_unsigned
  <2>2. 0 \in Limb
    BY Sizes DEF Limb
  <2>3. <<0>> \in Limbs /\ NormalLimbs(<<0>>)
    BY <2>2, FewLimbs
  <2>4. Zero \in Number /\ Normal(Zero)
    BY <2>3 DEF Zero, Number, Limbs, Normal, NormalLimbs
  <2> QED BY <1>1, <2>1, <2>4, ReturnKeeps
<1>8. CASE n # 1 /\ num[y].limbs # num[w].limbs
  <2>1. PICK t \in resized(num[z].limbs, n) : Enter("subtract", z, y, t, 1, 0)
    BY <1>8 DEF subtract_unsigned
  <2>2. /\ t \in [1..n -> Limb]
        /\ \A j \in 1..Smaller(n, size(z)) : t[j] = num[z].limbs[j]
    BY <2>1 DEF resized, size
  <2>3. m' = s /\ x' = n /\ pa' = p /\ pb' = q /\ swapped' = less
    BY <1>8 DEF subtract_unsigned
  <2>4. less \in BOOLEAN
    BY DEF less_unsigned
  <2>5. 1 \in 1..n /\ 0 \in Limb /\ "subtract" \in Loops
    BY <1>5, Sizes DEF Limb, Loops
  <2> HIDE DEF n, s, p, q, less
  <2> QED BY <1>2, <1>5, <2>1, <2>2, <2>3, <2>4, <2>5, EnterKeeps
<1> QED BY <1>6, <1>7, <1>8

\* add_unsigned(result, a, limb)
LEMMA AddLimbKeeps ==
  ASSUME IInv, pc = "idle", NEW z \in Obj, NEW y \in Readable, NEW o \in Limb,
         add_unsigned_limb(z, y, o)
  PROVE  IInv'
<1> DEFINE n == size(y)
<1>1. y \in Obj /\ n \in 1..MaxLimbs /\ n \in Nat
  BY ReadableNumber
<1>2. PICK t \in resized(num[z].limbs, n) : Enter("add_limb", z, y, t, 1, o)
  BY DEF add_unsigned_limb
<1>3. /\ t \in [1..n -> Limb]
      /\ \A j \in 1..Smaller(n, size(z)) : t[j] = num[z].limbs[j]
  BY <1>2 DEF resized, size
<1>4. m' = 0 /\ x' = n /\ pa' = y /\ pb' = y /\ swapped' \in BOOLEAN
  BY DEF add_unsigned_limb
<1>5. 1 \in 1..n /\ "add_limb" \in Loops /\ 0 <= n /\ size(y) = n
  BY <1>1 DEF Loops
<1> HIDE DEF n
<1> QED BY <1>1, <1>2, <1>3, <1>4, <1>5, EnterKeeps

\* subtract_unsigned(result, a, limb)
LEMMA SubtractLimbKeeps ==
  ASSUME IInv, pc = "idle", NEW z \in Obj, NEW y \in Readable, NEW o \in Limb,
         subtract_unsigned_limb(z, y, o)
  PROVE  IInv'
<1> DEFINE s == num[y].limbs
           low == s[1]
           n == Len(s)
<1>1. Typed /\ OthersNormal(z) /\ type \in Types
  BY OthersAreNormal DEF IInv, Typed
<1>2. /\ y \in Obj /\ num[y].sign \in BOOLEAN /\ s \in Limbs /\ NormalLimbs(s)
      /\ n \in 1..MaxLimbs /\ n \in Nat /\ n = size(y)
      /\ \A k \in 1..n : s[k] \in Limb
  BY ReadableNumber DEF size
<1>3. low \in Limb
  BY <1>2
<1>4. CASE low >= o
  <2> DEFINE t == [s EXCEPT ![1] = low - o]
  <2>1. low - o \in Limb
    BY <1>3, <1>4, Sizes DEF Limb
  <2>2. t \in Limbs /\ NormalLimbs(t)
    BY <1>2, <2>1, NewLow
  <2>3. Return(z, signed(t, num[y].sign))
    BY <1>4 DEF subtract_unsigned_limb
  <2> HIDE DEF t
  <2>4. signed(t, num[y].sign) \in Number /\ Normal(signed(t, num[y].sign))
    BY <1>1, <1>2, <2>2, SignedNormal
  <2> QED BY <1>1, <2>3, <2>4, ReturnKeeps
<1>5. CASE ~(low >= o) /\ n = 1
  <2>1. o - low \in Limb
    BY <1>3, <1>5, Sizes DEF Limb
  <2>2. <<o - low>> \in Limbs
    BY <2>1, FewLimbs
  <2>3. Deliver(z, <<o - low>>, ~num[y].sign)
    BY <1>5 DEF subtract_unsigned_limb
  <2>4. (~num[y].sign) \in BOOLEAN
    OBVIOUS
  <2> QED BY <1>1, <2>2, <2>3, <2>4, DeliverKeeps
<1>6. CASE ~(low >= o) /\ n # 1
  <2> DEFINE u == Base + low - o
  <2>1. PICK t \in resized(num[z].limbs, n) :
          Enter("subtract_limb", z, y, [t EXCEPT ![1] = u], 2, 1)
    BY <1>6 DEF subtract_unsigned_limb
  <2> DEFINE v == [t EXCEPT ![1] = u]
  <2>2. u \in Limb
    BY <1>3, <1>6, Sizes DEF Limb
  <2>3. /\ t \in [1..n -> Limb]
        /\ \A j \in 1..Smaller(n, size(z)) : t[j] = num[z].limbs[j]
    BY <2>1 DEF resized, size
  <2>4. 2 \in 1..n /\ 1 \in Limb /\ "subtract_limb" \in Loops /\ 0 <= n /\ 0 <= size(y)
    BY <1>2, <1>6, Sizes DEF Limb, Loops
  <2>5. v \in [1..n -> Limb]
    BY <2>2, <2>3
  <2>6. size(z) \in Nat
    <3>1. num[z].limbs \in Limbs
      BY <1>1, NumberFields DEF Typed
    <3> QED BY <3>1, LimbsType DEF size
  <2>7. \A j \in 2..Smaller(n, size(z)) : v[j] = num[z].limbs[j]
    <3>1. TAKE j \in 2..Smaller(n, size(z))
    <3>2. j \in 1..Smaller(n, size(z)) /\ j \in 1..n /\ j # 1
      BY <1>2, <2>6 DEF Smaller
    <3> QED BY <2>3, <3>2
  <2>8. m' = 0 /\ x' = n /\ pa' = y /\ pb' = y /\ swapped' \in BOOLEAN
    BY <1>6 DEF subtract_unsigned_limb
  <2> HIDE DEF v, u, n
  <2>9. Enter("subtract_limb", z, y, v, 2, 1)
    BY <2>1 DEF v
  <2> QED BY <1>2, <2>4, <2>5, <2>7, <2>8, <2>9, EnterKeeps
<1> QED BY <1>4, <1>5, <1>6

\* eval_add and eval_subtract, of a number and of a limb
LEMMA EvalKeeps ==
  ASSUME IInv, pc = "idle", NEW z \in Obj, NEW y \in Readable
  PROVE  /\ \A w \in Readable : eval_add(z, y, w) \/ eval_subtract(z, y, w) => IInv'
         /\ \A o \in Limb : eval_add_limb(z, y, o) \/ eval_subtract_limb(z, y, o) => IInv'
<1>1. ASSUME NEW w \in Readable, eval_add(z, y, w) \/ eval_subtract(z, y, w) PROVE IInv'
  <2>1. add_unsigned(z, y, w) \/ subtract_unsigned(z, y, w)
    BY <1>1 DEF eval_add, eval_subtract
  <2> QED BY <2>1, AddKeeps, SubtractKeeps
<1>2. ASSUME NEW o \in Limb, eval_add_limb(z, y, o) \/ eval_subtract_limb(z, y, o) PROVE IInv'
  <2>1. add_unsigned_limb(z, y, o) \/ subtract_unsigned_limb(z, y, o)
    BY <1>2 DEF eval_add_limb, eval_subtract_limb
  <2> QED BY <2>1, AddLimbKeeps, SubtractLimbKeeps
<1> QED BY <1>1, <1>2

\* The same of a limb with a sign
LEMMA SignedLimbKeeps ==
  ASSUME IInv, pc = "idle", NEW z \in Obj, NEW y \in Readable, NEW o \in SignedLimb,
         eval_add_signed_limb(z, y, o)
  PROVE  IInv'
<1>1. o \in Int /\ (o < 0 => -o \in Limb) /\ (o > 0 => o \in Limb)
  <2> DEFINE h == Base \div 2
  <2>1. h \in Int /\ Base % 2 \in 0..1 /\ Base = 2 * h + (Base % 2)
    BY Sizes, Division
  <2>2. o \in -h .. h - 1
    BY DEF SignedLimb
  <2> HIDE DEF h
  <2> QED BY <2>1, <2>2, Sizes DEF Limb
<1>2. CASE o < 0
  <2>1. eval_subtract_limb(z, y, -o)
    BY <1>2 DEF eval_add_signed_limb
  <2> QED BY <1>1, <1>2, <2>1, EvalKeeps
<1>3. CASE o > 0
  <2>1. eval_add_limb(z, y, o)
    BY <1>1, <1>3 DEF eval_add_signed_limb
  <2> QED BY <1>1, <1>3, <2>1, EvalKeeps
<1>4. CASE ~(o < 0) /\ ~(o > 0)
  <2>1. Return(z, num[y])
    BY <1>4 DEF eval_add_signed_limb
  <2>2. num[y] \in Number /\ Normal(num[y]) /\ Typed /\ OthersNormal(z)
    BY ReadableNumber, OthersAreNormal DEF IInv
  <2> QED BY <2>1, <2>2, ReturnKeeps
<1> QED BY <1>2, <1>3, <1>4

\* Assignment of a limb, with or without a sign
LEMMA AssignKeeps ==
  ASSUME IInv, pc = "idle", NEW z \in Obj, NEW o \in Limb \cup SignedLimb, assign(z, o)
  PROVE  IInv'
<1> DEFINE u == IF o < 0 THEN -o ELSE o
           neg == o < 0
<1>1. u \in Limb
  <2> DEFINE h == Base \div 2
  <2>1. h \in Int /\ Base % 2 \in 0..1 /\ Base = 2 * h + (Base % 2)
    BY Sizes, Division
  <2>2. o \in Limb \/ o \in -h .. h - 1
    BY DEF SignedLimb
  <2> HIDE DEF h
  <2> QED BY <2>1, <2>2, Sizes DEF Limb
<1>2. neg \in BOOLEAN
  OBVIOUS
<1>3. Deliver(z, <<u>>, neg)
  BY DEF assign
<1> HIDE DEF u, neg
<1>4. <<u>> \in Limbs /\ Typed /\ OthersNormal(z)
  BY <1>1, FewLimbs, OthersAreNormal DEF IInv
<1> QED BY <1>2, <1>3, <1>4, DeliverKeeps

\* A number with a new lowest limb
LEMMA LowKeeps ==
  ASSUME IInv, pc = "idle", NEW z \in Readable, NEW u \in Limb,
         num[z].sign => u # 0
  PROVE  WithLow(z, u) \in Number /\ Normal(WithLow(z, u))
<1> DEFINE s == num[z].limbs
           t == [s EXCEPT ![1] = u]
<1>1. /\ num[z] \in Number /\ Normal(num[z]) /\ s \in Limbs /\ NormalLimbs(s)
      /\ num[z].sign \in BOOLEAN
  BY ReadableNumber
<1>2. t \in Limbs /\ NormalLimbs(t) /\ (t = <<0>> => u = 0)
  BY <1>1, NewLow
<1>3. WithLow(z, u) = [num[z] EXCEPT !.limbs = t]
  BY DEF WithLow
<1> HIDE DEF t
<1>4. WithLow(z, u) \in Number /\ WithLow(z, u).limbs = t /\ WithLow(z, u).sign = num[z].sign
  BY <1>1, <1>2, <1>3, NewLimbs
<1> QED BY <1>1, <1>2, <1>4 DEF Normal, NormalLimbs

\* eval_increment and eval_decrement
LEMMA CountKeeps ==
  ASSUME IInv, pc = "idle", NEW z \in Readable, eval_increment(z) \/ eval_decrement(z)
  PROVE  IInv'
<1> DEFINE low == num[z].limbs[1]
<1>1. Typed /\ OthersNormal(z) /\ z \in Obj /\ num[z].sign \in BOOLEAN
  BY OthersAreNormal, ReadableNumber DEF IInv
<1>2. low \in Limb
  <2>1. 1 \in 1..size(z) /\ \A k \in 1..size(z) : num[z].limbs[k] \in Limb
    BY ReadableNumber
  <2> QED BY <2>1
<1>3. CASE \E u \in Limb : (num[z].sign => u # 0) /\ Return(z, WithLow(z, u))
  BY <1>1, <1>3, LowKeeps, ReturnKeeps
<1>4. CASE Return(z, [WithLow(z, 0) EXCEPT !.sign = FALSE])
  <2> DEFINE n == [WithLow(z, 0) EXCEPT !.sign = FALSE]
             t == [num[z].limbs EXCEPT ![1] = 0]
  <2>1. 0 \in Limb /\ num[z] \in Number /\ num[z].limbs \in Limbs /\ NormalLimbs(num[z].limbs)
    BY ReadableNumber, Sizes DEF Limb
  <2>2. t \in Limbs /\ NormalLimbs(t)
    BY <2>1, NewLow
  <2>3. WithLow(z, 0) = [num[z] EXCEPT !.limbs = t]
    BY DEF WithLow
  <2> HIDE DEF t
  <2>4. WithLow(z, 0) \in Number /\ WithLow(z, 0).limbs = t
    BY <2>1, <2>2, <2>3, NewLimbs, ZenonT(60)
  <2>7. n \in Number /\ n.limbs = t /\ n.sign = FALSE
    BY <2>4, WithoutSign
  <2> HIDE DEF n
  <2>5. Normal(n)
    BY <2>2, <2>7 DEF Normal, NormalLimbs
  <2>6. Return(z, n)
    BY <1>4 DEF n
  <2> QED BY <1>1, <2>5, <2>6, <2>7, ReturnKeeps
<1>5. CASE eval_add_limb(z, z, 1) \/ eval_subtract_limb(z, z, 1)
  <2>1. 1 \in Limb
    BY Sizes DEF Limb
  <2> QED BY <1>1, <1>5, <2>1, EvalKeeps
<1>6. /\ low < Base - 1 => low + 1 \in Limb /\ low + 1 # 0
      /\ low # 0 => low - 1 \in Limb /\ (low # 1 => low - 1 # 0)
  BY <1>2, Sizes DEF Limb
<1>7. CASE eval_increment(z)
  BY <1>3, <1>4, <1>5, <1>6, <1>7 DEF eval_increment
<1>8. CASE eval_decrement(z)
  BY <1>3, <1>4, <1>5, <1>6, <1>8 DEF eval_decrement
<1> QED BY <1>7, <1>8

\* Each call keeps the invariant.
LEMMA CallKeeps ==
  ASSUME IInv, Call
  PROVE  IInv'
<1>1. pc = "idle" /\ Readable \subseteq Obj
  BY DEF Call, Readable
<1>2. CASE \E z \in Obj, o \in Limb \cup SignedLimb : assign(z, o)
  BY <1>1, <1>2, AssignKeeps
<1>3. CASE \E z \in Obj, y \in Readable, w \in Readable :
             eval_add(z, y, w) \/ eval_subtract(z, y, w)
  BY <1>1, <1>3, EvalKeeps
<1>4. CASE \E z \in Obj, y \in Readable, o \in Limb :
             eval_add_limb(z, y, o) \/ eval_subtract_limb(z, y, o)
  BY <1>1, <1>4, EvalKeeps
<1>5. CASE \E z \in Obj, y \in Readable, o \in SignedLimb : eval_add_signed_limb(z, y, o)
  BY <1>1, <1>5, SignedLimbKeeps
<1>6. CASE \E z \in Readable : eval_increment(z) \/ eval_decrement(z)
  BY <1>1, <1>6, CountKeeps
<1> QED BY <1>2, <1>3, <1>4, <1>5, <1>6 DEF Call, Run

\* The initial numbers are zero.
LEMMA InitHolds ==
  ASSUME Init
  PROVE  IInv
<1>1. 0 \in Limb /\ 0 \in 0..MaxLimbs /\ 0 \in 0 .. MaxLimbs + 1
  BY Sizes DEF Limb
<1>2. <<0>> \in Limbs /\ NormalLimbs(<<0>>)
  BY <1>1, FewLimbs
<1>3. Zero \in Number /\ Normal(Zero)
  BY <1>2 DEF Zero, Number, Limbs, Normal, NormalLimbs
<1>4. Typed
  BY <1>1, <1>3 DEF Init, Typed
<1> QED BY <1>3, <1>4 DEF Init, IInv, Loops

\* The invariant holds throughout.
LEMMA Invariance == Spec => []IInv
<1>1. Init => IInv
  BY InitHolds
<1>2. IInv /\ [Next]_vars => IInv'
  <2>1. ASSUME IInv, Next PROVE IInv'
    BY <2>1, CallKeeps, StepKeeps DEF Next
  <2>2. ASSUME IInv, UNCHANGED vars PROVE IInv'
    BY <2>2 DEF IInv, Typed, Running, Normal, Signed, size, at, vars
  <2> QED BY <2>1, <2>2
<1> QED BY <1>1, <1>2, PTL DEF Spec

----------------------------------------------------------------------------
(* The theorems. *)

\* Whatever no call is writing is in normal form, for every base, every precision that
\* may end inside a limb, signed or not, and every program: also after a call wrote over
\* its own operands, wrapped round, or threw.
THEOREM NumbersStayNormal == Spec => []NormalForm
<1>1. IInv => NormalForm
  <2>1. SUFFICES ASSUME IInv, NEW y \in Obj, pc = "idle" \/ y # r, y \notin failed
                 PROVE  Normal(num[y])
    BY DEF NormalForm
  <2>2. num[y] = before[y]
    BY <2>1 DEF IInv, Typed, Running
  <2> QED BY <2>1, <2>2 DEF IInv
<1> QED BY <1>1, Invariance, PTL

\* No loop leaves the limbs of its operands, or of its result: not the one that looks for
\* a limb to borrow from, which nothing but the normal form of its operand stops, and none
\* if the result is an operand whose size resize() has changed.
THEOREM LimbsStayInBounds == Spec => []LoopsStayInBounds
<1>1. IInv => LoopsStayInBounds
  <2> SUFFICES ASSUME IInv, pc \in Loops PROVE LoopsStayInBounds
    BY DEF LoopsStayInBounds, Loops
  <2>1. Typed /\ Running
    BY DEF IInv
  <2>2. i \in Int /\ x \in Int /\ m \in Int /\ m <= x
    BY NextLimbs
  <2>3. size(r) = x
    BY <2>1 DEF Running
  <2>4. size(pa) = x
    BY <2>1 DEF Running, size, Typed
  <2>5. m <= size(pb) /\ size(pb) \in Int
    <3>1. num[pb].limbs \in Limbs
      BY <2>1, NumberFields DEF Typed
    <3>2. pb # r => size(pb) = Len(before[pb].limbs)
      BY <2>1 DEF Running, size, Typed
    <3> QED BY <2>1, <2>2, <2>3, <3>1, <3>2, LimbsType DEF Running, size
  <2>6. pc = "subtract_limb" => i <= x
    BY <2>1 DEF Running
  <2> QED BY <2>2, <2>3, <2>4, <2>5, <2>6 DEF LoopsStayInBounds
<1> QED BY <1>1, Invariance, PTL

\* A loop that writes over one of its operands, or over both, still reads the limbs that
\* the call was given.
THEOREM OperandsReadBeforeWritten == Spec => []UnreadLimbsKept
<1>1. IInv => UnreadLimbsKept
  BY DEF IInv, Running, UnreadLimbsKept
<1> QED BY <1>1, Invariance, PTL

----------------------------------------------------------------------------
(* The second part: addition and subtraction yield the integers that they    *)
(* promise, for every base and every number of limbs: CppIntAddSubtract      *)
(* refines BoundedIntegers.                                                  *)
(*                                                                           *)
(* Numbers are compared as MaxLimbs digits, with zeros on top.  If digits    *)
(* are added one by one, with carries that go in and out, the values add up  *)
(* but for the carry that is left (Sums).  Chain says that the limbs which a *)
(* loop has written are such sums.                                           *)


Digits == [1..MaxLimbs -> Int]

\* The values of the upper digits from each one on
Horners(d) ==
  {h \in [1 .. MaxLimbs + 1 -> Int] :
     /\ h[MaxLimbs + 1] = 0
     /\ \A k \in 1..MaxLimbs : h[k] = d[k] + Base * h[k + 1]}

\* The value of digits
V(d) == (CHOOSE h \in Horners(d) : TRUE)[1]

\* Limbs with zeros on top
Pad(s) == [k \in 1..MaxLimbs |-> IF k <= Len(s) THEN s[k] ELSE 0]

\* What each unit of the topmost digit's value stands for
Weights ==
  {w \in [1..MaxLimbs -> Nat \ {0}] :
     /\ w[MaxLimbs] = TopLimb /\ w[1] = BitsLeft
     /\ \A k \in 1 .. MaxLimbs - 1 : w[k] = Base * w[k + 1]}

----------------------------------------------------------------------------
(* The values of digits. *)

\* Multiplication of integers
LEMMA Products ==
  /\ \A p, q \in Int : p * q \in Int /\ p * q = q * p
  /\ \A p, q, s \in Int : p * (q * s) = (p * q) * s
  /\ \A p, q, s \in Int : p * (q + s) = p * q + p * s /\ p * (q - s) = p * q - p * s
BY SMT

\* Digits have values.
LEMMA HornerExists ==
  ASSUME NEW d \in Digits
  PROVE  \E h \in Horners(d) : TRUE
<1> DEFINE F == [1 .. MaxLimbs + 1 -> Int]
           P(h, n) == /\ h[MaxLimbs + 1] = 0
                      /\ \A k \in n + 1 .. MaxLimbs : h[k] = d[k] + Base * h[k + 1]
           S == {n \in 0..MaxLimbs : \E h \in F : P(h, n)}
<1>1. MaxLimbs \in Nat /\ MaxLimbs >= 2 /\ Base \in Int
  BY Sizes
<1>2. MaxLimbs \in S
  <2>1. [k \in 1 .. MaxLimbs + 1 |-> 0] \in F
    OBVIOUS
  <2>2. MaxLimbs + 1 .. MaxLimbs = {} /\ MaxLimbs + 1 \in 1 .. MaxLimbs + 1
    BY <1>1
  <2>3. P([k \in 1 .. MaxLimbs + 1 |-> 0], MaxLimbs)
    BY <2>2
  <2> QED BY <1>1, <2>1, <2>3
<1>3. S \in SUBSET Nat
  BY <1>1
<1>4. PICK n \in S : \A k \in S : n <= k
  BY <1>2, <1>3, LeastNatural
<1>5. n \in 0..MaxLimbs /\ n \in Int
  BY <1>1, <1>4
<1>6. PICK h \in F : P(h, n)
  BY <1>4
<1>7. ASSUME n # 0 PROVE FALSE
  <2> DEFINE v == d[n] + Base * h[n + 1]
             g == [h EXCEPT ![n] = v]
  <2>1. n \in 1..MaxLimbs /\ n \in 1 .. MaxLimbs + 1 /\ n + 1 \in 1 .. MaxLimbs + 1
    BY <1>1, <1>5, <1>7
  <2>2. d[n] \in Int /\ h[n + 1] \in Int
    BY <1>6, <2>1 DEF Digits
  <2>3. v \in Int
    BY <1>1, <2>2
  <2> HIDE DEF v
  <2>4. g \in F /\ g[n] = v /\ \A k \in 1 .. MaxLimbs + 1 : k # n => g[k] = h[k]
    BY <1>6, <2>1, <2>3
  <2> HIDE DEF g
  <2>5. g[MaxLimbs + 1] = 0
    <3>1. MaxLimbs + 1 \in 1 .. MaxLimbs + 1 /\ MaxLimbs + 1 # n
      BY <1>1, <1>5
    <3> QED BY <1>6, <2>4, <3>1
  <2>6. ASSUME NEW k \in (n - 1) + 1 .. MaxLimbs PROVE g[k] = d[k] + Base * g[k + 1]
    <3>1. /\ k = n \/ (k \in n + 1 .. MaxLimbs /\ k # n)
          /\ k \in 1 .. MaxLimbs + 1 /\ k + 1 \in 1 .. MaxLimbs + 1 /\ k + 1 # n
      BY <1>1, <1>5, <1>7
    <3>2. g[k + 1] = h[k + 1]
      BY <2>4, <3>1
    <3>3. CASE k = n
      BY <2>4, <3>2, <3>3 DEF v
    <3>4. CASE k \in n + 1 .. MaxLimbs /\ k # n
      <4>1. g[k] = h[k]
        BY <2>4, <3>1, <3>4
      <4>2. h[k] = d[k] + Base * h[k + 1]
        BY <1>6, <3>4
      <4> QED BY <3>2, <4>1, <4>2
    <3> QED BY <3>1, <3>3, <3>4
  <2>7. P(g, n - 1)
    BY <2>5, <2>6
  <2>8. n - 1 \in 0..MaxLimbs
    BY <1>1, <1>5, <1>7
  <2> HIDE DEF P
  <2>9. n - 1 \in S
    BY <2>4, <2>7, <2>8
  <2>10. n <= n - 1
    BY <1>4, <2>9
  <2> QED BY <1>5, <2>10
<1>8. P(h, 0)
  BY <1>6, <1>7
<1>9. h \in Horners(d)
  BY <1>6, <1>8 DEF Horners
<1> QED BY <1>9

\* BitsLeft is a product of the bases below the topmost limb.
LEMMA WeightsExist ==
  \E w \in Weights : TRUE
<1> DEFINE F == [1..MaxLimbs -> Nat \ {0}]
           P(g, n) == /\ g[1] = TopLimb
                      /\ \A k \in 2..n : g[k] = Base * g[k - 1]
           S == {n \in Nat : n \in 1..MaxLimbs /\ \E g \in F : P(g, MaxLimbs - n + 1)}
<1>1. /\ MaxLimbs \in Nat /\ MaxLimbs >= 2 /\ Base \in Nat \ {0}
      /\ TopLimb \in Nat \ {0}
  BY Sizes
<1>2. MaxLimbs \in S
  <2>1. [k \in 1..MaxLimbs |-> TopLimb] \in F
    BY <1>1
  <2>2. 2 .. MaxLimbs - MaxLimbs + 1 = {} /\ 1 \in 1..MaxLimbs
    BY <1>1
  <2>3. P([k \in 1..MaxLimbs |-> TopLimb], MaxLimbs - MaxLimbs + 1)
    BY <2>2
  <2> QED BY <1>1, <2>1, <2>3
<1>3. PICK n \in S : \A k \in S : n <= k
  BY <1>2, LeastNatural
<1>4. n \in 1..MaxLimbs /\ n \in Int
  BY <1>1, <1>3
<1>5. PICK g \in F : P(g, MaxLimbs - n + 1)
  BY <1>3
<1>6. ASSUME n # 1 PROVE FALSE
  <2> DEFINE j == MaxLimbs - n + 2
             v == Base * g[j - 1]
             e == [g EXCEPT ![j] = v]
  <2>1. j \in 2..MaxLimbs /\ j \in 1..MaxLimbs /\ j - 1 \in 1..MaxLimbs /\ j \in Int
    BY <1>1, <1>4, <1>6
  <2>2. MaxLimbs - n + 1 = j - 1 /\ MaxLimbs - (n - 1) + 1 = j
    BY <1>1, <1>4
  <2> HIDE DEF j
  <2>3. v \in Nat \ {0}
    <3>1. g[j - 1] \in Nat \ {0}
      BY <1>5, <2>1
    <3> QED BY <1>1, <3>1
  <2> HIDE DEF v
  <2>4. e \in F /\ e[j] = v /\ \A k \in 1..MaxLimbs : k # j => e[k] = g[k]
    BY <1>5, <2>1, <2>3
  <2> HIDE DEF e
  <2>5. e[1] = TopLimb
    <3>1. 1 \in 1..MaxLimbs /\ 1 # j
      BY <1>1, <2>1
    <3> QED BY <1>5, <2>4, <3>1
  <2>6. ASSUME NEW k \in 2..j PROVE e[k] = Base * e[k - 1]
    <3>1. /\ k = j \/ (k \in 2 .. j - 1 /\ k # j)
          /\ k \in 1..MaxLimbs /\ k - 1 \in 1..MaxLimbs /\ k - 1 # j
      BY <1>1, <2>1
    <3>2. e[k - 1] = g[k - 1]
      BY <2>4, <3>1
    <3>3. CASE k = j
      BY <2>4, <3>2, <3>3 DEF v
    <3>4. CASE k \in 2 .. j - 1 /\ k # j
      <4>1. g[k] = Base * g[k - 1]
        BY <1>5, <2>2, <3>4
      <4> QED BY <2>4, <3>1, <3>2, <3>4, <4>1
    <3> QED BY <3>1, <3>3, <3>4
  <2>7. P(e, MaxLimbs - (n - 1) + 1)
    BY <2>2, <2>5, <2>6
  <2>8. n - 1 \in Nat /\ n - 1 \in 1..MaxLimbs
    BY <1>1, <1>4, <1>6
  <2> HIDE DEF P
  <2>9. n - 1 \in S
    BY <2>4, <2>7, <2>8
  <2>10. n <= n - 1
    BY <1>3, <2>9
  <2> QED BY <1>4, <2>10
<1>7. MaxLimbs - 1 + 1 = MaxLimbs /\ \A k \in 1..MaxLimbs : k = 1 \/ k \in 2..MaxLimbs
  BY <1>1
<1>8. P(g, MaxLimbs)
  BY <1>5, <1>6, <1>7
<1>9. g = [k \in 1..MaxLimbs |-> IF k = 1 THEN TopLimb ELSE Base * g[k - 1]]
  <2>1. \A k \in 1..MaxLimbs : g[k] = IF k = 1 THEN TopLimb ELSE Base * g[k - 1]
    BY <1>7, <1>8
  <2>2. g = [k \in 1..MaxLimbs |-> g[k]]
    BY <1>5
  <2> QED BY <2>1, <2>2
<1>10. \E f : f = [k \in 1..MaxLimbs |-> IF k = 1 THEN TopLimb ELSE Base * f[k - 1]]
  BY <1>9
<1> DEFINE f[k \in 1..MaxLimbs] == IF k = 1 THEN TopLimb ELSE Base * f[k - 1]
<1>11. f = [k \in 1..MaxLimbs |-> IF k = 1 THEN TopLimb ELSE Base * f[k - 1]]
  BY <1>10
<1>12. BitsLeft = f[MaxLimbs]
  BY DEF BitsLeft
<1> HIDE DEF f, P
<1>13. \A k \in 1..MaxLimbs : f[k] = g[k]
  <2> DEFINE D == {k \in 1..MaxLimbs : f[k] # g[k]}
  <2>1. SUFFICES ASSUME D # {} PROVE FALSE
    OBVIOUS
  <2>2. D \in SUBSET Nat
    OBVIOUS
  <2>3. PICK k \in D : \A j \in D : k <= j
    BY <2>1, <2>2, LeastNatural
  <2>4. k \in 1..MaxLimbs /\ f[k] # g[k]
    BY <2>3
  <2>5. f[k] = (IF k = 1 THEN TopLimb ELSE Base * f[k - 1])
        /\ g[k] = (IF k = 1 THEN TopLimb ELSE Base * g[k - 1])
    BY <1>9, <1>11, <2>4
  <2>6. k # 1 /\ f[k - 1] # g[k - 1]
    BY <2>4, <2>5
  <2>7. k - 1 \in 1..MaxLimbs /\ k \in Int
    BY <1>1, <2>4, <2>6
  <2>8. k <= k - 1
    BY <2>3, <2>6, <2>7
  <2> QED BY <2>7, <2>8
<1> DEFINE w == [k \in 1..MaxLimbs |-> g[MaxLimbs - k + 1]]
<1>14. \A k \in 1..MaxLimbs : MaxLimbs - k + 1 \in 1..MaxLimbs
  BY <1>1
<1>15. w \in [1..MaxLimbs -> Nat \ {0}] /\ \A k \in 1..MaxLimbs : w[k] = g[MaxLimbs - k + 1]
  BY <1>5, <1>14
<1> HIDE DEF w
<1>16. w[MaxLimbs] = TopLimb /\ w[1] = BitsLeft
  <2>1. /\ MaxLimbs \in 1..MaxLimbs /\ 1 \in 1..MaxLimbs
        /\ MaxLimbs - MaxLimbs + 1 = 1 /\ MaxLimbs - 1 + 1 = MaxLimbs
    BY <1>1
  <2>2. w[MaxLimbs] = g[1] /\ w[1] = g[MaxLimbs] /\ g[1] = TopLimb
    BY <1>9, <1>15, <2>1
  <2> QED BY <1>12, <1>13, <2>1, <2>2
<1>17. ASSUME NEW k \in 1 .. MaxLimbs - 1 PROVE w[k] = Base * w[k + 1]
  <2> DEFINE j == MaxLimbs - k + 1
  <2>1. /\ k \in 1..MaxLimbs /\ k + 1 \in 1..MaxLimbs /\ j \in 1..MaxLimbs /\ j # 1
        /\ MaxLimbs - (k + 1) + 1 = j - 1
    BY <1>1
  <2>2. w[k] = g[j] /\ w[k + 1] = g[j - 1]
    BY <1>15, <2>1
  <2> HIDE DEF j
  <2> QED BY <1>9, <2>1, <2>2
<1>18. w \in Weights
  BY <1>15, <1>16, <1>17 DEF Weights
<1> QED BY <1>18

\* The part of the base that a topmost limb leaves unused, and the modulus
Unused == Base \div TopLimb

LEMMA Moduli ==
  Unused \in Nat \ {0} /\ Base = TopLimb * Unused /\ BitsLeft \in Nat \ {0}
<1> DEFINE q == Unused
<1>1. q \in Int /\ Base = TopLimb * q + (Base % TopLimb)
  BY Sizes, Division DEF Unused
<1>2. Base % TopLimb = 0
  BY SizesAssumption
<1> HIDE DEF q
<1>3. TopLimb * q \in Int
  BY <1>1, Sizes
<1>4. Base = TopLimb * q
  BY <1>1, <1>2, <1>3, Sizes
<1>5. ASSUME q <= 0 PROVE FALSE
  <2>1. TopLimb * q <= TopLimb * 0
    BY <1>1, <1>5, Sizes
  <2> QED BY <1>3, <1>4, <2>1, Sizes
<1>6. BitsLeft \in Nat \ {0}
  <2>1. PICK w \in Weights : TRUE
    BY WeightsExist
  <2>2. 1 \in 1..MaxLimbs
    BY Sizes
  <2> QED BY <2>1, <2>2 DEF Weights
<1> QED BY <1>1, <1>4, <1>5, <1>6 DEF q

\* What grows by the base from digit to digit grows to a multiple of the modulus.
LEMMA Scaled ==
  ASSUME NEW e \in [1..MaxLimbs -> Int], NEW z \in Int,
         e[MaxLimbs] = TopLimb * z,
         \A k \in 1 .. MaxLimbs - 1 : e[k] = Base * e[k + 1]
  PROVE  e[1] = BitsLeft * z
<1>1. PICK w \in Weights : TRUE
  BY WeightsExist
<1>2. /\ w \in [1..MaxLimbs -> Nat \ {0}] /\ w[MaxLimbs] = TopLimb /\ w[1] = BitsLeft
      /\ \A k \in 1 .. MaxLimbs - 1 : w[k] = Base * w[k + 1]
  BY <1>1 DEF Weights
<1>3. MaxLimbs \in Nat /\ MaxLimbs >= 2 /\ Base \in Int /\ MaxLimbs \in 1..MaxLimbs
  BY Sizes
<1> DEFINE S == {k \in 1..MaxLimbs : e[k] = w[k] * z}
<1>4. MaxLimbs \in S /\ S \in SUBSET Nat
  BY <1>2, <1>3
<1>5. PICK n \in S : \A k \in S : n <= k
  BY <1>4, LeastNatural
<1>6. n \in 1..MaxLimbs /\ n \in Int /\ e[n] = w[n] * z
  BY <1>3, <1>5
<1>7. ASSUME n # 1 PROVE FALSE
  <2>1. n - 1 \in 1..MaxLimbs /\ n - 1 \in 1 .. MaxLimbs - 1 /\ (n - 1) + 1 = n
    BY <1>3, <1>6, <1>7
  <2>2. e[n - 1] = Base * e[n] /\ w[n - 1] = Base * w[n]
    BY <1>2, <2>1
  <2>3. Base * (w[n] * z) = (Base * w[n]) * z
    <3>1. w[n] \in Int
      BY <1>2, <1>6
    <3> QED BY <1>3, <3>1, Products
  <2>4. e[n - 1] = w[n - 1] * z
    BY <1>6, <2>2, <2>3
  <2>5. n - 1 \in S
    BY <2>1, <2>4
  <2>6. n <= n - 1
    BY <1>5, <2>5
  <2> QED BY <1>6, <2>6
<1> QED BY <1>2, <1>6, <1>7

\* The same with one more digit
LEMMA ScaledOut ==
  ASSUME NEW e \in [1 .. MaxLimbs + 1 -> Int],
         \A k \in 1..MaxLimbs : e[k] = Base * e[k + 1]
  PROVE  e[1] = BitsLeft * (Unused * e[MaxLimbs + 1])
<1> DEFINE g == [k \in 1..MaxLimbs |-> e[k]]
           t == e[MaxLimbs + 1]
           z == Unused * t
<1>1. /\ MaxLimbs \in Nat /\ MaxLimbs \in 1..MaxLimbs /\ 1 \in 1..MaxLimbs
      /\ MaxLimbs + 1 \in 1 .. MaxLimbs + 1 /\ \A k \in 1..MaxLimbs : k \in 1 .. MaxLimbs + 1
      /\ \A k \in 1 .. MaxLimbs - 1 : k \in 1..MaxLimbs /\ k + 1 \in 1..MaxLimbs
  BY Sizes
<1>2. t \in Int /\ Unused \in Int /\ TopLimb \in Int
  BY <1>1, Moduli, Sizes
<1>3. z \in Int /\ TopLimb * z = (TopLimb * Unused) * t
  BY <1>2, Products
<1>4. g \in [1..MaxLimbs -> Int] /\ \A k \in 1..MaxLimbs : g[k] = e[k]
  BY <1>1
<1>5. g[MaxLimbs] = TopLimb * z
  <2>1. e[MaxLimbs] = Base * t
    BY <1>1
  <2> QED BY <1>1, <1>3, <1>4, <2>1, Moduli
<1>6. \A k \in 1 .. MaxLimbs - 1 : g[k] = Base * g[k + 1]
  BY <1>1, <1>4
<1> HIDE DEF g, z
<1>7. g[1] = BitsLeft * z
  BY <1>3, <1>4, <1>5, <1>6, Scaled
<1> QED BY <1>1, <1>4, <1>7 DEF z

\* The value of digits is what the recursion says, however it is chosen.
LEMMA ValueIs ==
  ASSUME NEW d \in Digits, NEW h \in Horners(d)
  PROVE  V(d) = h[1] /\ V(d) \in Int
<1> DEFINE g == CHOOSE f \in Horners(d) : TRUE
           e == [k \in 1 .. MaxLimbs + 1 |-> g[k] - h[k]]
<1>1. g \in Horners(d)
  OBVIOUS
<1>2. V(d) = g[1]
  BY DEF V
<1> HIDE DEF g
<1>3. /\ MaxLimbs \in Nat /\ MaxLimbs >= 2 /\ Base \in Int
      /\ MaxLimbs + 1 \in 1 .. MaxLimbs + 1 /\ 1 \in 1 .. MaxLimbs + 1
      /\ \A k \in 1..MaxLimbs : k \in 1 .. MaxLimbs + 1 /\ k + 1 \in 1 .. MaxLimbs + 1
  BY Sizes
<1>4. /\ g \in [1 .. MaxLimbs + 1 -> Int] /\ h \in [1 .. MaxLimbs + 1 -> Int]
      /\ g[MaxLimbs + 1] = 0 /\ h[MaxLimbs + 1] = 0
      /\ \A k \in 1..MaxLimbs : g[k] = d[k] + Base * g[k + 1] /\ h[k] = d[k] + Base * h[k + 1]
  BY <1>1 DEF Horners
<1>5. e \in [1 .. MaxLimbs + 1 -> Int] /\ \A k \in 1 .. MaxLimbs + 1 : e[k] = g[k] - h[k]
  BY <1>4
<1> HIDE DEF e
<1>6. ASSUME NEW k \in 1..MaxLimbs PROVE e[k] = Base * e[k + 1]
  <2>1. d[k] \in Int /\ g[k + 1] \in Int /\ h[k + 1] \in Int
    BY <1>3, <1>4 DEF Digits
  <2>2. Base * (g[k + 1] - h[k + 1]) = Base * g[k + 1] - Base * h[k + 1]
        /\ Base * g[k + 1] \in Int /\ Base * h[k + 1] \in Int
    BY <1>3, <2>1, Products
  <2>3. e[k] = (d[k] + Base * g[k + 1]) - (d[k] + Base * h[k + 1]) /\ e[k + 1] = g[k + 1] - h[k + 1]
    BY <1>3, <1>4, <1>5
  <2> QED BY <2>1, <2>2, <2>3
<1>7. e[MaxLimbs + 1] = 0
  BY <1>3, <1>4, <1>5
<1>8. e[1] = BitsLeft * (Unused * 0)
  BY <1>5, <1>6, <1>7, ScaledOut
<1>9. e[1] = 0
  BY <1>8, Moduli
<1>10. g[1] \in Int /\ h[1] \in Int /\ g[1] - h[1] = 0
  BY <1>3, <1>4, <1>5, <1>9
<1> QED BY <1>2, <1>10

\* The digits d are the sums of a1 and a2, with carries c from each to the next.
Adds(a1, a2, c, d) ==
  \A k \in 1..MaxLimbs : d[k] + Base * c[k + 1] = a1[k] + a2[k] + c[k]

\* Digits that are the sums of digits, with carries from each to the next: the value
\* is the sum of the values, and of the first carry, but for the last carry.
LEMMA Sums ==
  ASSUME NEW a1 \in Digits, NEW a2 \in Digits, NEW d \in Digits,
         NEW c \in [1 .. MaxLimbs + 1 -> Int], Adds(a1, a2, c, d)
  PROVE  /\ V(d) + BitsLeft * (Unused * c[MaxLimbs + 1]) = V(a1) + V(a2) + c[1]
         /\ V(d) \in Int /\ V(a1) \in Int /\ V(a2) \in Int
<1>1. /\ MaxLimbs \in Nat /\ MaxLimbs >= 2 /\ Base \in Int
      /\ MaxLimbs + 1 \in 1 .. MaxLimbs + 1 /\ 1 \in 1 .. MaxLimbs + 1
      /\ \A k \in 1..MaxLimbs : k \in 1 .. MaxLimbs + 1 /\ k + 1 \in 1 .. MaxLimbs + 1
  BY Sizes
<1>2. PICK h1 \in Horners(a1) : TRUE
  BY HornerExists
<1>3. PICK h2 \in Horners(a2) : TRUE
  BY HornerExists
<1>4. PICK h3 \in Horners(d) : TRUE
  BY HornerExists
<1>5. V(a1) = h1[1] /\ V(a2) = h2[1] /\ V(d) = h3[1]
  BY ValueIs
<1>6. /\ h1 \in [1 .. MaxLimbs + 1 -> Int] /\ h2 \in [1 .. MaxLimbs + 1 -> Int]
      /\ h3 \in [1 .. MaxLimbs + 1 -> Int]
      /\ h1[MaxLimbs + 1] = 0 /\ h2[MaxLimbs + 1] = 0 /\ h3[MaxLimbs + 1] = 0
      /\ \A k \in 1..MaxLimbs : h1[k] = a1[k] + Base * h1[k + 1]
      /\ \A k \in 1..MaxLimbs : h2[k] = a2[k] + Base * h2[k + 1]
      /\ \A k \in 1..MaxLimbs : h3[k] = d[k] + Base * h3[k + 1]
  BY DEF Horners
<1> DEFINE e == [k \in 1 .. MaxLimbs + 1 |-> h1[k] + h2[k] + c[k] - h3[k]]
<1>7. /\ e \in [1 .. MaxLimbs + 1 -> Int]
      /\ \A k \in 1 .. MaxLimbs + 1 : e[k] = h1[k] + h2[k] + c[k] - h3[k]
  BY <1>6
<1> HIDE DEF e
<1>8. ASSUME NEW k \in 1..MaxLimbs PROVE e[k] = Base * e[k + 1]
  <2> DEFINE p1 == h1[k + 1]
             p2 == h2[k + 1]
             p3 == h3[k + 1]
             p4 == c[k + 1]
  <2>1. /\ a1[k] \in Int /\ a2[k] \in Int /\ d[k] \in Int /\ c[k] \in Int
        /\ p1 \in Int /\ p2 \in Int /\ p3 \in Int /\ p4 \in Int
    BY <1>1, <1>6 DEF Digits
  <2>2. e[k] = (a1[k] + Base * p1) + (a2[k] + Base * p2) + c[k] - (d[k] + Base * p3)
    BY <1>1, <1>6, <1>7
  <2>3. e[k + 1] = p1 + p2 + p4 - p3
    BY <1>1, <1>7
  <2>4. d[k] + Base * p4 = a1[k] + a2[k] + c[k]
    BY DEF Adds
  <2> HIDE DEF p1, p2, p3, p4
  <2>5. /\ Base * (p1 + p2 + p4 - p3) = Base * p1 + Base * p2 + Base * p4 - Base * p3
        /\ Base * p1 \in Int /\ Base * p2 \in Int /\ Base * p3 \in Int /\ Base * p4 \in Int
    <3>1. p1 + p2 \in Int /\ p1 + p2 + p4 \in Int
      BY <2>1
    <3> QED BY <1>1, <2>1, <3>1, Products
  <2> DEFINE b1 == Base * p1
             b2 == Base * p2
             b3 == Base * p3
             b4 == Base * p4
  <2>6. Base * e[k + 1] = b1 + b2 + b4 - b3 /\ b1 \in Int /\ b2 \in Int /\ b3 \in Int /\ b4 \in Int
    BY <2>3, <2>5
  <2>7. e[k] = (a1[k] + b1) + (a2[k] + b2) + c[k] - (d[k] + b3) /\ d[k] + b4 = a1[k] + a2[k] + c[k]
    BY <2>2, <2>4
  <2> HIDE DEF b1, b2, b3, b4
  <2> DEFINE u1 == a1[k]
             u2 == a2[k]
             u3 == d[k]
             u4 == c[k]
  <2>8. (u1 + b1) + (u2 + b2) + u4 - (u3 + b3) = b1 + b2 + b4 - b3
    <3>1. u1 \in Int /\ u2 \in Int /\ u3 \in Int /\ u4 \in Int /\ u3 + b4 = u1 + u2 + u4
      BY <2>1, <2>7
    <3> HIDE DEF u1, u2, u3, u4
    <3> QED BY <2>6, <3>1
  <2> QED BY <2>6, <2>7, <2>8
<1>9. e[MaxLimbs + 1] = c[MaxLimbs + 1] /\ c[MaxLimbs + 1] \in Int
  BY <1>1, <1>6, <1>7
<1>10. e[1] = BitsLeft * (Unused * c[MaxLimbs + 1])
  BY <1>7, <1>8, <1>9, ScaledOut
<1>11. /\ e[1] = h1[1] + h2[1] + c[1] - h3[1] /\ h1[1] \in Int /\ h2[1] \in Int
       /\ h3[1] \in Int /\ c[1] \in Int
  BY <1>1, <1>6, <1>7
<1> QED BY <1>5, <1>10, <1>11

\* A digit of the topmost limb beyond its width is worth a multiple of the modulus.
LEMMA Masked ==
  ASSUME NEW d \in Digits, NEW t \in Digits, NEW q \in Int,
         \A k \in 1 .. MaxLimbs - 1 : d[k] = t[k],
         d[MaxLimbs] = TopLimb * q + t[MaxLimbs]
  PROVE  V(d) = V(t) + BitsLeft * q /\ V(d) \in Int /\ V(t) \in Int
<1>1. /\ MaxLimbs \in Nat /\ MaxLimbs >= 2 /\ Base \in Int /\ TopLimb \in Int
      /\ MaxLimbs + 1 \in 1 .. MaxLimbs + 1 /\ MaxLimbs \in 1..MaxLimbs /\ 1 \in 1..MaxLimbs
      /\ \A k \in 1..MaxLimbs : k \in 1 .. MaxLimbs + 1 /\ k + 1 \in 1 .. MaxLimbs + 1
      /\ \A k \in 1 .. MaxLimbs - 1 : k \in 1..MaxLimbs /\ k + 1 \in 1..MaxLimbs
  BY Sizes
<1>2. PICK h \in Horners(d) : TRUE
  BY HornerExists
<1>3. PICK g \in Horners(t) : TRUE
  BY HornerExists
<1>4. V(d) = h[1] /\ V(t) = g[1]
  BY ValueIs
<1>5. /\ h \in [1 .. MaxLimbs + 1 -> Int] /\ g \in [1 .. MaxLimbs + 1 -> Int]
      /\ h[MaxLimbs + 1] = 0 /\ g[MaxLimbs + 1] = 0
      /\ \A k \in 1..MaxLimbs : h[k] = d[k] + Base * h[k + 1]
      /\ \A k \in 1..MaxLimbs : g[k] = t[k] + Base * g[k + 1]
  BY DEF Horners
<1> DEFINE e == [k \in 1..MaxLimbs |-> h[k] - g[k]]
<1>6. e \in [1..MaxLimbs -> Int] /\ \A k \in 1..MaxLimbs : e[k] = h[k] - g[k]
  <2>1. ASSUME NEW k \in 1..MaxLimbs PROVE h[k] - g[k] \in Int
    <3>1. h[k] \in Int /\ g[k] \in Int
      BY <1>1, <1>5
    <3> QED BY <3>1
  <2> QED BY <2>1
<1> HIDE DEF e
<1>7. e[MaxLimbs] = TopLimb * q
  <2>1. h[MaxLimbs] = d[MaxLimbs] + Base * 0 /\ g[MaxLimbs] = t[MaxLimbs] + Base * 0
    BY <1>1, <1>5
  <2>2. d[MaxLimbs] \in Int /\ t[MaxLimbs] \in Int /\ Base * 0 = 0 /\ TopLimb * q \in Int
    BY <1>1, Products DEF Digits
  <2>3. e[MaxLimbs] = d[MaxLimbs] - t[MaxLimbs]
    BY <1>1, <1>6, <2>1, <2>2
  <2> DEFINE p == TopLimb * q
  <2>4. p \in Int /\ d[MaxLimbs] = p + t[MaxLimbs]
    BY <2>2
  <2> HIDE DEF p
  <2>5. e[MaxLimbs] = p
    BY <2>2, <2>3, <2>4
  <2> QED BY <2>5 DEF p
<1>8. ASSUME NEW k \in 1 .. MaxLimbs - 1 PROVE e[k] = Base * e[k + 1]
  <2> DEFINE p1 == h[k + 1]
             p2 == g[k + 1]
             b1 == Base * p1
             b2 == Base * p2
  <2>1. p1 \in Int /\ p2 \in Int /\ d[k] \in Int /\ d[k] = t[k]
    BY <1>1, <1>5 DEF Digits
  <2>2. e[k] = (d[k] + b1) - (d[k] + b2) /\ e[k + 1] = p1 - p2
    BY <1>1, <1>5, <1>6, <2>1, ZenonT(60)
  <2> HIDE DEF p1, p2
  <2>3. Base * (p1 - p2) = b1 - b2 /\ b1 \in Int /\ b2 \in Int
    BY <1>1, <2>1, Products
  <2> HIDE DEF b1, b2
  <2>4. (d[k] + b1) - (d[k] + b2) = b1 - b2
    BY <2>1, <2>3
  <2> QED BY <2>2, <2>3, <2>4
<1>9. e[1] = BitsLeft * q
  BY <1>6, <1>7, <1>8, Scaled
<1>10. e[1] = h[1] - g[1] /\ h[1] \in Int /\ g[1] \in Int
  BY <1>1, <1>5, <1>6
<1> QED BY <1>4, <1>9, <1>10

\* The bounds of the value of limbs
LEMMA Bounds ==
  ASSUME NEW d \in [1..MaxLimbs -> Limb]
  PROVE  /\ d \in Digits /\ V(d) \in Int /\ V(d) >= 0
         /\ d[MaxLimbs] < TopLimb => V(d) < BitsLeft
         /\ (\E k \in 1..MaxLimbs : d[k] # 0) => V(d) > 0
<1>1. /\ MaxLimbs \in Nat /\ MaxLimbs >= 2 /\ Base \in Int /\ Base >= 2
      /\ TopLimb \in Int /\ TopLimb >= 2 /\ MaxLimbs \in 1..MaxLimbs /\ 1 \in 1..MaxLimbs
      /\ MaxLimbs + 1 \in 1 .. MaxLimbs + 1 /\ 1 \in 1 .. MaxLimbs + 1
      /\ \A k \in 1..MaxLimbs : k \in 1 .. MaxLimbs + 1 /\ k + 1 \in 1 .. MaxLimbs + 1
      /\ \A k \in 1 .. MaxLimbs - 1 : k \in 1..MaxLimbs /\ k + 1 \in 1..MaxLimbs
  BY Sizes
<1>2. d \in Digits /\ \A k \in 1..MaxLimbs : d[k] \in Int /\ 0 <= d[k] /\ d[k] <= Base - 1
  BY <1>1 DEF Digits, Limb
<1>3. PICK h \in Horners(d) : TRUE
  BY <1>2, HornerExists
<1>4. V(d) = h[1] /\ V(d) \in Int
  BY <1>2, ValueIs
<1>5. /\ h \in [1 .. MaxLimbs + 1 -> Int] /\ h[MaxLimbs + 1] = 0
      /\ \A k \in 1..MaxLimbs : h[k] = d[k] + Base * h[k + 1]
  BY DEF Horners
<1>6. ASSUME NEW k \in 1..MaxLimbs, NEW c \in {0, 1}, h[k + 1] >= c
      PROVE  h[k] >= c
  <2>1. h[k + 1] \in Int /\ d[k] \in Int /\ d[k] >= 0
    BY <1>1, <1>2, <1>5
  <2> DEFINE p == h[k + 1]
  <2>2. h[k] = d[k] + Base * p /\ p \in Int /\ p >= c
    BY <1>5, <1>6, <2>1
  <2> HIDE DEF p
  <2>3. Base * p >= p /\ Base * p \in Int
    <3>1. CASE c = 0
      BY <1>1, <2>2, <3>1
    <3>2. CASE c = 1
      BY <1>1, <2>2, <3>2
    <3> QED BY <3>1, <3>2
  <2> DEFINE b == Base * p
  <2>4. h[k] = d[k] + b /\ b \in Int /\ b >= p
    BY <2>2, <2>3
  <2> HIDE DEF b
  <2> QED BY <2>1, <2>2, <2>4
<1>7. \A j \in 1 .. MaxLimbs + 1, c \in {0, 1} : h[j] >= c => h[1] >= c
  <2>1. SUFFICES ASSUME NEW j \in 1 .. MaxLimbs + 1, NEW c \in {0, 1}, h[j] >= c
                 PROVE  h[1] >= c
    OBVIOUS
  <2> DEFINE S == {k \in 1 .. MaxLimbs + 1 : h[k] >= c}
  <2>2. j \in S /\ S \in SUBSET Nat
    BY <2>1
  <2>3. PICK n \in S : \A k \in S : n <= k
    BY <2>2, LeastNatural
  <2>4. ASSUME n # 1 PROVE FALSE
    <3>1. n \in Int /\ n - 1 \in 1..MaxLimbs /\ n - 1 \in 1 .. MaxLimbs + 1 /\ (n - 1) + 1 = n
      BY <1>1, <2>3, <2>4
    <3>2. h[n] >= c
      BY <2>3
    <3>3. h[n - 1] >= c
      BY <1>6, <3>1, <3>2
    <3>4. n <= n - 1
      BY <2>3, <3>1, <3>3
    <3> QED BY <3>1, <3>4
  <2> QED BY <2>3, <2>4
<1>8. h[1] >= 0
  BY <1>1, <1>5, <1>7
<1>9. ASSUME NEW k \in 1..MaxLimbs, d[k] # 0 PROVE h[1] > 0
  <2>1. h[k + 1] >= 0
    <3> DEFINE S == {j \in Nat : j \in 0..MaxLimbs /\ h[MaxLimbs + 1 - j] < 0}
    <3>1. ASSUME S # {} PROVE FALSE
      <4>1. S \in SUBSET Nat
        OBVIOUS
      <4>2. PICK n \in S : \A j \in S : n <= j
        BY <3>1, <4>1, LeastNatural
      <4>3. n \in 0..MaxLimbs /\ n \in Int /\ h[MaxLimbs + 1 - n] < 0
        BY <4>2
      <4>4. n # 0
        BY <1>1, <1>5, <4>3
      <4>5. /\ n - 1 \in Nat /\ n - 1 \in 0..MaxLimbs
            /\ MaxLimbs + 1 - n \in 1..MaxLimbs
            /\ MaxLimbs + 1 - (n - 1) = (MaxLimbs + 1 - n) + 1
            /\ MaxLimbs + 1 - n \in 1 .. MaxLimbs + 1
            /\ (MaxLimbs + 1 - n) + 1 \in 1 .. MaxLimbs + 1
        BY <1>1, <4>3, <4>4
      <4>6. h[(MaxLimbs + 1 - n) + 1] \in Int /\ h[MaxLimbs + 1 - n] \in Int
        BY <1>5, <4>5
      <4>7. ~(h[(MaxLimbs + 1 - n) + 1] < 0)
        <5>1. ASSUME h[(MaxLimbs + 1 - n) + 1] < 0 PROVE FALSE
          <6>1. n - 1 \in S
            BY <4>5, <5>1
          <6>2. n <= n - 1
            BY <4>2, <6>1
          <6> QED BY <4>3, <6>2
        <5> QED BY <5>1
      <4>8. h[(MaxLimbs + 1 - n) + 1] >= 0
        BY <4>6, <4>7
      <4>9. h[MaxLimbs + 1 - n] >= 0
        BY <1>6, <4>5, <4>8
      <4> QED BY <4>3, <4>6, <4>9
    <3>2. MaxLimbs - k \in Nat /\ MaxLimbs - k \in 0..MaxLimbs /\ MaxLimbs + 1 - (MaxLimbs - k) = k + 1
      BY <1>1
    <3>3. h[k + 1] \in Int
      BY <1>1, <1>5
    <3>4. ~(h[k + 1] < 0)
      BY <3>1, <3>2
    <3> QED BY <3>3, <3>4
  <2> DEFINE p == h[k + 1]
             b == Base * p
  <2>2. p \in Int /\ p >= 0 /\ h[k] = d[k] + b
    BY <1>1, <1>5, <2>1
  <2> HIDE DEF p
  <2>3. b \in Int /\ b >= 0
    BY <1>1, <2>2
  <2> HIDE DEF b
  <2>4. h[k] >= 1
    <3>1. d[k] \in Int /\ d[k] >= 1
      BY <1>2, <1>9
    <3> QED BY <2>2, <2>3, <3>1
  <2>5. k \in 1 .. MaxLimbs + 1 /\ h[1] \in Int
    BY <1>1, <1>5
  <2>6. h[1] >= 1
    BY <1>7, <2>4, <2>5
  <2> QED BY <2>5, <2>6
<1>10. ASSUME d[MaxLimbs] < TopLimb PROVE h[1] < BitsLeft
  <2>1. PICK w \in Weights : TRUE
    BY WeightsExist
  <2>2. /\ w \in [1..MaxLimbs -> Nat \ {0}] /\ w[MaxLimbs] = TopLimb /\ w[1] = BitsLeft
        /\ \A k \in 1 .. MaxLimbs - 1 : w[k] = Base * w[k + 1]
    BY <2>1 DEF Weights
  <2> DEFINE S == {k \in 1..MaxLimbs : h[k] < w[k]}
  <2>3. MaxLimbs \in S
    <3>1. h[MaxLimbs] = d[MaxLimbs] + Base * 0 /\ Base * 0 = 0 /\ d[MaxLimbs] \in Int
      BY <1>1, <1>2, <1>5
    <3> QED BY <1>1, <1>10, <2>2, <3>1
  <2>4. S \in SUBSET Nat
    BY <1>1
  <2>5. PICK n \in S : \A k \in S : n <= k
    BY <2>3, <2>4, LeastNatural
  <2>6. ASSUME n # 1 PROVE FALSE
    <3>1. /\ n \in Int /\ n \in 1..MaxLimbs /\ n - 1 \in 1..MaxLimbs
          /\ n - 1 \in 1 .. MaxLimbs - 1 /\ (n - 1) + 1 = n /\ n \in 1 .. MaxLimbs + 1
      BY <1>1, <2>5, <2>6
    <3> DEFINE p == h[n]
               u == w[n]
               v == d[n - 1]
    <3>2. p \in Int /\ u \in Int /\ p <= u - 1
      <4>1. h[n] \in Int /\ w[n] \in Int /\ h[n] < w[n]
        BY <1>5, <2>2, <2>5, <3>1
      <4> QED BY <4>1
    <3>3. v \in Int /\ v <= Base - 1
      BY <1>2, <3>1
    <3>4. h[n - 1] = v + Base * p /\ w[n - 1] = Base * u
      BY <1>5, <2>2, <3>1
    <3> HIDE DEF p, u, v
    <3>5. Base * p <= Base * (u - 1)
      BY <1>1, <3>2
    <3>6. Base * (u - 1) = Base * u - Base * 1 /\ Base * 1 = Base
      BY <1>1, <3>2, Products
    <3> DEFINE b == Base * p
               g == Base * u
    <3>7. b \in Int /\ g \in Int /\ b <= g - Base /\ h[n - 1] = v + b /\ w[n - 1] = g
      BY <1>1, <3>2, <3>4, <3>5, <3>6
    <3> HIDE DEF b, g
    <3>8. h[n - 1] < w[n - 1]
      BY <1>1, <3>3, <3>7
    <3>9. n <= n - 1
      BY <2>5, <3>1, <3>8
    <3> QED BY <3>1, <3>9
  <2> QED BY <2>2, <2>5, <2>6
<1> QED BY <1>2, <1>4, <1>8, <1>9, <1>10

\* Padded limbs are digits below the base.
LEMMA Padded ==
  ASSUME NEW s \in Limbs
  PROVE  /\ Pad(s) \in [1..MaxLimbs -> Limb] /\ Pad(s) \in Digits
         /\ \A k \in 1..MaxLimbs : Pad(s)[k] = IF k <= Len(s) THEN s[k] ELSE 0
<1>1. /\ Len(s) \in 1..MaxLimbs /\ Len(s) \in Nat /\ \A k \in 1..Len(s) : s[k] \in Limb
      /\ MaxLimbs \in Nat /\ 0 \in Limb /\ Limb \subseteq Int
  BY LimbsType, Sizes DEF Limb
<1>2. ASSUME NEW k \in 1..MaxLimbs PROVE (IF k <= Len(s) THEN s[k] ELSE 0) \in Limb
  <2>1. k <= Len(s) => k \in 1..Len(s)
    BY <1>1
  <2> QED BY <1>1, <2>1
<1> QED BY <1>1, <1>2 DEF Pad, Digits

\* Magnitude is the value of the limbs as digits.
LEMMA MagnitudeIs ==
  ASSUME NEW s \in Limbs
  PROVE  Magnitude(s) = V(Pad(s))
<1> DEFINE n == Len(s)
<1>1. /\ n \in 1..MaxLimbs /\ n \in Nat /\ \A k \in 1..n : s[k] \in Limb
      /\ MaxLimbs \in Nat /\ MaxLimbs >= 2 /\ Base \in Int
  BY LimbsType, Sizes
<1>2. Pad(s) \in Digits /\ \A k \in 1..MaxLimbs : Pad(s)[k] = IF k <= n THEN s[k] ELSE 0
  BY Padded
<1>3. PICK h \in Horners(Pad(s)) : TRUE
  BY <1>2, HornerExists
<1>4. V(Pad(s)) = h[1]
  BY <1>2, ValueIs
<1>5. /\ h \in [1 .. MaxLimbs + 1 -> Int] /\ h[MaxLimbs + 1] = 0
      /\ \A k \in 1..MaxLimbs : h[k] = Pad(s)[k] + Base * h[k + 1]
  BY DEF Horners
<1> HIDE DEF n
<1>6. h[n + 1] = 0
  <2> DEFINE S == {k \in Nat : k \in n + 1 .. MaxLimbs + 1 /\ \A j \in k .. MaxLimbs + 1 : h[j] = 0}
  <2>1. MaxLimbs + 1 \in S
    <3>1. MaxLimbs + 1 \in n + 1 .. MaxLimbs + 1 /\ \A j \in MaxLimbs + 1 .. MaxLimbs + 1 : j = MaxLimbs + 1
      BY <1>1
    <3> QED BY <1>1, <1>5, <3>1
  <2>2. PICK k \in S : \A j \in S : k <= j
    BY <2>1, LeastNatural
  <2>3. k \in n + 1 .. MaxLimbs + 1 /\ k \in Int /\ \A j \in k .. MaxLimbs + 1 : h[j] = 0
    BY <2>2
  <2>4. ASSUME k # n + 1 PROVE FALSE
    <3>1. /\ k - 1 \in 1..MaxLimbs /\ (k - 1) + 1 = k /\ ~(k - 1 <= n) /\ k - 1 \in Nat
          /\ k - 1 \in n + 1 .. MaxLimbs + 1 /\ k \in k .. MaxLimbs + 1
          /\ \A j \in k - 1 .. MaxLimbs + 1 : j = k - 1 \/ j \in k .. MaxLimbs + 1
      BY <1>1, <2>3, <2>4
    <3>2. h[k - 1] = 0 + Base * 0
      BY <1>2, <1>5, <2>3, <3>1
    <3>3. h[k - 1] = 0
      BY <1>1, <3>2
    <3>4. k - 1 \in S
      BY <2>3, <3>1, <3>3
    <3>5. k <= k - 1
      BY <2>2, <3>4
    <3> QED BY <2>3, <3>5
  <2>5. n + 1 \in n + 1 .. MaxLimbs + 1
    BY <1>1
  <2> QED BY <2>3, <2>4, <2>5
<1> DEFINE g == [k \in 0..n |-> h[n - k + 1]]
<1>7. \A k \in 0..n : g[k] = IF k = 0 THEN 0 ELSE s[n - k + 1] + Base * g[k - 1]
  <2>1. TAKE k \in 0..n
  <2>2. g[k] = h[n - k + 1]
    OBVIOUS
  <2>3. CASE k = 0
    <3>1. n - k + 1 = n + 1
      BY <1>1, <2>3
    <3> QED BY <1>6, <2>2, <2>3, <3>1
  <2>4. CASE k # 0
    <3>1. /\ k - 1 \in 0..n /\ n - k + 1 \in 1..MaxLimbs /\ n - k + 1 <= n
          /\ n - (k - 1) + 1 = (n - k + 1) + 1
      BY <1>1, <2>4
    <3>2. g[k - 1] = h[(n - k + 1) + 1]
      BY <3>1
    <3> HIDE DEF g
    <3>3. Pad(s)[n - k + 1] = s[n - k + 1]
      BY <1>2, <3>1
    <3>4. h[n - k + 1] = Pad(s)[n - k + 1] + Base * h[(n - k + 1) + 1]
      BY <1>5, <3>1
    <3> QED BY <2>2, <2>4, <3>2, <3>3, <3>4
  <2> QED BY <2>3, <2>4
<1>8. g = [k \in 0..n |-> IF k = 0 THEN 0 ELSE s[n - k + 1] + Base * g[k - 1]]
  <2>1. g = [k \in 0..n |-> g[k]]
    OBVIOUS
  <2> HIDE DEF g
  <2> QED BY <1>7, <2>1
<1> HIDE DEF g
<1>9. \E f : f = [k \in 0..n |-> IF k = 0 THEN 0 ELSE s[n - k + 1] + Base * f[k - 1]]
  BY <1>8
<1> DEFINE f[k \in 0..n] == IF k = 0 THEN 0 ELSE s[n - k + 1] + Base * f[k - 1]
<1>10. f = [k \in 0..n |-> IF k = 0 THEN 0 ELSE s[n - k + 1] + Base * f[k - 1]]
  BY <1>9
<1>11. Magnitude(s) = f[n]
  BY DEF Magnitude, n
<1> HIDE DEF f
<1>12. \A k \in 0..n : f[k] = g[k]
  <2> DEFINE D == {k \in 0..n : f[k] # g[k]}
  <2>1. SUFFICES ASSUME D # {} PROVE FALSE
    OBVIOUS
  <2>2. D \in SUBSET Nat
    BY <1>1
  <2>3. PICK k \in D : \A j \in D : k <= j
    BY <2>1, <2>2, LeastNatural
  <2>4. k \in 0..n /\ f[k] # g[k]
    BY <2>3
  <2>5. /\ f[k] = (IF k = 0 THEN 0 ELSE s[n - k + 1] + Base * f[k - 1])
        /\ g[k] = (IF k = 0 THEN 0 ELSE s[n - k + 1] + Base * g[k - 1])
    BY <1>8, <1>10, <2>4
  <2>6. k # 0 /\ f[k - 1] # g[k - 1]
    BY <2>4, <2>5
  <2>7. k - 1 \in 0..n /\ k \in Int
    BY <1>1, <2>4, <2>6
  <2>8. k <= k - 1
    BY <2>3, <2>6, <2>7
  <2> QED BY <2>7, <2>8
<1>13. n \in 0..n /\ n - n + 1 = 1
  BY <1>1
<1> QED BY <1>4, <1>11, <1>12, <1>13 DEF g

\* No digits but zeros
Zeros == [k \in 1..MaxLimbs |-> 0]

LEMMA ZerosValue ==
  Zeros \in Digits /\ V(Zeros) = 0
<1> DEFINE c == [k \in 1 .. MaxLimbs + 1 |-> 0]
           v == V(Zeros)
<1>1. /\ MaxLimbs \in Nat /\ Base \in Int /\ 1 \in 1 .. MaxLimbs + 1
      /\ MaxLimbs + 1 \in 1 .. MaxLimbs + 1
      /\ \A k \in 1..MaxLimbs : k \in 1 .. MaxLimbs + 1 /\ k + 1 \in 1 .. MaxLimbs + 1
  BY Sizes
<1>2. /\ Zeros \in Digits /\ c \in [1 .. MaxLimbs + 1 -> Int]
      /\ \A k \in 1..MaxLimbs : Zeros[k] = 0 /\ c[k] = 0 /\ c[k + 1] = 0
      /\ c[1] = 0 /\ c[MaxLimbs + 1] = 0
  BY <1>1 DEF Zeros, Digits
<1> HIDE DEF c
<1>3. \A k \in 1..MaxLimbs : Zeros[k] + Base * c[k + 1] = Zeros[k] + Zeros[k] + c[k]
  <2>1. Base * 0 = 0
    BY <1>1
  <2> QED BY <1>2, <2>1
<1>4. v + BitsLeft * (Unused * 0) = v + v + 0 /\ v \in Int
  <2>1. Adds(Zeros, Zeros, c, Zeros)
    BY <1>3 DEF Adds
  <2>2. /\ v + BitsLeft * (Unused * c[MaxLimbs + 1]) = v + v + c[1]
        /\ v \in Int
    BY <1>2, <2>1, Sums
  <2> QED BY <1>2, <2>2
<1> HIDE DEF v
<1>5. BitsLeft * (Unused * 0) = 0
  BY Moduli
<1>6. v = 0
  BY <1>4, <1>5
<1> QED BY <1>2, <1>6 DEF v

\* Digits that differ from others by carries alone, with a first carry and no last one
LEMMA Carried ==
  ASSUME NEW a1 \in Digits, NEW d \in Digits, NEW c \in [1 .. MaxLimbs + 1 -> Int],
         Adds(a1, Zeros, c, d)
  PROVE  /\ V(d) + BitsLeft * (Unused * c[MaxLimbs + 1]) = V(a1) + c[1]
         /\ V(d) \in Int /\ V(a1) \in Int
<1>1. Zeros \in Digits /\ V(Zeros) = 0
  BY ZerosValue
<1>2. /\ V(d) + BitsLeft * (Unused * c[MaxLimbs + 1]) = V(a1) + V(Zeros) + c[1]
      /\ V(d) \in Int /\ V(a1) \in Int
  BY <1>1, Sums, ZenonT(60)
<1>3. V(a1) + 0 = V(a1)
  BY <1>2
<1> QED BY <1>1, <1>2, <1>3

\* A new lowest digit
LEMMA LowestDigit ==
  ASSUME NEW a1 \in Digits, NEW d \in Digits,
         \A k \in 1..MaxLimbs : k # 1 => d[k] = a1[k]
  PROVE  V(d) = V(a1) + (d[1] - a1[1]) /\ V(a1) \in Int
<1> DEFINE u == d[1] - a1[1]
           c == [k \in 1 .. MaxLimbs + 1 |-> IF k = 1 THEN u ELSE 0]
<1>1. /\ MaxLimbs \in Nat /\ MaxLimbs >= 2 /\ Base \in Int /\ 1 \in 1..MaxLimbs
      /\ MaxLimbs + 1 # 1 /\ MaxLimbs + 1 \in 1 .. MaxLimbs + 1 /\ 1 \in 1 .. MaxLimbs + 1
      /\ \A k \in 1..MaxLimbs : k \in 1 .. MaxLimbs + 1 /\ k + 1 \in 1 .. MaxLimbs + 1 /\ k + 1 # 1
  BY Sizes
<1>2. /\ d[1] \in Int /\ a1[1] \in Int /\ u \in Int /\ d[1] = a1[1] + u
      /\ \A k \in 1..MaxLimbs : d[k] \in Int /\ a1[k] \in Int
  BY <1>1 DEF Digits
<1> HIDE DEF u
<1>3. /\ c \in [1 .. MaxLimbs + 1 -> Int] /\ c[1] = u /\ c[MaxLimbs + 1] = 0
      /\ \A k \in 1..MaxLimbs : c[k] = (IF k = 1 THEN u ELSE 0) /\ c[k + 1] = 0
  BY <1>1, <1>2
<1> HIDE DEF c
<1>4. ASSUME NEW k \in 1..MaxLimbs PROVE d[k] + Base * c[k + 1] = a1[k] + Zeros[k] + c[k]
  <2>1. Base * c[k + 1] = 0 /\ Zeros[k] = 0
    BY <1>1, <1>3 DEF Zeros
  <2>2. d[k] + 0 = a1[k] + 0 + (IF k = 1 THEN u ELSE 0)
    BY <1>2
  <2> QED BY <1>3, <2>1, <2>2
<1>5. V(d) + BitsLeft * (Unused * 0) = V(a1) + u /\ V(d) \in Int /\ V(a1) \in Int
  <2>1. Adds(a1, Zeros, c, d)
    BY <1>4 DEF Adds
  <2>2. /\ V(d) + BitsLeft * (Unused * c[MaxLimbs + 1]) = V(a1) + c[1]
        /\ V(d) \in Int /\ V(a1) \in Int
    BY <1>3, <2>1, Carried
  <2> QED BY <1>3, <2>2
<1>6. BitsLeft * (Unused * 0) = 0
  BY Moduli
<1>7. V(d) = V(a1) + u
  BY <1>5, <1>6
<1> QED BY <1>5, <1>7 DEF u

\* The values of one limb and of two
LEMMA FewValues ==
  ASSUME NEW u \in Limb
  PROVE  /\ V(Pad(<<u>>)) = u
         /\ V(Pad(<<u, 1>>)) = u + Base
<1>1. /\ MaxLimbs \in Nat /\ MaxLimbs >= 2 /\ Base \in Int /\ 1 \in 1..MaxLimbs /\ 2 \in 1..MaxLimbs
      /\ u \in Int /\ 1 # MaxLimbs + 1 /\ 2 # MaxLimbs + 1 /\ 1 \in 1 .. MaxLimbs + 1
      /\ MaxLimbs + 1 \in 1 .. MaxLimbs + 1
      /\ \A k \in 1..MaxLimbs : /\ k \in 1 .. MaxLimbs + 1 /\ k + 1 \in 1 .. MaxLimbs + 1
                                /\ k + 1 # 1 /\ (k + 1 = 2 <=> k = 1)
  BY Sizes DEF Limb
<1>2. /\ <<u>> \in Limbs /\ <<u, 1>> \in Limbs
      /\ Pad(<<u>>) \in Digits /\ Pad(<<u, 1>>) \in Digits
      /\ \A k \in 1..MaxLimbs : Pad(<<u>>)[k] = IF k <= Len(<<u>>) THEN <<u>>[k] ELSE 0
      /\ \A k \in 1..MaxLimbs : Pad(<<u, 1>>)[k] = IF k <= Len(<<u, 1>>) THEN <<u, 1>>[k] ELSE 0
  BY FewLimbs, Padded
<1> DEFINE d == Pad(<<u>>)
           e == Pad(<<u, 1>>)
<1>3. \A k \in 1..MaxLimbs : /\ d[k] = IF k = 1 THEN u ELSE 0
                             /\ e[k] = IF k = 1 THEN u ELSE IF k = 2 THEN 1 ELSE 0
  <2>1. TAKE k \in 1..MaxLimbs
  <2>2. Len(<<u>>) = 1 /\ Len(<<u, 1>>) = 2 /\ <<u>>[1] = u /\ <<u, 1>>[1] = u /\ <<u, 1>>[2] = 1
    OBVIOUS
  <2>3. (k <= 1 <=> k = 1) /\ (k <= 2 <=> k = 1 \/ k = 2)
    OBVIOUS
  <2> QED BY <1>2, <2>2, <2>3
<1>4. Zeros \in Digits /\ V(Zeros) = 0 /\ \A k \in 1..MaxLimbs : Zeros[k] = 0
  BY ZerosValue DEF Zeros
<1>5. d \in Digits /\ e \in Digits
  BY <1>2
<1> HIDE DEF d, e
<1>6. V(d) = u
  <2>1. \A k \in 1..MaxLimbs : k # 1 => d[k] = Zeros[k]
    BY <1>3, <1>4
  <2>2. V(d) = V(Zeros) + (d[1] - Zeros[1])
    BY <1>4, <1>5, <2>1, LowestDigit
  <2>3. d[1] = u /\ Zeros[1] = 0
    BY <1>1, <1>3, <1>4
  <2> QED BY <1>1, <1>4, <2>2, <2>3
<1>7. V(e) = u + Base
  <2> DEFINE v == u + Base
             c == [k \in 1 .. MaxLimbs + 1 |-> IF k = 1 THEN v ELSE IF k = 2 THEN 1 ELSE 0]
  <2>1. v \in Int
    BY <1>1
  <2>2. /\ c \in [1 .. MaxLimbs + 1 -> Int] /\ c[1] = v /\ c[MaxLimbs + 1] = 0
        /\ \A k \in 1..MaxLimbs : /\ c[k] = IF k = 1 THEN v ELSE IF k = 2 THEN 1 ELSE 0
                                  /\ c[k + 1] = IF k = 1 THEN 1 ELSE 0
    BY <1>1, <2>1
  <2> HIDE DEF c
  <2>3. ASSUME NEW k \in 1..MaxLimbs PROVE e[k] + Base * c[k + 1] = Zeros[k] + Zeros[k] + c[k]
    <3>1. Base * 0 = 0 /\ Base * 1 = Base
      BY <1>1
    <3>2. CASE k = 1
      <4>1. e[k] = u /\ c[k + 1] = 1 /\ Zeros[k] = 0 /\ c[k] = v
        BY <1>3, <1>4, <2>2, <3>2
      <4> QED BY <1>1, <3>1, <4>1
    <3>3. CASE k = 2
      <4>1. e[k] = 1 /\ c[k + 1] = 0 /\ Zeros[k] = 0 /\ c[k] = 1
        BY <1>3, <1>4, <2>2, <3>3
      <4> QED BY <3>1, <4>1
    <3>4. CASE k # 1 /\ k # 2
      <4>1. e[k] = 0 /\ c[k + 1] = 0 /\ Zeros[k] = 0 /\ c[k] = 0
        BY <1>3, <1>4, <2>2, <3>4
      <4> QED BY <3>1, <4>1
    <3> QED BY <3>2, <3>3, <3>4
  <2> HIDE DEF v
  <2>4. V(e) + BitsLeft * (Unused * 0) = V(Zeros) + v /\ V(e) \in Int
    <3>1. Adds(Zeros, Zeros, c, e)
      BY <2>3 DEF Adds
    <3>2. V(e) + BitsLeft * (Unused * c[MaxLimbs + 1]) = V(Zeros) + c[1] /\ V(e) \in Int
      BY <1>4, <1>5, <2>2, <3>1, Carried
    <3> QED BY <2>2, <3>2
  <2>5. BitsLeft * (Unused * 0) = 0
    BY Moduli
  <2>6. V(e) = v
    BY <1>4, <2>1, <2>4, <2>5
  <2> QED BY <2>6 DEF v
<1> QED BY <1>6, <1>7 DEF d, e

\* Numbers in normal form are below the modulus, and only one of them is zero.
LEMMA NormalValue ==
  ASSUME NEW s \in Limbs, NormalLimbs(s)
  PROVE  /\ V(Pad(s)) \in Int /\ V(Pad(s)) >= 0 /\ V(Pad(s)) < BitsLeft
         /\ V(Pad(s)) = 0 <=> s = <<0>>
<1> DEFINE v == V(Pad(s))
<1>1. /\ Pad(s) \in [1..MaxLimbs -> Limb]
      /\ \A k \in 1..MaxLimbs : Pad(s)[k] = IF k <= Len(s) THEN s[k] ELSE 0
  BY Padded
<1>2. /\ Len(s) \in 1..MaxLimbs /\ Len(s) \in Nat /\ s \in Seq(Limb)
      /\ MaxLimbs \in Nat /\ MaxLimbs \in 1..MaxLimbs /\ TopLimb \in Int /\ TopLimb >= 2
  BY LimbsType, Sizes
<1>3. Pad(s)[MaxLimbs] < TopLimb
  <2>1. CASE Len(s) = MaxLimbs
    <3>1. MaxLimbs <= Len(s) /\ s[MaxLimbs] < TopLimb
      BY <1>2, <2>1 DEF NormalLimbs
    <3> QED BY <1>1, <1>2, <3>1
  <2>2. CASE Len(s) # MaxLimbs
    <3>1. ~(MaxLimbs <= Len(s))
      BY <1>2, <2>2
    <3>2. Pad(s)[MaxLimbs] = 0
      BY <1>1, <1>2, <3>1
    <3> QED BY <1>2, <3>2
  <2> QED BY <2>1, <2>2
<1>4. v \in Int /\ v >= 0 /\ v < BitsLeft
  BY <1>1, <1>3, Bounds
<1>5. s = <<0>> => v = 0
  <2> HAVE s = <<0>>
  <2>1. 0 \in Limb
    BY Sizes DEF Limb
  <2> QED BY <2>1, FewValues
<1>6. s # <<0>> => v > 0
  <2> HAVE s # <<0>>
  <2>1. s[Len(s)] # 0
    <3>1. CASE Len(s) = 1
      <4>1. s[1] # 0
        BY <1>2, <3>1
      <4> QED BY <3>1, <4>1
    <3>2. CASE Len(s) # 1
      <4> DEFINE l == Len(s)
      <4>1. l \in Nat /\ l # 0 /\ l # 1
        BY <1>2, <3>2
      <4> HIDE DEF l
      <4>2. l > 1
        BY <4>1
      <4>3. Len(s) > 1
        BY <4>2 DEF l
      <4> QED BY <4>3 DEF NormalLimbs
    <3> QED BY <3>1, <3>2
  <2>2. Len(s) <= Len(s)
    BY <1>2
  <2>3. Pad(s)[Len(s)] # 0
    BY <1>1, <1>2, <2>1, <2>2
  <2> QED BY <1>1, <1>2, <2>3, Bounds
<1> HIDE DEF v
<1>7. v = 0 <=> s = <<0>>
  <2>1. v > 0 => v # 0
    BY <1>4
  <2> QED BY <1>5, <1>6, <2>1
<1> QED BY <1>4, <1>7 DEF v

\* normalize() takes off a multiple of the modulus, which is not zero exactly if the
\* topmost limb does not fit.
LEMMA NormalizedValue ==
  ASSUME NEW s \in Limbs
  PROVE  \E q \in Nat :
           /\ V(Pad(s)) = V(Pad(normalized(s))) + BitsLeft * q
           /\ q = 0 <=> ~(Len(s) = MaxLimbs /\ s[MaxLimbs] >= TopLimb)
<1> DEFINE n == normalized(s)
           q == s[MaxLimbs] \div TopLimb
           e == s[MaxLimbs] % TopLimb
           z == IF Len(s) = MaxLimbs THEN q ELSE 0
<1>1. /\ n \in Limbs /\ Len(n) <= Len(s)
      /\ \A k \in 1..Len(n) :
           n[k] = IF k = Len(s)
                  THEN IF Len(s) = MaxLimbs THEN e ELSE s[Len(s)]
                  ELSE s[k]
      /\ \A k \in Len(n) + 1 .. Len(s) :
           (IF k = Len(s) THEN IF Len(s) = MaxLimbs THEN e ELSE s[Len(s)] ELSE s[k]) = 0
  BY NormalizedLimbs
<1>2. /\ Len(s) \in 1..MaxLimbs /\ Len(s) \in Nat /\ Len(n) \in 1..MaxLimbs /\ Len(n) \in Nat
      /\ \A k \in 1..Len(s) : s[k] \in Limb
      /\ MaxLimbs \in Nat /\ MaxLimbs \in 1..MaxLimbs /\ TopLimb \in Nat \ {0} /\ TopLimb \in Int
      /\ \A k \in 1 .. MaxLimbs - 1 : k \in 1..MaxLimbs /\ k # MaxLimbs
  BY <1>1, LimbsType, Sizes
<1>3. /\ Pad(s) \in Digits /\ Pad(n) \in Digits
      /\ \A k \in 1..MaxLimbs : Pad(s)[k] = IF k <= Len(s) THEN s[k] ELSE 0
      /\ \A k \in 1..MaxLimbs : Pad(n)[k] = IF k <= Len(n) THEN n[k] ELSE 0
  BY <1>1, Padded
<1>4. ASSUME Len(s) = MaxLimbs
      PROVE  /\ s[MaxLimbs] \in Int /\ s[MaxLimbs] >= 0 /\ q \in Int /\ e \in 0 .. TopLimb - 1
             /\ s[MaxLimbs] = TopLimb * q + e
  <2>1. s[MaxLimbs] \in Limb
    BY <1>2, <1>4
  <2>2. s[MaxLimbs] \in Int /\ s[MaxLimbs] >= 0
    BY <2>1, Sizes DEF Limb
  <2> QED BY <1>2, <2>2, Division
<1> HIDE DEF n, q, e
<1>5. \A k \in 1..MaxLimbs :
        Pad(n)[k] = IF k = MaxLimbs /\ Len(s) = MaxLimbs THEN e ELSE Pad(s)[k]
  <2>1. TAKE k \in 1..MaxLimbs
  <2>2. CASE k <= Len(n)
    <3>1. k \in 1..Len(n) /\ k <= Len(s)
      BY <1>1, <1>2, <2>2
    <3> QED BY <1>1, <1>3, <2>2, <3>1
  <2>3. CASE ~(k <= Len(n)) /\ k <= Len(s)
    <3>1. k \in Len(n) + 1 .. Len(s)
      BY <1>2, <2>3
    <3> QED BY <1>1, <1>3, <2>3, <3>1
  <2>4. CASE ~(k <= Len(n)) /\ ~(k <= Len(s))
    <3>1. ~(k = MaxLimbs /\ Len(s) = MaxLimbs)
      BY <1>2, <2>4
    <3> QED BY <1>3, <2>4, <3>1
  <2> QED BY <2>2, <2>3, <2>4
<1>6. \A k \in 1 .. MaxLimbs - 1 : Pad(s)[k] = Pad(n)[k]
  BY <1>2, <1>5
<1>7. z \in Int /\ Pad(s)[MaxLimbs] = TopLimb * z + Pad(n)[MaxLimbs]
  <2>1. CASE Len(s) = MaxLimbs
    <3>1. Pad(s)[MaxLimbs] = s[MaxLimbs] /\ Pad(n)[MaxLimbs] = e
      BY <1>2, <1>3, <1>5, <2>1
    <3> QED BY <1>4, <2>1, <3>1
  <2>2. CASE Len(s) # MaxLimbs
    <3>1. Pad(n)[MaxLimbs] = Pad(s)[MaxLimbs] /\ Pad(s)[MaxLimbs] \in Int
      BY <1>2, <1>3, <1>5, <2>2 DEF Digits
    <3> DEFINE u == Pad(n)[MaxLimbs]
    <3>2. u \in Int /\ Pad(s)[MaxLimbs] = u /\ z = 0
      BY <2>2, <3>1
    <3> HIDE DEF u, z
    <3>3. u = TopLimb * 0 + u
      BY <1>2, <3>2
    <3> QED BY <3>2, <3>3 DEF u
  <2> QED BY <2>1, <2>2
<1>8. V(Pad(s)) = V(Pad(n)) + BitsLeft * z
  <2> HIDE DEF z
  <2> QED BY <1>3, <1>6, <1>7, Masked
<1>9. z \in Nat /\ (z = 0 <=> ~(Len(s) = MaxLimbs /\ s[MaxLimbs] >= TopLimb))
  <2>1. CASE Len(s) = MaxLimbs
    <3> DEFINE t == s[MaxLimbs]
    <3>1. t \in Int /\ t >= 0 /\ q \in Int /\ e \in Int /\ 0 <= e /\ e < TopLimb /\ t = TopLimb * q + e
      BY <1>2, <1>4, <2>1
    <3> HIDE DEF t
    <3>2. ASSUME q <= -1 PROVE FALSE
      <4>1. TopLimb * q <= TopLimb * (-1)
        BY <1>2, <3>1, <3>2
      <4> DEFINE b == TopLimb * q
      <4>2. b \in Int /\ b <= -TopLimb /\ t = b + e
        BY <1>2, <3>1, <4>1
      <4> HIDE DEF b
      <4> QED BY <1>2, <3>1, <4>2
    <3>3. ASSUME q >= 1 PROVE t >= TopLimb
      <4>1. TopLimb * q >= TopLimb * 1
        BY <1>2, <3>1, <3>3
      <4> DEFINE b == TopLimb * q
      <4>2. b \in Int /\ b >= TopLimb /\ t = b + e
        BY <1>2, <3>1, <4>1
      <4> HIDE DEF b
      <4> QED BY <1>2, <3>1, <4>2
    <3>4. ASSUME q = 0 PROVE ~(t >= TopLimb)
      BY <1>2, <3>1, <3>4
    <3>5. z = q
      BY <2>1
    <3> HIDE DEF z
    <3>6. q \in Nat /\ (q = 0 <=> ~(t >= TopLimb))
      BY <3>1, <3>2, <3>3, <3>4
    <3> QED BY <2>1, <3>5, <3>6 DEF t
  <2>2. CASE Len(s) # MaxLimbs
    BY <2>2
  <2> QED BY <2>1, <2>2
<1> HIDE DEF z
<1> QED BY <1>8, <1>9 DEF n

\* One more than a magnitude
LEMMA SuccessorValue ==
  ASSUME NEW s \in Limbs, Successor(s) \in Limbs, NormalLimbs(s), V(Pad(s)) < BitsLeft - 1
  PROVE  V(Pad(Successor(s))) = V(Pad(s)) + 1
<1> DEFINE full == {k \in 1..Len(s) : \A j \in 1..k : s[j] = Base - 1}
           n == Smaller(MaxLimbs, IF Len(s) \in full THEN Len(s) + 1 ELSE Len(s))
           t == Successor(s)
           d == Pad(t)
           f == Pad(s)
           c == [k \in 1 .. MaxLimbs + 1 |-> IF k = 1 \/ k - 1 \in full THEN 1 ELSE 0]
<1>1. /\ Len(s) \in 1..MaxLimbs /\ Len(s) \in Nat /\ Len(s) >= 1 /\ Len(s) <= MaxLimbs
      /\ MaxLimbs \in Nat /\ MaxLimbs >= 2 /\ Base \in Int
      /\ 1 \in 1 .. MaxLimbs + 1 /\ MaxLimbs + 1 \in 1 .. MaxLimbs + 1
      /\ \A k \in 1..MaxLimbs : /\ k \in 1 .. MaxLimbs + 1 /\ k + 1 \in 1 .. MaxLimbs + 1
                                /\ k + 1 # 1 /\ (k + 1) - 1 = k
  BY LimbsType, Sizes
<1>2. /\ d \in Digits /\ f \in Digits
      /\ \A k \in 1..MaxLimbs : d[k] = IF k <= Len(t) THEN t[k] ELSE 0
      /\ \A k \in 1..MaxLimbs : f[k] = IF k <= Len(s) THEN s[k] ELSE 0
      /\ d \in [1..MaxLimbs -> Limb]
  BY Padded
<1>3. t = [k \in 1..n |-> IF k \in full THEN 0
                          ELSE IF k > 1 /\ k - 1 \notin full THEN s[k]
                          ELSE IF k > Len(s) THEN 1 ELSE s[k] + 1]
  BY DEF Successor
<1>4. n \in Nat /\ n >= Len(s) /\ (n = Len(s) \/ (n = Len(s) + 1 /\ Len(s) \in full))
      /\ (Len(s) \in full /\ Len(s) < MaxLimbs => n = Len(s) + 1)
  BY <1>1 DEF Smaller
<1>5. /\ Len(t) = n
      /\ \A k \in 1..n : t[k] = IF k \in full THEN 0
                                ELSE IF k > 1 /\ k - 1 \notin full THEN s[k]
                                ELSE IF k > Len(s) THEN 1 ELSE s[k] + 1
  BY <1>3, <1>4
<1>6. /\ c \in [1 .. MaxLimbs + 1 -> Int] /\ c[1] = 1 /\ c[MaxLimbs + 1] \in {0, 1}
      /\ \A k \in 1..MaxLimbs : /\ c[k] = IF k = 1 \/ k - 1 \in full THEN 1 ELSE 0
                                /\ c[k + 1] = IF k \in full THEN 1 ELSE 0
  BY <1>1
<1>7. \A k \in full : /\ k \in 1..Len(s) /\ s[k] = Base - 1
                      /\ k = 1 \/ k - 1 \in full
  <2>1. TAKE k \in full
  <2>2. k \in 1..Len(s) /\ \A j \in 1..k : s[j] = Base - 1
    OBVIOUS
  <2>3. k \in 1..k /\ (k # 1 => k - 1 \in 1..Len(s) /\ \A j \in 1 .. k - 1 : j \in 1..k)
    BY <1>1, <2>2
  <2> QED BY <2>2, <2>3
<1> HIDE DEF full, n, t, d, f, c
<1>8. ASSUME NEW k \in 1..MaxLimbs
      PROVE  d[k] + Base * c[k + 1] = f[k] + Zeros[k] + c[k]
  <2>1. Base * 0 = 0 /\ Base * 1 = Base /\ Zeros[k] = 0 /\ k \in Int /\ k >= 1
    BY <1>1 DEF Zeros
  <2>2. CASE k \in full
    <3>1. k <= Len(s) /\ k <= n /\ k \in 1..n
      BY <1>1, <1>4, <1>7, <2>2
    <3>2. d[k] = 0 /\ f[k] = Base - 1 /\ c[k] = 1 /\ c[k + 1] = 1
      BY <1>2, <1>5, <1>6, <1>7, <2>2, <3>1
    <3> QED BY <1>1, <2>1, <3>2
  <2>3. CASE k \notin full /\ k > 1 /\ k - 1 \notin full
    <3>1. c[k] = 0 /\ c[k + 1] = 0
      <4>1. k # 1
        BY <2>1, <2>3
      <4> QED BY <1>6, <2>3, <4>1
    <3>2. d[k] = f[k]
      <4>1. CASE k <= Len(s)
        <5>1. k <= n /\ k \in 1..n
          BY <1>1, <1>4, <2>1, <4>1
        <5> QED BY <1>2, <1>5, <2>3, <4>1, <5>1
      <4>2. CASE ~(k <= Len(s))
        <5>1. ~(k <= n)
          <6>1. ASSUME k <= n PROVE FALSE
            <7>1. n = Len(s) + 1 /\ k - 1 = Len(s) /\ Len(s) \in full
              BY <1>1, <1>4, <2>1, <4>2, <6>1
            <7> QED BY <2>3, <7>1
          <6> QED BY <6>1
        <5> QED BY <1>2, <1>5, <4>2, <5>1
      <4> QED BY <4>1, <4>2
    <3>3. f[k] \in Int
      BY <1>2 DEF Digits
    <3> QED BY <2>1, <3>1, <3>2, <3>3
  <2>4. CASE k \notin full /\ (k = 1 \/ k - 1 \in full)
    <3>1. c[k] = 1 /\ c[k + 1] = 0
      BY <1>6, <2>4
    <3>2. ~(k > 1 /\ k - 1 \notin full)
      BY <2>1, <2>4
    <3>3. d[k] = f[k] + 1
      <4>1. CASE k <= Len(s)
        <5>1. k <= n /\ k \in 1..n /\ ~(k > Len(s))
          BY <1>1, <1>4, <2>1, <4>1
        <5> QED BY <1>2, <1>5, <2>4, <3>2, <4>1, <5>1
      <4>2. CASE ~(k <= Len(s))
        <5>1. k - 1 \in 1..Len(s)
          BY <1>1, <1>7, <2>4, <4>2
        <5>2. k - 1 = Len(s) /\ k > Len(s) /\ k # 1
          BY <1>1, <2>1, <4>2, <5>1
        <5>3. Len(s) \in full
          BY <2>4, <5>2
        <5>4. n = Len(s) + 1
          BY <1>1, <1>4, <2>1, <5>2, <5>3
        <5>5. k <= n /\ k \in 1..n
          BY <1>1, <2>1, <5>2, <5>4
        <5>6. d[k] = 1 /\ f[k] = 0
          BY <1>2, <1>5, <2>4, <3>2, <4>2, <5>2, <5>5
        <5> QED BY <5>6
      <4> QED BY <4>1, <4>2
    <3>4. f[k] \in Int
      BY <1>2 DEF Digits
    <3> QED BY <2>1, <3>1, <3>3, <3>4
  <2>5. k > 1 \/ k = 1
    BY <2>1
  <2> QED BY <2>2, <2>3, <2>4, <2>5
<1>9. Adds(f, Zeros, c, d)
  BY <1>8 DEF Adds
<1> DEFINE e == c[MaxLimbs + 1]
           v == V(d)
           w == V(f)
<1>10. v + BitsLeft * (Unused * e) = w + 1 /\ v \in Int /\ w \in Int /\ e \in {0, 1}
  <2>1. v + BitsLeft * (Unused * e) = w + c[1] /\ v \in Int /\ w \in Int
    BY <1>2, <1>6, <1>9, Carried
  <2> QED BY <1>6, <2>1
<1>11. v >= 0 /\ w < BitsLeft - 1
  <2>1. v >= 0
    BY <1>2, Bounds
  <2> QED BY <2>1 DEF f
<1> HIDE DEF e, v, w
<1>12. e = 0
  <2>1. SUFFICES ASSUME e = 1 PROVE FALSE
    BY <1>10
  <2>2. Unused * e = Unused /\ Unused \in Int /\ Unused >= 1 /\ BitsLeft \in Int /\ BitsLeft > 0
    BY <2>1, Moduli
  <2>3. BitsLeft * Unused >= BitsLeft * 1
    BY <2>2
  <2> DEFINE b == BitsLeft * Unused
  <2>4. b \in Int /\ b >= BitsLeft /\ v + b = w + 1
    BY <1>10, <2>2, <2>3
  <2> HIDE DEF b
  <2> QED BY <1>10, <1>11, <2>2, <2>4
<1>13. BitsLeft * (Unused * 0) = 0
  BY Moduli
<1>14. v = w + 1
  BY <1>10, <1>12, <1>13
<1> QED BY <1>14 DEF v, w, d, t, f

\* The two's complement
LEMMA ComplementValue ==
  ASSUME NEW s \in Limbs, NormalLimbs(s)
  PROVE  s # <<0>> => /\ V(Pad(complement(s))) = BitsLeft - V(Pad(s))
                      /\ complement(s) \in Limbs /\ NormalLimbs(complement(s))
<1> DEFINE c == [k \in 1..MaxLimbs |-> Base - 1 - (IF k <= Len(s) THEN s[k] ELSE 0)]
           n == normalized(c)
           all == [k \in 1..MaxLimbs |-> Base - 1]
           no == [k \in 1 .. MaxLimbs + 1 |-> 0]
           ones == [k \in 1 .. MaxLimbs + 1 |-> 1]
           v == V(Pad(s))
<1>0. HAVE s # <<0>>
<1>1. /\ MaxLimbs \in Nat /\ MaxLimbs >= 2 /\ Base \in Int /\ Base >= 2 /\ 1 \in 1 .. MaxLimbs + 1
      /\ MaxLimbs + 1 \in 1 .. MaxLimbs + 1 /\ MaxLimbs \in 1..MaxLimbs
      /\ \A k \in 1..MaxLimbs : k \in 1 .. MaxLimbs + 1 /\ k + 1 \in 1 .. MaxLimbs + 1
  BY Sizes
<1>2. /\ Pad(s) \in Digits /\ Pad(s) \in [1..MaxLimbs -> Limb]
      /\ \A k \in 1..MaxLimbs : Pad(s)[k] = IF k <= Len(s) THEN s[k] ELSE 0
  BY Padded
<1>3. v \in Int /\ v > 0 /\ v < BitsLeft
  BY <1>0, NormalValue
<1>4. c = [k \in 1..MaxLimbs |-> Base - 1 - Pad(s)[k]]
  BY <1>2
<1>5. c \in [1..MaxLimbs -> Limb] /\ \A k \in 1..MaxLimbs : c[k] = Base - 1 - Pad(s)[k]
  <2>1. ASSUME NEW k \in 1..MaxLimbs PROVE Base - 1 - Pad(s)[k] \in Limb
    <3>1. Pad(s)[k] \in Limb
      BY <1>2
    <3> QED BY <1>1, <3>1 DEF Limb
  <2> QED BY <1>4, <2>1
<1>6. complement(s) = Successor(n)
  BY DEF complement
<1> HIDE DEF c, v
<1>7. c \in Limbs /\ Len(c) = MaxLimbs /\ c \in Digits /\ Pad(c) = c
  <2>1. c \in Limbs /\ Len(c) = MaxLimbs
    BY <1>1, <1>5, LimbsMade
  <2>2. c \in Digits
    BY <1>5, Sizes DEF Limb, Digits
  <2>3. \A k \in 1..MaxLimbs : Pad(c)[k] = c[k]
    <3>1. TAKE k \in 1..MaxLimbs
    <3>2. k <= Len(c)
      BY <1>1, <2>1
    <3> QED BY <2>1, <3>2, Padded
  <2>4. Pad(c) \in [1..MaxLimbs -> Limb]
    BY <2>1, Padded
  <2> QED BY <1>5, <2>1, <2>2, <2>3, <2>4
<1>8. /\ all \in Digits /\ \A k \in 1..MaxLimbs : all[k] = Base - 1
      /\ no \in [1 .. MaxLimbs + 1 -> Int] /\ no[1] = 0 /\ no[MaxLimbs + 1] = 0
      /\ \A k \in 1..MaxLimbs : no[k] = 0 /\ no[k + 1] = 0
      /\ ones \in [1 .. MaxLimbs + 1 -> Int] /\ ones[1] = 1 /\ ones[MaxLimbs + 1] = 1
      /\ \A k \in 1..MaxLimbs : ones[k] = 1 /\ ones[k + 1] = 1
  BY <1>1 DEF Digits
<1> HIDE DEF all, no, ones
<1>9. Adds(c, Pad(s), no, all)
  <2>1. ASSUME NEW k \in 1..MaxLimbs
        PROVE  all[k] + Base * no[k + 1] = c[k] + Pad(s)[k] + no[k]
    <3>1. Pad(s)[k] \in Int /\ Base * 0 = 0
      BY <1>1, <1>2 DEF Digits
    <3>2. Base - 1 + 0 = (Base - 1 - Pad(s)[k]) + Pad(s)[k] + 0
      BY <1>1, <3>1
    <3> QED BY <1>5, <1>8, <3>1, <3>2
  <2> QED BY <2>1 DEF Adds
<1>10. Adds(all, Zeros, ones, Zeros)
  <2>1. ASSUME NEW k \in 1..MaxLimbs
        PROVE  Zeros[k] + Base * ones[k + 1] = all[k] + Zeros[k] + ones[k]
    <3>1. Base * 1 = Base /\ Zeros[k] = 0
      BY <1>1 DEF Zeros
    <3>2. 0 + Base = (Base - 1) + 0 + 1
      BY <1>1
    <3> QED BY <1>8, <3>1, <3>2
  <2> QED BY <2>1 DEF Adds
<1> DEFINE va == V(all)
           vc == V(c)
           vn == V(Pad(n))
           b == BitsLeft * Unused
<1>11. va = vc + v /\ va \in Int /\ vc \in Int
  <2>1. va + BitsLeft * (Unused * no[MaxLimbs + 1]) = vc + v + no[1] /\ va \in Int /\ vc \in Int
    BY <1>2, <1>7, <1>8, <1>9, Sums, SMTT(60) DEF v
  <2>2. BitsLeft * (Unused * 0) = 0
    BY Moduli
  <2> HIDE DEF va, vc
  <2> QED BY <1>3, <1>8, <2>1, <2>2
<1>12. va + 1 = b /\ b \in Int
  <2>1. V(Zeros) + BitsLeft * (Unused * ones[MaxLimbs + 1]) = va + ones[1]
    BY <1>8, <1>10, ZerosValue, Carried
  <2>2. Unused * 1 = Unused /\ b \in Int
    BY Moduli
  <2>3. 0 + b = va + 1
    BY <1>8, <2>1, <2>2, ZerosValue
  <2> HIDE DEF b, va
  <2> QED BY <1>11, <2>2, <2>3
<1>13. n \in Limbs /\ NormalLimbs(n)
  BY <1>7, NormalizedLimbs
<1>14. PICK q \in Nat : V(Pad(c)) = V(Pad(n)) + BitsLeft * q
  BY <1>7, NormalizedValue
<1>15. vn \in Int /\ vn >= 0 /\ vn < BitsLeft
  BY <1>13, NormalValue
<1> DEFINE f == BitsLeft * q
<1>16. vc = vn + f /\ f \in Int /\ BitsLeft \in Nat \ {0} /\ BitsLeft \in Int
  <2>1. BitsLeft \in Nat \ {0}
    BY Moduli
  <2> QED BY <1>7, <1>14, <2>1
<1>17. vn = BitsLeft - 1 - v
  <2> DEFINE p == Unused - 1
             g == BitsLeft * p
             u == BitsLeft - 1 - v
  <2>1. p \in Int /\ g = b - BitsLeft /\ g \in Int
    <3>1. Unused \in Int /\ BitsLeft * 1 = BitsLeft
      BY <1>16, Moduli
    <3>2. g = BitsLeft * Unused - BitsLeft * 1
      BY <1>16, <3>1, Products
    <3>3. p \in Int
      BY <3>1
    <3> HIDE DEF p
    <3> QED BY <1>16, <3>1, <3>2, <3>3
  <2>2. BitsLeft \in Int /\ BitsLeft \in Nat \ {0}
    BY <1>16
  <2>3. vc = g + u
    <3> HIDE DEF va, vc, b, g, f
    <3> QED BY <1>3, <1>11, <1>12, <2>1, <2>2
  <2>4. u \in 0 .. BitsLeft - 1
    BY <1>3, <2>2
  <2>5. vn \in 0 .. BitsLeft - 1
    <3> HIDE DEF vn
    <3> QED BY <1>15, <2>2
  <2> HIDE DEF va, vc, vn, u, p, b
  <2>6. vc = BitsLeft * p + u /\ vc = BitsLeft * q + vn
    <3>1. f + vn = vn + f
      BY <1>15, <1>16
    <3> QED BY <1>16, <2>3, <3>1
  <2>7. vc \in Int /\ p \in Int /\ q \in Int
    BY <1>11, <2>1
  <2>8. vc % BitsLeft = u
    BY <2>2, <2>4, <2>6, <2>7, UniqueDivision
  <2>9. vc % BitsLeft = vn
    BY <2>2, <2>5, <2>6, <2>7, UniqueDivision
  <2> QED BY <2>8, <2>9 DEF u
<1>18. complement(s) \in Limbs /\ NormalLimbs(complement(s))
  BY <1>0, ComplementNormal
<1>19. V(Pad(n)) < BitsLeft - 1
  <2> HIDE DEF vn
  <2>1. vn < BitsLeft - 1
    BY <1>3, <1>15, <1>16, <1>17
  <2> QED BY <2>1 DEF vn
<1>20. V(Pad(Successor(n))) = vn + 1
  BY <1>6, <1>13, <1>18, <1>19, SuccessorValue
<1> HIDE DEF vn
<1>21. vn + 1 = BitsLeft - v
  BY <1>3, <1>16, <1>17
<1> QED BY <1>6, <1>18, <1>20, <1>21 DEF v

----------------------------------------------------------------------------
(* The values of numbers. *)

Sgn(neg, n) == IF neg THEN -n ELSE n

LEMMA ValueOf ==
  ASSUME NEW n \in Number
  PROVE  Value(n) = Sgn(n.sign, V(Pad(n.limbs))) /\ Value(n) \in Int
<1> DEFINE v == V(Pad(n.limbs))
<1>1. n.limbs \in Limbs /\ n.sign \in BOOLEAN
  BY NumberFields
<1>2. Magnitude(n.limbs) = v
  BY <1>1, MagnitudeIs
<1>3. v \in Int
  BY <1>1, Padded, Bounds
<1>4. Value(n) = Sgn(n.sign, v)
  BY <1>2 DEF Value, Sgn
<1> HIDE DEF v
<1>5. Sgn(n.sign, v) \in Int
  BY <1>3 DEF Sgn
<1> QED BY <1>4, <1>5 DEF v

\* What an unchecked type makes of v
Taken(neg, v) ==
  IF Signed \/ ~neg THEN Sgn(neg, v) ELSE IF v = 0 THEN 0 ELSE BitsLeft - v

\* sign(neg) yields that.
LEMMA SignedValue ==
  ASSUME NEW s \in Limbs, NormalLimbs(s), NEW neg \in BOOLEAN, type \in Types
  PROVE  Value(signed(s, neg)) = Taken(neg, V(Pad(s)))
<1> DEFINE v == V(Pad(s))
           n == signed(s, neg)
<1>1. n \in Number
  BY SignedNormal
<1>2. Value(n) = Sgn(n.sign, V(Pad(n.limbs)))
  BY <1>1, ValueOf
<1>3. v \in Int /\ (v = 0 <=> s = <<0>>)
  BY NormalValue
<1>4. Signed \in BOOLEAN /\ BitsLeft \in Int
  BY TypesAssumption, Moduli DEF Signed
<1> HIDE DEF v
<1>5. CASE Signed
  <2> DEFINE b == neg /\ s # <<0>>
  <2>1. n = [limbs |-> s, sign |-> b]
    BY <1>5 DEF signed
  <2> HIDE DEF b, n
  <2>2. n.limbs = s /\ n.sign = b
    BY <2>1
  <2>3. Value(n) = Sgn(b, v)
    BY <1>2, <2>2 DEF v
  <2>4. Sgn(b, v) = Sgn(neg, v)
    <3>1. CASE s = <<0>>
      <4>1. v = 0
        BY <1>3, <3>1
      <4> QED BY <4>1 DEF Sgn
    <3>2. CASE s # <<0>>
      <4>1. b = neg
        BY <3>2 DEF b
      <4> QED BY <4>1
    <3> QED BY <3>1, <3>2
  <2>5. Value(n) = Taken(neg, v)
    BY <1>5, <2>3, <2>4 DEF Taken
  <2> QED BY <2>5 DEF v, n
<1>6. CASE ~Signed
  <2> DEFINE t == IF neg /\ s # <<0>> THEN complement(s) ELSE s
  <2>1. n = [limbs |-> t, sign |-> FALSE]
    BY <1>6 DEF signed
  <2> HIDE DEF t, n
  <2>2. n.limbs = t /\ n.sign = FALSE
    BY <2>1
  <2>3. Value(n) = V(Pad(t))
    BY <1>2, <2>2 DEF Sgn
  <2>4. CASE neg /\ s # <<0>>
    <3>1. V(Pad(t)) = BitsLeft - v
      BY <2>4, ComplementValue DEF t, v
    <3>2. v # 0
      BY <1>3, <2>4
    <3>3. Taken(neg, v) = BitsLeft - v
      BY <1>6, <2>4, <3>2 DEF Taken
    <3> QED BY <2>3, <3>1, <3>3 DEF v, n
  <2>5. CASE ~(neg /\ s # <<0>>)
    <3>1. V(Pad(t)) = v
      BY <2>5 DEF t, v
    <3>2. neg => v = 0
      BY <1>3, <2>5
    <3>3. Taken(neg, v) = v
      BY <1>6, <3>2 DEF Taken, Sgn
    <3> QED BY <2>3, <3>1, <3>3 DEF v, n
  <2> QED BY <2>4, <2>5
<1> QED BY <1>4, <1>5, <1>6

\* A multiple of the modulus is lost, or makes a checked type throw.
LEMMA ReceivedIs ==
  ASSUME type \in Types, NEW v \in 0 .. BitsLeft - 1, NEW t \in Nat, NEW neg \in BOOLEAN
  PROVE  Arithmetic!Received(Sgn(neg, v + BitsLeft * t))
           = IF Checked /\ (t # 0 \/ (~Signed /\ neg /\ v # 0)) THEN Unspecified
             ELSE Taken(neg, v)
<1> DEFINE M == BitsLeft
           f == M * t
           E == Sgn(neg, v + f)
<1>1. Signed \in BOOLEAN /\ Checked \in BOOLEAN
  BY TypesAssumption DEF Signed, Checked
<1>2. M \in Nat \ {0} /\ M \in Int /\ M > 0
  BY Moduli
<1> HIDE DEF M
<1>3. f \in Int /\ (t = 0 => f = 0) /\ (t # 0 => f >= M)
  <2>1. t = 0 => f = 0
    BY <1>2
  <2>2. ASSUME t # 0 PROVE f >= M
    <3>1. t >= 1
      BY <2>2
    <3>2. M * t >= M * 1
      BY <1>2, <3>1
    <3> QED BY <1>2, <3>2
  <2> QED BY <1>2, <2>1, <2>2
<1>4. v \in Int /\ 0 <= v /\ v < M
  BY <1>2 DEF M
<1>5. Arithmetic!Received(E) =
        IF (IF Signed THEN -M < E ELSE 0 <= E) /\ E < M THEN E
        ELSE IF Checked THEN Unspecified
        ELSE IF Signed /\ E < 0 THEN -((-E) % M) ELSE E % M
  BY DEF Arithmetic!Received, Arithmetic!InRange, Arithmetic!Wrapped, PublicType, M
<1>6. (v + f) % M = v
  <2>1. v + f \in Int /\ v \in 0 .. M - 1 /\ v + f = M * t + v
    BY <1>2, <1>3, <1>4
  <2> QED BY <1>2, <2>1, UniqueDivision
<1>7. neg /\ v # 0 => E % M = M - v
  <2>1. SUFFICES ASSUME neg, v # 0 PROVE E % M = M - v
    OBVIOUS
  <2> DEFINE p == -t - 1
             u == M - v
  <2>2. E = -(v + f)
    BY <2>1 DEF Sgn
  <2>3. M * p = -f - M
    <3>1. M * p = M * (-t) - M * 1 /\ M * 1 = M
      BY <1>2, Products
    <3>2. M * (-t) = -f
      BY <1>2
    <3> HIDE DEF f, p
    <3> QED BY <1>2, <1>3, <3>1, <3>2
  <2>4. p \in Int /\ u \in 0 .. M - 1 /\ E \in Int
    <3>1. p \in Int
      OBVIOUS
    <3>2. u \in 0 .. M - 1
      BY <1>2, <1>4, <2>1
    <3> HIDE DEF f
    <3> QED BY <1>3, <1>4, <2>2, <3>1, <3>2
  <2>5. E = M * p + u
    <3> DEFINE g == M * p
    <3>1. g = -f - M
      BY <2>3
    <3> HIDE DEF g, f, E
    <3>2. E = g + u
      BY <1>2, <1>3, <1>4, <2>2, <3>1
    <3> QED BY <3>2 DEF g
  <2> HIDE DEF p, u, E, f
  <2>6. E % M = u
    BY <1>2, <2>4, <2>5, UniqueDivision
  <2> QED BY <2>6 DEF u
<1>8. neg /\ v = 0 => E % M = 0
  <2>1. SUFFICES ASSUME neg, v = 0 PROVE E % M = 0
    OBVIOUS
  <2> DEFINE p == -t
  <2>2. p \in Int /\ 0 \in 0 .. M - 1 /\ M * p = -f
    BY <1>2
  <2>3. E = -f
    <3> HIDE DEF f
    <3> QED BY <1>3, <2>1 DEF Sgn
  <2>4. E \in Int /\ E = M * p + 0
    <3> HIDE DEF E, f
    <3> QED BY <1>3, <2>2, <2>3
  <2> HIDE DEF E, f, p
  <2> QED BY <1>2, <2>2, <2>4, UniqueDivision
<1> HIDE DEF f
<1>9. /\ neg => E = -(v + f) /\ -E = v + f
      /\ ~neg => E = v + f
      /\ E \in Int
  BY <1>3, <1>4 DEF Sgn
<1> HIDE DEF E
<1> DEFINE R == Arithmetic!Received(E)
           T == Taken(neg, v)
<1>10. CASE t = 0 /\ (Signed \/ ~neg \/ v = 0)
  <2>1. (IF Signed THEN -M < E ELSE 0 <= E) /\ E < M
    BY <1>1, <1>2, <1>3, <1>4, <1>9, <1>10
  <2>2. R = E
    BY <1>5, <2>1
  <2>3. T = E
    BY <1>1, <1>3, <1>4, <1>9, <1>10 DEF Taken, Sgn
  <2> QED BY <1>10, <2>2, <2>3 DEF E, f, M
<1>11. CASE t # 0 \/ (~Signed /\ neg /\ v # 0)
  <2>1. ~((IF Signed THEN -M < E ELSE 0 <= E) /\ E < M)
    <3>1. CASE t # 0
      BY <1>1, <1>2, <1>3, <1>4, <1>9, <3>1
    <3>2. CASE ~Signed /\ neg /\ v # 0 /\ t = 0
      BY <1>1, <1>2, <1>3, <1>4, <1>9, <3>2
    <3> QED BY <1>11, <3>1, <3>2
  <2>2. CASE Checked
    BY <1>5, <1>11, <2>1, <2>2 DEF E, f, M
  <2>3. CASE ~Checked
    <3>1. R = IF Signed /\ E < 0 THEN -((-E) % M) ELSE E % M
      BY <1>5, <2>1, <2>3
    <3>2. R = T
      <4>1. CASE ~neg
        <5>1. ~(E < 0) /\ E % M = v
          BY <1>3, <1>2, <1>4, <1>6, <1>9, <4>1
        <5>2. T = v
          BY <4>1 DEF Taken, Sgn
        <5> QED BY <3>1, <5>1, <5>2
      <4>2. CASE neg /\ Signed /\ v + f # 0
        <5>1. E < 0
          BY <1>3, <1>2, <1>4, <1>9, <4>2
        <5>2. (-E) % M = v
          BY <1>6, <1>9, <4>2
        <5>3. T = -v
          BY <4>2 DEF Taken, Sgn
        <5> QED BY <3>1, <4>2, <5>1, <5>2, <5>3
      <4>3. CASE neg /\ Signed /\ v + f = 0
        <5>1. ~(E < 0) /\ v = 0
          BY <1>3, <1>2, <1>4, <1>9, <4>3
        <5>2. E % M = 0
          BY <1>8, <4>3, <5>1
        <5>3. T = 0
          <6>1. T = -v
            BY <4>3 DEF Taken, Sgn
          <6>2. T = 0 - v
            BY <1>4, <6>1
          <6> HIDE DEF T
          <6> QED BY <5>1, <6>2
        <5> QED BY <3>1, <5>1, <5>2, <5>3
      <4>4. CASE neg /\ ~Signed
        <5>1. R = E % M
          BY <3>1, <4>4
        <5>2. T = IF v = 0 THEN 0 ELSE M - v
          BY <4>4 DEF Taken, M
        <5> QED BY <1>7, <1>8, <4>4, <5>1, <5>2
      <4> QED BY <1>1, <4>1, <4>2, <4>3, <4>4
    <3> QED BY <2>3, <3>2 DEF E, f, M
  <2> QED BY <1>1, <2>2, <2>3
<1> QED BY <1>10, <1>11

\* The call ends, and z receives its result.
Delivers(z) == Arithmetic!Deliver /\ r' = z /\ pc' = "idle"

\* The end of a call is the delivery of its result.
LEMMA FinishDelivers ==
  ASSUME IInv, NEW z \in Obj, pc = "idle" \/ z = r, NEW n \in Number, NEW bad \in BOOLEAN,
         Finish(z, n, bad),
         Arithmetic!Received(exact') = IF bad THEN Unspecified ELSE Value(n)
  PROVE  Delivers(z)
<1>1. Typed
  BY DEF IInv
<1>2. /\ before' = [num EXCEPT ![z] = n] /\ r' = z
      /\ failed' = IF bad THEN failed \cup {z} ELSE failed \ {z}
  BY DEF Finish
<1>3. ASSUME NEW y \in Obj, y # z PROVE num[y] = before[y]
  <2>1. pc \in Loops \cup {"idle"}
    BY <1>1 DEF Typed
  <2> QED BY <1>3, <2>1 DEF IInv, Running
<1> DEFINE val == [y \in Obj |-> IF y \in failed THEN Unspecified ELSE Value(before[y])]
           new == [y \in Obj |-> IF y \in failed' THEN Unspecified ELSE Value(before'[y])]
           R == Arithmetic!Received(exact')
<1>4. \A y \in Obj : new[y] = IF y = z THEN R ELSE val[y]
  <2>1. TAKE y \in Obj
  <2>2. CASE y = z
    <3>1. before'[y] = n /\ (y \in failed' <=> bad)
      BY <1>1, <1>2, <2>2 DEF Typed
    <3> HIDE DEF R
    <3> QED BY <2>2, <3>1 DEF R
  <2>3. CASE y # z
    <3>1. before'[y] = before[y] /\ (y \in failed' <=> y \in failed)
      BY <1>1, <1>2, <1>3, <2>3 DEF Typed
    <3> QED BY <2>3, <3>1
  <2> QED BY <2>2, <2>3
<1>5. new = [val EXCEPT ![z] = R]
  <2> HIDE DEF R
  <2>1. new = [y \in Obj |-> new[y]]
    OBVIOUS
  <2>2. [val EXCEPT ![z] = R] = [y \in Obj |-> IF y = z THEN R ELSE val[y]]
    OBVIOUS
  <2> HIDE DEF val, new
  <2> QED BY <1>4, <2>1, <2>2
<1> HIDE DEF R
<1>6. Arithmetic!Deliver
  BY <1>2, <1>5 DEF Arithmetic!Deliver, R
<1> QED BY <1>2, <1>6 DEF Delivers, Finish

----------------------------------------------------------------------------
(* The results of calls. *)

\* A result in normal form that is less than the modulus
LEMMA ReturnDelivers ==
  ASSUME IInv, NEW z \in Obj, pc = "idle" \/ z = r, NEW n \in Number, Normal(n),
         Return(z, n), exact' = Value(n)
  PROVE  Delivers(z)
<1> DEFINE v == V(Pad(n.limbs))
<1>1. n.limbs \in Limbs /\ n.sign \in BOOLEAN /\ NormalLimbs(n.limbs) /\ (n.sign => Signed)
  BY NumberFields DEF Normal, NormalLimbs
<1>2. v \in Int /\ v >= 0 /\ v < BitsLeft /\ BitsLeft \in Int
  BY <1>1, NormalValue, Moduli
<1>3. v \in 0 .. BitsLeft - 1
  <2> HIDE DEF v
  <2> QED BY <1>2
<1>4. v + BitsLeft * 0 = v
  <2> HIDE DEF v
  <2> QED BY <1>2
<1>5. Value(n) = Sgn(n.sign, v)
  BY ValueOf
<1>6. type \in Types
  BY DEF IInv, Typed
<1> HIDE DEF v
<1>7. Arithmetic!Received(Sgn(n.sign, v + BitsLeft * 0)) = Taken(n.sign, v)
  <2>1. ~(Checked /\ (0 # 0 \/ (~Signed /\ n.sign /\ v # 0)))
    BY <1>1
  <2> QED BY <1>1, <1>3, <1>6, <2>1, ReceivedIs
<1>8. Taken(n.sign, v) = Sgn(n.sign, v)
  BY <1>1 DEF Taken
<1>9. Arithmetic!Received(exact') = IF FALSE THEN Unspecified ELSE Value(n)
  BY <1>4, <1>5, <1>7, <1>8
<1> QED BY <1>9, FinishDelivers DEF Return

\* sign(neg) of limbs in normal form, if the type is signed or the result is not negative
LEMMA SignedDelivers ==
  ASSUME IInv, NEW z \in Obj, pc = "idle" \/ z = r, NEW s \in Limbs, NormalLimbs(s),
         NEW neg \in BOOLEAN, neg => Signed,
         Return(z, signed(s, neg)), exact' = Sgn(neg, V(Pad(s)))
  PROVE  Delivers(z)
<1> DEFINE n == signed(s, neg)
<1>1. type \in Types
  BY DEF IInv, Typed
<1>2. n \in Number /\ Normal(n)
  BY <1>1, SignedNormal
<1>3. Value(n) = Sgn(neg, V(Pad(s)))
  BY <1>1, SignedValue DEF Taken
<1> HIDE DEF n
<1> QED BY <1>2, <1>3, ReturnDelivers DEF n

\* An exception, if the result is out of range
LEMMA ThrowDelivers ==
  ASSUME IInv, NEW z \in Obj, pc = "idle" \/ z = r, NEW s \in Limbs, Throw(z, s),
         Arithmetic!Received(exact') = Unspecified
  PROVE  Delivers(z)
<1>1. num[z] \in Number
  BY DEF IInv, Typed
<1>2. [num[z] EXCEPT !.limbs = s] \in Number
  BY <1>1, NewLimbs
<1>3. Arithmetic!Received(exact') =
        IF TRUE THEN Unspecified ELSE Value([num[z] EXCEPT !.limbs = s])
  OBVIOUS
<1> QED BY <1>2, <1>3, FinishDelivers DEF Throw

\* normalize() and sign(neg) of limbs that are right but for a multiple of the modulus
LEMMA DeliverDelivers ==
  ASSUME IInv, NEW z \in Obj, pc = "idle" \/ z = r, NEW s \in Limbs, NEW neg \in BOOLEAN,
         NEW t \in Nat, Checked => t = 0,
         Deliver(z, s, neg), exact' = Sgn(neg, V(Pad(s)) + BitsLeft * t)
  PROVE  Delivers(z)
<1> DEFINE n == normalized(s)
           v == V(Pad(n))
<1>1. type \in Types /\ Signed \in BOOLEAN /\ Checked \in BOOLEAN
  BY TypesAssumption DEF IInv, Typed, Signed, Checked
<1>2. n \in Limbs /\ NormalLimbs(n)
  BY NormalizedLimbs
<1>3. /\ v \in Int /\ v >= 0 /\ v < BitsLeft /\ (v = 0 <=> n = <<0>>)
      /\ BitsLeft \in Int /\ BitsLeft \in Nat
  BY <1>2, NormalValue, Moduli
<1>4. PICK q \in Nat : /\ V(Pad(s)) = v + BitsLeft * q
                       /\ q = 0 <=> ~(Len(s) = MaxLimbs /\ s[MaxLimbs] >= TopLimb)
  BY NormalizedValue
<1> HIDE DEF n, v
<1> DEFINE p == q + t
<1>5. p \in Nat /\ (p = 0 <=> q = 0 /\ t = 0)
  OBVIOUS
<1>6. V(Pad(s)) + BitsLeft * t = v + BitsLeft * p
  <2>1. BitsLeft * p = BitsLeft * q + BitsLeft * t
    BY <1>3, Products
  <2> DEFINE f == BitsLeft * q
             g == BitsLeft * t
  <2>2. f \in Int /\ g \in Int
    BY <1>3
  <2>3. V(Pad(s)) = v + f
    BY <1>4
  <2>4. BitsLeft * p = f + g
    BY <2>1
  <2> HIDE DEF f, g
  <2>5. (v + f) + g = v + (f + g)
    BY <1>3, <2>2
  <2> QED BY <2>3, <2>4, <2>5 DEF g
<1>7. v \in 0 .. BitsLeft - 1
  BY <1>3
<1> HIDE DEF p
<1>8. Arithmetic!Received(exact') =
        IF Checked /\ (p # 0 \/ (~Signed /\ neg /\ v # 0)) THEN Unspecified
        ELSE Taken(neg, v)
  BY <1>1, <1>5, <1>6, <1>7, ReceivedIs
<1>9. Checked => (p # 0 <=> Overflows(s))
  BY <1>4, <1>5 DEF Overflows
<1>10. CASE Overflows(s) \/ (Checked /\ ~Signed /\ neg /\ n # <<0>>)
  <2>1. Throw(z, s)
    BY <1>10 DEF Deliver, n
  <2>2. Checked /\ (p # 0 \/ (~Signed /\ neg /\ v # 0))
    BY <1>3, <1>9, <1>10 DEF Overflows
  <2> QED BY <1>8, <2>1, <2>2, ThrowDelivers
<1>11. CASE ~(Overflows(s) \/ (Checked /\ ~Signed /\ neg /\ n # <<0>>))
  <2>1. Return(z, signed(n, neg))
    BY <1>11 DEF Deliver, n
  <2>2. ~(Checked /\ (p # 0 \/ (~Signed /\ neg /\ v # 0)))
    BY <1>3, <1>9, <1>11
  <2>3. signed(n, neg) \in Number
    BY <1>1, <1>2, SignedNormal
  <2>4. Value(signed(n, neg)) = Taken(neg, v)
    BY <1>1, <1>2, SignedValue DEF v
  <2>5. Arithmetic!Received(exact') = IF FALSE THEN Unspecified ELSE Value(signed(n, neg))
    BY <1>8, <2>2, <2>4
  <2> QED BY <2>1, <2>3, <2>5, FinishDelivers DEF Return
<1> QED BY <1>10, <1>11

----------------------------------------------------------------------------
(* The invariant. *)

\* The digits that a loop adds, or subtracts
First  == Pad(before[pa].limbs)
Second == [k \in 1..MaxLimbs |-> IF k <= m THEN before[pb].limbs[k] ELSE 0]

Carries == [1 .. MaxLimbs + 1 -> Int]

\* The result so far, with the carries c, for a call that adds
Summed(c) ==
  /\ exact = Sgn(before[a].sign, V(First) + V(Second) + c[1])
  /\ \A k \in 1 .. i - 1 : at(r, k) + Base * c[k + 1] = First[k] + Second[k] + c[k]

\* and for one that subtracts
Subtracted(c) ==
  /\ exact = Sgn(before[a].sign # swapped, V(First) - V(Second) - c[1])
  /\ \A k \in 1 .. i - 1 : First[k] + Base * c[k + 1] = at(r, k) + Second[k] + c[k]

\* What subtract_unsigned() starts from is the larger operand: they differ first, from the
\* top, in digit k, and nothing is borrowed from the digits above it.
LargerAt(k) ==
  /\ First[k] > Second[k]
  /\ \A j \in k + 1 .. MaxLimbs : First[j] = Second[j]
  /\ i > k => carry = 0

Progress ==
  /\ num[r].sign = before[r].sign
  /\ pc \in {"add_limb", "subtract_limb"} => m = 0
  /\ pc \in {"add", "add_limb"} => \E c \in Carries : c[i] = carry /\ Summed(c)
  /\ pc \in {"subtract", "subtract_limb"} => \E c \in Carries : c[i] = carry /\ Subtracted(c)
  /\ pc = "subtract" => \E k \in 1..x : LargerAt(k)
  /\ pc = "subtract_limb" => carry = 1 /\ ~swapped

RInv == IInv /\ (pc \in Loops => Progress)

----------------------------------------------------------------------------
(* The loops. *)

\* The digits that are left
LEMMA LoopDigits ==
  ASSUME IInv, pc \in Loops
  PROVE  /\ First \in Digits /\ First \in [1..MaxLimbs -> Limb]
         /\ Second \in Digits /\ Second \in [1..MaxLimbs -> Limb]
         /\ \A k \in i..x : First[k] = at(pa, k)
         /\ \A k \in x + 1 .. MaxLimbs : First[k] = 0
         /\ \A k \in i..m : Second[k] = at(pb, k)
         /\ \A k \in m + 1 .. MaxLimbs : Second[k] = 0
<1>1. Typed /\ Running
  BY DEF IInv
<1>2. /\ \A k \in i..x : at(pa, k) = before[pa].limbs[k]
      /\ \A k \in i..m : at(pb, k) = before[pb].limbs[k]
      /\ i \in Int /\ i >= 1 /\ i <= x + 1 /\ x \in Int /\ x <= MaxLimbs /\ m \in Int /\ m <= x
      /\ MaxLimbs \in Int
  BY NextLimbs, Sizes
<1>3. before[pa].limbs \in Limbs /\ before[pb].limbs \in Limbs
  BY <1>1, NumberFields DEF Typed
<1>4. Len(before[pa].limbs) = x /\ m <= Len(before[pb].limbs) /\ Len(before[pb].limbs) \in Nat
  BY <1>1, <1>3, LimbsType DEF Running
<1>5. /\ First \in Digits /\ First \in [1..MaxLimbs -> Limb]
      /\ \A k \in 1..MaxLimbs : First[k] = IF k <= x THEN before[pa].limbs[k] ELSE 0
  BY <1>3, <1>4, Padded DEF First
<1>6. 0 \in Limb /\ Limb \subseteq Int
  BY Sizes DEF Limb
<1>7. \A k \in 1..MaxLimbs : (IF k <= m THEN before[pb].limbs[k] ELSE 0) \in Limb
  <2>1. TAKE k \in 1..MaxLimbs
  <2>2. k <= m => k \in 1..Len(before[pb].limbs)
    BY <1>2, <1>4
  <2>3. \A j \in 1..Len(before[pb].limbs) : before[pb].limbs[j] \in Limb
    BY <1>3, LimbsType
  <2> QED BY <1>6, <2>2, <2>3
<1>8. /\ Second \in [1..MaxLimbs -> Limb] /\ Second \in Digits
      /\ \A k \in 1..MaxLimbs : Second[k] = IF k <= m THEN before[pb].limbs[k] ELSE 0
  BY <1>6, <1>7 DEF Second, Digits
<1>9. /\ \A k \in i..x : k \in 1..MaxLimbs /\ k <= x
      /\ \A k \in x + 1 .. MaxLimbs : k \in 1..MaxLimbs /\ ~(k <= x)
      /\ \A k \in i..m : k \in 1..MaxLimbs /\ k <= m
      /\ \A k \in m + 1 .. MaxLimbs : k \in Int /\ ~(k <= m)
  BY <1>2
<1>10. m >= 0
  BY <1>1, Sizes DEF Typed
<1>11. \A k \in m + 1 .. MaxLimbs : k \in 1..MaxLimbs
  BY <1>2, <1>10
<1> QED BY <1>2, <1>5, <1>8, <1>9, <1>11

\* A loop leaves the signs alone.
LEMMA SignKept ==
  ASSUME RInv, pc \in Loops
  PROVE  num[a].sign = before[a].sign /\ num[a].sign \in BOOLEAN
<1>1. num[a].sign \in BOOLEAN
  BY NumberFields DEF RInv, IInv, Typed
<1>2. a # r => num[a] = before[a]
  BY DEF RInv, IInv, Typed, Running
<1>3. num[r].sign = before[r].sign
  BY DEF RInv, Progress
<1> QED BY <1>1, <1>2, <1>3

\* What a step of a loop writes
LEMMA StoreWrites ==
  ASSUME IInv, pc \in Loops, i <= x, NEW l \in Limb, NEW c \in Limb, Store(l, i + 1, c)
  PROVE  /\ num'[r].limbs[i] = l /\ num'[r].sign = num[r].sign
         /\ \A k \in 1 .. i - 1 : num'[r].limbs[k] = num[r].limbs[k]
         /\ i' = i + 1 /\ carry' = c
         /\ type' = type /\ before' = before /\ failed' = failed /\ pc' = pc
         /\ r' = r /\ a' = a /\ pa' = pa /\ pb' = pb /\ m' = m /\ x' = x /\ swapped' = swapped
<1> DEFINE s == num[r].limbs
           t == [s EXCEPT ![i] = l]
<1>1. Typed /\ Running /\ r \in Obj /\ num[r] \in Number
  BY DEF IInv, Typed
<1>2. i \in Int /\ i >= 1 /\ x \in Int
  BY NextLimbs
<1>3. s \in [1..x -> Limb] /\ s \in Limbs /\ x \in 1..MaxLimbs
  BY <1>1, NumberFields, LimbsType DEF Running, size
<1>4. i \in 1..x /\ \A k \in 1 .. i - 1 : k \in 1..x /\ k # i
  BY <1>2
<1>5. /\ t \in [1..x -> Limb] /\ t[i] = l
      /\ \A k \in 1 .. i - 1 : t[k] = s[k]
  BY <1>3, <1>4
<1>6. t \in Limbs
  BY <1>3, <1>5, LimbsMade
<1>7. /\ num' = [num EXCEPT ![r] = [num[r] EXCEPT !.limbs = t]]
      /\ i' = i + 1 /\ carry' = c
      /\ type' = type /\ before' = before /\ failed' = failed /\ pc' = pc
      /\ r' = r /\ a' = a /\ pa' = pa /\ pb' = pb /\ m' = m /\ x' = x /\ swapped' = swapped
  BY DEF Store, args
<1> HIDE DEF t
<1>8. num'[r].limbs = t /\ num'[r].sign = num[r].sign
  BY <1>1, <1>6, <1>7, NewLimbs DEF Typed
<1> QED BY <1>5, <1>7, <1>8

\* A digit that is the sum, or the difference, of the next digits keeps up the progress.
LEMMA StoreProgresses ==
  ASSUME RInv, pc \in Loops, i <= x, NEW l \in Limb, NEW c \in Limb,
         Store(l, i + 1, c), exact' = exact,
         pc \in {"add", "add_limb"} => l + Base * c = First[i] + Second[i] + carry,
         pc \in {"subtract", "subtract_limb"} => First[i] + Base * c = l + Second[i] + carry,
         pc = "subtract" => c \in {0, 1},
         pc = "subtract_limb" => c = 1
  PROVE  Progress'
<1>1. IInv /\ Running /\ Typed /\ Progress
  BY DEF RInv, IInv
<1>2. /\ num'[r].limbs[i] = l /\ num'[r].sign = num[r].sign
      /\ \A k \in 1 .. i - 1 : num'[r].limbs[k] = num[r].limbs[k]
      /\ i' = i + 1 /\ carry' = c
      /\ before' = before /\ pc' = pc
      /\ r' = r /\ a' = a /\ pa' = pa /\ pb' = pb /\ m' = m /\ x' = x /\ swapped' = swapped
  BY <1>1, StoreWrites
<1>3. First' = First /\ Second' = Second
  BY <1>2 DEF First, Second
<1>4. /\ i \in Int /\ i >= 1 /\ i <= x /\ x \in Int /\ x <= MaxLimbs /\ MaxLimbs \in Int
      /\ i \in 1..MaxLimbs /\ i \in 1 .. MaxLimbs + 1 /\ i + 1 \in 1 .. MaxLimbs + 1
      /\ 1 \in 1 .. MaxLimbs + 1 /\ 1 # i + 1 /\ i + 1 # i
  BY <1>1, NextLimbs, Sizes
<1>5. \A k \in 1 .. (i + 1) - 1 : k = i \/ k \in 1 .. i - 1
  BY <1>4
<1>6. \A k \in 1 .. i - 1 : /\ k \in 1 .. MaxLimbs + 1 /\ k + 1 \in 1 .. MaxLimbs + 1
                            /\ k # i + 1 /\ k + 1 # i + 1
  BY <1>4
<1>7. c \in Int /\ l \in Int /\ l <= Base - 1 /\ l >= 0 /\ c >= 0
  BY Sizes DEF Limb
<1>8. ASSUME NEW e \in Carries, e[i] = carry
      PROVE  LET d == [e EXCEPT ![i + 1] = c]
             IN d \in Carries /\ d[i] = carry /\ d[i + 1] = c /\ d[1] = e[1]
                /\ \A k \in 1 .. i - 1 : d[k] = e[k] /\ d[k + 1] = e[k + 1]
  BY <1>4, <1>6, <1>7, <1>8 DEF Carries
<1>9. ASSUME pc \in {"add", "add_limb"}
      PROVE  (\E e \in Carries : e[i] = carry /\ Summed(e))'
  <2>1. PICK e \in Carries : e[i] = carry /\ Summed(e)
    BY <1>1, <1>9 DEF Progress
  <2>2. PICK d \in Carries :
          /\ d[i] = carry /\ d[i + 1] = c /\ d[1] = e[1]
          /\ \A k \in 1 .. i - 1 : d[k] = e[k] /\ d[k + 1] = e[k + 1]
    BY <1>8, <2>1
  <2>3. \A k \in 1 .. (i + 1) - 1 :
          num'[r].limbs[k] + Base * d[k + 1] = First[k] + Second[k] + d[k]
    <3>1. TAKE k \in 1 .. (i + 1) - 1
    <3>2. CASE k = i
      <4>1. l + Base * c = First[i] + Second[i] + carry
        BY <1>9
      <4> QED BY <1>2, <2>2, <3>2, <4>1
    <3>3. CASE k \in 1 .. i - 1
      <4>1. at(r, k) + Base * e[k + 1] = First[k] + Second[k] + e[k]
        BY <2>1, <3>3 DEF Summed
      <4> QED BY <1>2, <2>2, <3>3, <4>1 DEF at
    <3> QED BY <1>5, <3>2, <3>3
  <2>4. exact = Sgn(before[a].sign, V(First) + V(Second) + d[1])
    BY <2>1, <2>2 DEF Summed
  <2>5. (Summed(d))'
    BY <1>2, <1>3, <2>3, <2>4 DEF Summed, at
  <2> QED BY <1>2, <2>2, <2>5 DEF Carries
<1>10. ASSUME pc \in {"subtract", "subtract_limb"}
       PROVE  (\E e \in Carries : e[i] = carry /\ Subtracted(e))'
  <2>1. PICK e \in Carries : e[i] = carry /\ Subtracted(e)
    BY <1>1, <1>10 DEF Progress
  <2>2. PICK d \in Carries :
          /\ d[i] = carry /\ d[i + 1] = c /\ d[1] = e[1]
          /\ \A k \in 1 .. i - 1 : d[k] = e[k] /\ d[k + 1] = e[k + 1]
    BY <1>8, <2>1
  <2>3. \A k \in 1 .. (i + 1) - 1 :
          First[k] + Base * d[k + 1] = num'[r].limbs[k] + Second[k] + d[k]
    <3>1. TAKE k \in 1 .. (i + 1) - 1
    <3>2. CASE k = i
      <4>1. First[i] + Base * c = l + Second[i] + carry
        BY <1>10
      <4> QED BY <1>2, <2>2, <3>2, <4>1
    <3>3. CASE k \in 1 .. i - 1
      <4>1. First[k] + Base * e[k + 1] = at(r, k) + Second[k] + e[k]
        BY <2>1, <3>3 DEF Subtracted
      <4> QED BY <1>2, <2>2, <3>3, <4>1 DEF at
    <3> QED BY <1>5, <3>2, <3>3
  <2>4. exact = Sgn(before[a].sign # swapped, V(First) - V(Second) - d[1])
    BY <2>1, <2>2 DEF Subtracted
  <2>5. (Subtracted(d))'
    BY <1>2, <1>3, <2>3, <2>4 DEF Subtracted, at
  <2> QED BY <1>2, <2>2, <2>5 DEF Carries
<1>11. ASSUME pc = "subtract" PROVE (\E k \in 1..x : LargerAt(k))'
  <2>1. PICK k \in 1..x : LargerAt(k)
    BY <1>1, <1>11 DEF Progress
  <2>2. First[k] > Second[k] /\ \A j \in k + 1 .. MaxLimbs : First[j] = Second[j]
    BY <2>1 DEF LargerAt
  <2>3. ASSUME i + 1 > k PROVE c = 0
    <3> DEFINE f == First[i]
               g == Second[i]
    <3>1. f \in Int /\ g \in Int
      BY <1>1, <1>4, LoopDigits DEF Digits
    <3>2. f + Base * c = l + g + carry /\ c \in {0, 1} /\ carry \in {0, 1}
      BY <1>1, <1>11 DEF Running
    <3>3. CASE i = k
      <4>1. f > g
        BY <2>2, <3>3
      <4> HIDE DEF f, g
      <4>2. SUFFICES ASSUME c = 1 PROVE FALSE
        BY <3>2
      <4>3. f + Base = l + g + carry
        BY <3>2, <4>2, Sizes
      <4> QED BY <1>7, <3>1, <3>2, <4>1, <4>3, Sizes
    <3>4. CASE i # k
      <4>1. i > k /\ i \in k + 1 .. MaxLimbs
        BY <1>4, <2>3, <3>4
      <4>2. f = g /\ carry = 0
        BY <2>1, <2>2, <4>1 DEF LargerAt
      <4> HIDE DEF f, g
      <4>3. SUFFICES ASSUME c = 1 PROVE FALSE
        BY <3>2
      <4>4. f + Base = l + g + 0
        BY <3>2, <4>2, <4>3, Sizes
      <4> QED BY <1>7, <3>1, <4>2, <4>4, Sizes
    <3> QED BY <3>3, <3>4
  <2>4. (LargerAt(k))'
    BY <1>2, <1>3, <2>2, <2>3 DEF LargerAt
  <2> QED BY <1>2, <2>4
<1>12. (num[r].sign = before[r].sign)'
  BY <1>1, <1>2 DEF Progress
<1>13. (pc \in {"add_limb", "subtract_limb"} => m = 0)'
  BY <1>1, <1>2 DEF Progress
<1>14. (pc = "subtract_limb" => carry = 1 /\ ~swapped)'
  BY <1>1, <1>2 DEF Progress
<1> QED BY <1>2, <1>9, <1>10, <1>11, <1>12, <1>13, <1>14 DEF Progress

\* A loop that ends yields the exact result, but for what is carried out of the digits.
LEMMA Completed ==
  ASSUME RInv, pc \in Loops, NEW c \in Carries, NEW e \in Carries, NEW s \in Limbs,
         \A k \in 1..i : e[k] = c[k],
         \A k \in 1 .. i - 1 : Pad(s)[k] = at(r, k)
  PROVE  /\ Summed(c)
            /\ (\A k \in i..MaxLimbs : Pad(s)[k] + Base * e[k + 1] = First[k] + Second[k] + e[k])
              => exact = Sgn(before[a].sign, V(Pad(s)) + BitsLeft * (Unused * e[MaxLimbs + 1]))
         /\ Subtracted(c) /\ e[MaxLimbs + 1] = 0
            /\ (\A k \in i..MaxLimbs : First[k] + Base * e[k + 1] = Pad(s)[k] + Second[k] + e[k])
              => exact = Sgn(before[a].sign # swapped, V(Pad(s)))
<1>1. /\ i \in Int /\ i >= 1 /\ \A k \in 1..MaxLimbs : k \in 1 .. i - 1 \/ k \in i..MaxLimbs
      /\ \A k \in 1 .. i - 1 : k \in 1..i /\ k + 1 \in 1..i
      /\ 1 \in 1..i
  BY NextLimbs DEF RInv
<1>2. Pad(s) \in Digits /\ First \in Digits /\ Second \in Digits
  BY Padded, LoopDigits DEF RInv
<1>3. e[1] = c[1] /\ \A k \in 1 .. i - 1 : e[k] = c[k] /\ e[k + 1] = c[k + 1]
  BY <1>1
<1>4. e \in [1 .. MaxLimbs + 1 -> Int]
  BY DEF Carries
<1>5. ASSUME Summed(c),
             \A k \in i..MaxLimbs : Pad(s)[k] + Base * e[k + 1] = First[k] + Second[k] + e[k]
      PROVE  exact = Sgn(before[a].sign, V(Pad(s)) + BitsLeft * (Unused * e[MaxLimbs + 1]))
  <2>1. Adds(First, Second, e, Pad(s))
    <3>1. SUFFICES ASSUME NEW k \in 1..MaxLimbs
                   PROVE  Pad(s)[k] + Base * e[k + 1] = First[k] + Second[k] + e[k]
      BY DEF Adds
    <3>2. CASE k \in 1 .. i - 1
      <4>1. at(r, k) + Base * c[k + 1] = First[k] + Second[k] + c[k]
        BY <1>5, <3>2 DEF Summed
      <4>2. Pad(s)[k] = at(r, k) /\ e[k] = c[k] /\ e[k + 1] = c[k + 1]
        BY <1>3, <3>2
      <4> QED BY <4>1, <4>2
    <3> QED BY <1>1, <1>5, <3>2
  <2>2. V(Pad(s)) + BitsLeft * (Unused * e[MaxLimbs + 1]) = V(First) + V(Second) + e[1]
    BY <1>2, <1>4, <2>1, Sums
  <2> QED BY <1>3, <1>5, <2>2 DEF Summed
<1>6. ASSUME Subtracted(c), e[MaxLimbs + 1] = 0,
             \A k \in i..MaxLimbs : First[k] + Base * e[k + 1] = Pad(s)[k] + Second[k] + e[k]
      PROVE  exact = Sgn(before[a].sign # swapped, V(Pad(s)))
  <2> DEFINE u == V(Pad(s))
             v == V(First)
             w == V(Second)
  <2>1. Adds(Pad(s), Second, e, First)
    <3>1. SUFFICES ASSUME NEW k \in 1..MaxLimbs
                   PROVE  First[k] + Base * e[k + 1] = Pad(s)[k] + Second[k] + e[k]
      BY DEF Adds
    <3>2. CASE k \in 1 .. i - 1
      <4>1. First[k] + Base * c[k + 1] = at(r, k) + Second[k] + c[k]
        BY <1>6, <3>2 DEF Subtracted
      <4>2. Pad(s)[k] = at(r, k) /\ e[k] = c[k] /\ e[k + 1] = c[k + 1]
        BY <1>3, <3>2
      <4> QED BY <4>1, <4>2
    <3> QED BY <1>1, <1>6, <3>2
  <2>2. /\ v + BitsLeft * (Unused * e[MaxLimbs + 1]) = u + w + e[1]
        /\ u \in Int /\ v \in Int /\ w \in Int
    BY <1>2, <1>4, <2>1, Sums
  <2>3. BitsLeft * (Unused * 0) = 0
    BY Moduli
  <2>4. e[1] \in Int
    BY <1>4, Sizes
  <2>5. exact = Sgn(before[a].sign # swapped, v - w - e[1])
    BY <1>3, <1>6 DEF Subtracted
  <2> HIDE DEF u, v, w
  <2>6. v = u + w + e[1]
    BY <1>6, <2>2, <2>3
  <2>7. v - w - e[1] = u
    BY <2>2, <2>4, <2>6
  <2> QED BY <2>5, <2>7 DEF u
<1> QED BY <1>5, <1>6

\* The limbs that a loop leaves are those that it has written, and what is left of the
\* larger operand.
LEMMA CopiedDigits ==
  ASSUME IInv, pc \in Loops
  PROVE  /\ \A k \in 1 .. i - 1 : Pad(CopiedFrom(i))[k] = at(r, k)
         /\ \A k \in i..MaxLimbs : Pad(CopiedFrom(i))[k] = First[k]
<1>1. CopiedFrom(i) \in Limbs /\ Len(CopiedFrom(i)) = x
  BY CopiedLimbs
<1>2. /\ i \in Int /\ i >= 1 /\ i <= x + 1 /\ x \in Int /\ x <= MaxLimbs /\ MaxLimbs \in Int
      /\ size(r) = x
  BY NextLimbs, Sizes DEF IInv, Running
<1>3. \A k \in 1..x : CopiedFrom(i)[k] = IF k < i THEN at(r, k) ELSE at(pa, k)
  BY <1>2 DEF CopiedFrom
<1>4. /\ \A k \in i..x : First[k] = at(pa, k)
      /\ \A k \in x + 1 .. MaxLimbs : First[k] = 0
  BY LoopDigits
<1>5. \A k \in 1..MaxLimbs : Pad(CopiedFrom(i))[k] = IF k <= x THEN CopiedFrom(i)[k] ELSE 0
  BY <1>1, Padded
<1>6. ASSUME NEW k \in 1 .. i - 1 PROVE Pad(CopiedFrom(i))[k] = at(r, k)
  <2>1. k \in 1..MaxLimbs /\ k \in 1..x /\ k <= x /\ k < i
    BY <1>2
  <2> QED BY <1>3, <1>5, <2>1
<1>7. ASSUME NEW k \in i..MaxLimbs PROVE Pad(CopiedFrom(i))[k] = First[k]
  <2>1. k \in 1..MaxLimbs
    BY <1>2
  <2>2. CASE k <= x
    <3>1. k \in 1..x /\ k \in i..x /\ ~(k < i)
      BY <1>2, <2>2
    <3> QED BY <1>3, <1>4, <1>5, <2>1, <2>2, <3>1
  <2>3. CASE ~(k <= x)
    <3>1. k \in x + 1 .. MaxLimbs
      BY <1>2, <2>3
    <3> QED BY <1>4, <1>5, <2>1, <2>3, <3>1
  <2> QED BY <2>2, <2>3
<1> QED BY <1>6, <1>7

\* The end of an addition, with or without a carry out of the last limb
LEMMA CarryOutDelivers ==
  ASSUME RInv, pc \in {"add", "add_limb"}, m < i, i > x \/ carry = 0,
         CarryOut(CopiedFrom(i)), exact' = exact
  PROVE  Delivers(r)
<1> DEFINE s == CopiedFrom(i)
           neg == before[a].sign
<1>1. IInv /\ pc \in Loops /\ r \in Obj /\ type \in Types
  BY DEF RInv, IInv, Typed, Loops
<1>2. /\ i \in Int /\ i >= 1 /\ i <= x + 1 /\ x \in Int /\ x <= MaxLimbs /\ MaxLimbs \in Nat
      /\ m \in Int /\ carry \in Limb /\ carry \in Nat /\ carry \in Int
      /\ i \in 1 .. MaxLimbs + 1 /\ MaxLimbs + 1 \in 1 .. MaxLimbs + 1
      /\ \A k \in i..MaxLimbs : k \in m + 1 .. MaxLimbs /\ k \in 1 .. MaxLimbs + 1
                                /\ k + 1 \in 1 .. MaxLimbs + 1 /\ k + 1 > i
      /\ \A k \in 1..i : k \in 1 .. MaxLimbs + 1 /\ k <= i
  BY <1>1, NextLimbs, Sizes DEF IInv, Typed, Limb
<1>3. num[a].sign = neg /\ neg \in BOOLEAN
  BY <1>1, SignKept
<1>4. s \in Limbs /\ Len(s) = x
  BY <1>1, CopiedLimbs
<1>5. /\ \A k \in 1 .. i - 1 : Pad(s)[k] = at(r, k)
      /\ \A k \in i..MaxLimbs : Pad(s)[k] = First[k]
  BY <1>1, CopiedDigits
<1>6. PICK c \in Carries : c[i] = carry /\ Summed(c)
  BY <1>1 DEF RInv, Progress
<1>7. \A k \in i..MaxLimbs : Second[k] = 0
  BY <1>1, <1>2, LoopDigits
<1>8. First \in Digits
  BY <1>1, LoopDigits
<1>9. \A k \in i..MaxLimbs : First[k] \in Int
  BY <1>2, <1>8 DEF Digits
<1> DEFINE e == [k \in 1 .. MaxLimbs + 1 |-> IF k <= i THEN c[k] ELSE 0]
<1>10. /\ e \in Carries /\ \A k \in 1..i : e[k] = c[k]
       /\ e[i] = carry
       /\ \A k \in i..MaxLimbs : e[k + 1] = 0
       /\ \A k \in i..MaxLimbs : k # i => e[k] = 0
  BY <1>2, <1>6 DEF Carries
<1> HIDE DEF e, s, neg
<1>11. CASE carry = 0
  <2>1. Deliver(r, s, neg)
    BY <1>3, <1>11 DEF CarryOut, s
  <2>2. ASSUME NEW k \in i..MaxLimbs
        PROVE  Pad(s)[k] + Base * e[k + 1] = First[k] + Second[k] + e[k]
    <3>1. e[k] = 0 /\ e[k + 1] = 0 /\ Second[k] = 0 /\ Pad(s)[k] = First[k] /\ First[k] \in Int
      BY <1>5, <1>7, <1>9, <1>10, <1>11
    <3>2. Base * 0 = 0
      BY Sizes
    <3> QED BY <3>1, <3>2
  <2>3. e[MaxLimbs + 1] = 0
    <3>1. CASE i = MaxLimbs + 1
      BY <1>10, <1>11, <3>1
    <3>2. CASE i # MaxLimbs + 1
      <4>1. MaxLimbs \in i..MaxLimbs
        BY <1>2, <3>2
      <4> QED BY <1>10, <4>1
    <3> QED BY <3>1, <3>2
  <2>4. exact = Sgn(neg, V(Pad(s)) + BitsLeft * (Unused * e[MaxLimbs + 1]))
    BY <1>1, <1>4, <1>5, <1>6, <1>10, <2>2, Completed DEF neg
  <2>5. Unused * 0 = 0
    BY Moduli
  <2>6. exact' = Sgn(neg, V(Pad(s)) + BitsLeft * 0) /\ 0 \in Nat
    BY <2>3, <2>4, <2>5
  <2> QED BY <1>1, <1>3, <1>4, <2>1, <2>6, DeliverDelivers
<1>12. CASE carry # 0 /\ x # MaxLimbs
  <2> DEFINE t == Append(s, carry)
  <2>1. Deliver(r, t, neg)
    BY <1>3, <1>4, <1>12 DEF CarryOut, s
  <2>2. i = x + 1 /\ i <= MaxLimbs
    <3>1. i > x
      BY <1>12
    <3> QED BY <1>2, <1>12, <3>1
  <2>3. /\ t \in Limbs /\ Len(t) = x + 1 /\ t[x + 1] = carry
        /\ \A k \in 1..x : t[k] = s[k]
    <3>1. s \in Seq(Limb) /\ Len(s) \in 1..MaxLimbs /\ Len(s) \in Nat
      BY <1>4, LimbsType
    <3>2. /\ t \in Seq(Limb) /\ Len(t) = Len(s) + 1
          /\ \A k \in 1..Len(s) : t[k] = s[k]
          /\ t[Len(s) + 1] = carry
      BY <1>2, <3>1, AppendProperties
    <3>3. Len(t) \in 1..MaxLimbs
      BY <1>2, <1>4, <2>2, <3>1, <3>2
    <3>4. t \in [1..Len(t) -> Limb]
      BY <3>2, LenProperties
    <3> HIDE DEF t
    <3> QED BY <1>4, <3>2, <3>3, <3>4, LimbsMade
  <2> HIDE DEF t
  <2>4. /\ \A k \in 1..MaxLimbs : Pad(t)[k] = IF k <= x + 1 THEN t[k] ELSE 0
        /\ \A k \in 1..MaxLimbs : Pad(s)[k] = IF k <= x THEN s[k] ELSE 0
    BY <1>4, <2>3, Padded
  <2>5. \A k \in 1 .. i - 1 : Pad(t)[k] = at(r, k)
    <3>1. TAKE k \in 1 .. i - 1
    <3>2. k \in 1..x /\ k \in 1..MaxLimbs /\ k <= x /\ k <= x + 1
      BY <1>2, <2>2
    <3> QED BY <1>5, <2>3, <2>4, <3>2
  <2>6. ASSUME NEW k \in i..MaxLimbs
        PROVE  Pad(t)[k] + Base * e[k + 1] = First[k] + Second[k] + e[k]
    <3>1. First[k] = 0 /\ e[k + 1] = 0 /\ Second[k] = 0
      <4>1. k \in x + 1 .. MaxLimbs
        BY <2>2
      <4> QED BY <1>1, <1>7, <1>10, <4>1, LoopDigits
    <3>2. Base * 0 = 0
      BY Sizes
    <3>3. CASE k = i
      <4>1. Pad(t)[k] = carry /\ e[k] = carry
        <5>1. k \in 1..MaxLimbs /\ k <= x + 1 /\ k = x + 1
          BY <1>2, <2>2, <3>3
        <5> QED BY <1>10, <2>3, <2>4, <3>3, <5>1
      <4> QED BY <1>2, <3>1, <3>2, <4>1
    <3>4. CASE k # i
      <4>1. k \in 1..MaxLimbs /\ ~(k <= x + 1)
        BY <1>2, <2>2, <3>4
      <4>2. Pad(t)[k] = 0 /\ e[k] = 0
        BY <1>10, <2>4, <3>4, <4>1
      <4> QED BY <3>1, <3>2, <4>2
    <3> QED BY <3>3, <3>4
  <2>7. e[MaxLimbs + 1] = 0
    <3>1. MaxLimbs \in i..MaxLimbs
      BY <1>2, <2>2
    <3> QED BY <1>10, <3>1
  <2>8. exact = Sgn(neg, V(Pad(t)) + BitsLeft * (Unused * e[MaxLimbs + 1]))
    BY <1>1, <1>6, <1>10, <2>3, <2>5, <2>6, Completed DEF neg
  <2>9. Unused * 0 = 0
    BY Moduli
  <2>10. exact' = Sgn(neg, V(Pad(t)) + BitsLeft * 0) /\ 0 \in Nat
    BY <2>7, <2>8, <2>9
  <2> QED BY <1>1, <1>3, <2>1, <2>3, <2>10, DeliverDelivers
<1>13. CASE carry # 0 /\ x = MaxLimbs
  <2> DEFINE t == Unused * carry
  <2>1. i = MaxLimbs + 1
    <3>1. i > x
      BY <1>13
    <3> QED BY <1>2, <1>13, <3>1
  <2>2. i..MaxLimbs = {}
    BY <1>2, <2>1
  <2>3. exact = Sgn(neg, V(Pad(s)) + BitsLeft * (Unused * e[MaxLimbs + 1]))
    BY <1>1, <1>4, <1>5, <1>6, <1>10, <2>2, Completed DEF neg
  <2>4. exact' = Sgn(neg, V(Pad(s)) + BitsLeft * t)
    BY <1>10, <2>1, <2>3
  <2>5. t \in Nat /\ t # 0
    <3>1. Unused \in Nat \ {0} /\ carry \in Nat \ {0}
      BY <1>2, <1>13, Moduli
    <3>2. Unused * carry >= 1 * carry
      BY <3>1
    <3> QED BY <3>1, <3>2
  <2> HIDE DEF t
  <2>6. CASE ~Checked
    <3>1. Deliver(r, s, neg)
      BY <1>3, <1>4, <1>13, <2>6 DEF CarryOut, s
    <3> QED BY <1>1, <1>3, <1>4, <2>4, <2>5, <2>6, <3>1, DeliverDelivers
  <2>7. CASE Checked
    <3>1. Throw(r, s)
      BY <1>4, <1>13, <2>7 DEF CarryOut, s
    <3> DEFINE v == V(Pad(normalized(s)))
    <3>2. PICK q \in Nat : V(Pad(s)) = v + BitsLeft * q
      BY <1>4, NormalizedValue
    <3>3. v \in Int /\ v >= 0 /\ v < BitsLeft /\ BitsLeft \in Int
      BY <1>4, NormalizedLimbs, NormalValue, Moduli
    <3> HIDE DEF v
    <3> DEFINE p == q + t
    <3>4. p \in Nat /\ p # 0
      BY <2>5
    <3>5. V(Pad(s)) + BitsLeft * t = v + BitsLeft * p
      <4> DEFINE f == BitsLeft * q
                 g == BitsLeft * t
      <4>1. BitsLeft * p = f + g /\ f \in Int /\ g \in Int
        BY <2>5, <3>3, Products
      <4>2. V(Pad(s)) = v + f
        BY <3>2
      <4> HIDE DEF f, g
      <4>3. (v + f) + g = v + (f + g)
        BY <3>3, <4>1
      <4> QED BY <4>1, <4>2, <4>3 DEF g
    <3>6. v \in 0 .. BitsLeft - 1
      BY <3>3
    <3> HIDE DEF p
    <3>7. Arithmetic!Received(exact') = Unspecified
      BY <1>1, <1>3, <2>4, <2>7, <3>4, <3>5, <3>6, ReceivedIs
    <3> QED BY <1>1, <1>4, <3>1, <3>7, ThrowDelivers
  <2> QED BY <2>6, <2>7
<1> QED BY <1>11, <1>12, <1>13

\* The end of a subtraction: nothing is borrowed from beyond the last limb.
LEMMA SubtractDelivers ==
  ASSUME RInv, SubtractEnd, exact' = exact
  PROVE  Delivers(r)
<1> DEFINE s == CopiedFrom(i)
           neg == before[a].sign # swapped
<1>1. pc = "subtract" /\ m < i /\ (i > x \/ carry = 0)
  BY DEF SubtractEnd
<1>2. IInv /\ pc \in Loops /\ r \in Obj
  BY <1>1 DEF RInv, IInv, Typed, Loops
<1>3. /\ i \in Int /\ i >= 1 /\ i <= x + 1 /\ x \in Int /\ x <= MaxLimbs /\ MaxLimbs \in Nat
      /\ m \in Int
      /\ i \in 1 .. MaxLimbs + 1 /\ MaxLimbs + 1 \in 1 .. MaxLimbs + 1
      /\ \A k \in i..MaxLimbs : k \in m + 1 .. MaxLimbs /\ k \in 1..MaxLimbs
                                /\ k \in 1 .. MaxLimbs + 1
                                /\ k + 1 \in 1 .. MaxLimbs + 1 /\ k + 1 > i
      /\ \A k \in 1..i : k \in 1 .. MaxLimbs + 1 /\ k <= i
  BY <1>1, <1>2, NextLimbs, Sizes
<1>4. carry = 0
  <2>1. PICK k \in 1..x : LargerAt(k)
    BY <1>1, <1>2 DEF RInv, Progress
  <2>2. i > x => i > k
    BY <1>3
  <2> QED BY <1>1, <2>1, <2>2 DEF LargerAt
<1>5. Deliver(r, s, neg) /\ neg \in BOOLEAN
  <2>1. num[a].sign = before[a].sign
    BY <1>2, SignKept
  <2> QED BY <2>1 DEF SubtractEnd
<1>6. s \in Limbs
  BY <1>2, CopiedLimbs
<1>7. /\ \A k \in 1 .. i - 1 : Pad(s)[k] = at(r, k)
      /\ \A k \in i..MaxLimbs : Pad(s)[k] = First[k]
  BY <1>2, CopiedDigits
<1>8. PICK c \in Carries : c[i] = carry /\ Subtracted(c)
  BY <1>1, <1>2 DEF RInv, Progress
<1> DEFINE e == [k \in 1 .. MaxLimbs + 1 |-> IF k <= i THEN c[k] ELSE 0]
<1>9. /\ e \in Carries /\ \A k \in 1..i : e[k] = c[k]
      /\ \A k \in i..MaxLimbs : e[k] = 0 /\ e[k + 1] = 0
      /\ e[MaxLimbs + 1] = 0
  BY <1>3, <1>4, <1>8 DEF Carries
<1> HIDE DEF e, s, neg
<1>10. ASSUME NEW k \in i..MaxLimbs
       PROVE  First[k] + Base * e[k + 1] = Pad(s)[k] + Second[k] + e[k]
  <2>1. Second[k] = 0 /\ First[k] \in Int
    BY <1>2, <1>3, LoopDigits DEF Digits
  <2>2. Base * 0 = 0
    BY Sizes
  <2> QED BY <1>7, <1>9, <2>1, <2>2
<1>11. exact = Sgn(neg, V(Pad(s)))
  BY <1>2, <1>6, <1>7, <1>8, <1>9, <1>10, Completed DEF neg
<1>12. V(Pad(s)) + BitsLeft * 0 = V(Pad(s))
  BY <1>6, Padded, Bounds, Moduli
<1>13. exact' = Sgn(neg, V(Pad(s)) + BitsLeft * 0) /\ 0 \in Nat
  BY <1>11, <1>12
<1> QED BY <1>2, <1>5, <1>6, <1>13, DeliverDelivers

\* The same of the subtraction of a limb
LEMMA SubtractLimbDelivers ==
  ASSUME RInv, SubtractLimbEnd, exact' = exact
  PROVE  Delivers(r)
<1> DEFINE s == [CopiedFrom(i) EXCEPT ![i] = at(pa, i) - 1]
           neg == num[a].sign
<1>1. pc = "subtract_limb" /\ at(pa, i) # 0
  BY DEF SubtractLimbEnd
<1>2. IInv /\ pc \in Loops /\ r \in Obj /\ i <= x /\ carry = 1 /\ ~swapped /\ m = 0
  BY <1>1 DEF RInv, IInv, Typed, Loops, Running, Progress
<1>3. /\ i \in Int /\ i >= 1 /\ x \in Int /\ x <= MaxLimbs /\ MaxLimbs \in Nat
      /\ i \in 1..MaxLimbs /\ i \in 1..x /\ x \in 1..MaxLimbs /\ i \in i..MaxLimbs /\ i <= i
      /\ i \in 1 .. MaxLimbs + 1 /\ MaxLimbs + 1 \in 1 .. MaxLimbs + 1 /\ MaxLimbs + 1 > i
      /\ \A k \in i..MaxLimbs : k \in m + 1 .. MaxLimbs /\ k \in 1..MaxLimbs
                                /\ k \in 1 .. MaxLimbs + 1
                                /\ k + 1 \in 1 .. MaxLimbs + 1 /\ k + 1 > i
                                /\ (k # i => k > i)
      /\ \A k \in 1..i : k \in 1 .. MaxLimbs + 1 /\ k <= i
      /\ \A k \in 1 .. i - 1 : k # i /\ k \in 1..MaxLimbs
  BY <1>2, NextLimbs, Sizes
<1>4. before[a].sign = neg /\ neg \in BOOLEAN
  BY <1>2, SignKept
<1>5. at(pa, i) \in Limb /\ at(pa, i) \in Int /\ at(pa, i) - 1 \in Limb /\ First[i] = at(pa, i)
  <2>1. i \in i..x
    BY <1>2, <1>3
  <2>2. at(pa, i) \in Limb /\ First[i] = at(pa, i)
    BY <1>2, <2>1, NextLimbs, LoopDigits
  <2> QED BY <1>1, <2>2, Sizes DEF Limb
<1>6. Deliver(r, s, neg)
  BY DEF SubtractLimbEnd
<1>7. /\ CopiedFrom(i) \in Limbs /\ CopiedFrom(i) \in [1..x -> Limb] /\ Len(CopiedFrom(i)) = x
      /\ \A k \in 1 .. i - 1 : Pad(CopiedFrom(i))[k] = at(r, k)
      /\ \A k \in i..MaxLimbs : Pad(CopiedFrom(i))[k] = First[k]
  BY <1>2, CopiedLimbs, CopiedDigits
<1>8. /\ s \in [1..x -> Limb] /\ s[i] = at(pa, i) - 1
      /\ \A k \in 1..x : k # i => s[k] = CopiedFrom(i)[k]
  BY <1>3, <1>5, <1>7
<1>9. s \in Limbs /\ Len(s) = x
  BY <1>3, <1>8, LimbsMade
<1> HIDE DEF s, neg
<1>10. Pad(s)[i] = First[i] - 1 /\ \A k \in 1..MaxLimbs : k # i => Pad(s)[k] = Pad(CopiedFrom(i))[k]
  <2>1. /\ \A k \in 1..MaxLimbs : Pad(s)[k] = IF k <= x THEN s[k] ELSE 0
        /\ \A k \in 1..MaxLimbs :
             Pad(CopiedFrom(i))[k] = IF k <= x THEN CopiedFrom(i)[k] ELSE 0
    BY <1>7, <1>9, Padded
  <2>2. \A k \in 1..MaxLimbs : k <= x => k \in 1..x
    BY <1>3
  <2> QED BY <1>2, <1>3, <1>5, <1>8, <2>1, <2>2
<1>11. PICK c \in Carries : c[i] = carry /\ Subtracted(c)
  BY <1>1, <1>2 DEF RInv, Progress
<1> DEFINE e == [k \in 1 .. MaxLimbs + 1 |-> IF k <= i THEN c[k] ELSE 0]
<1>12. /\ e \in Carries /\ \A k \in 1..i : e[k] = c[k]
       /\ e[i] = 1
       /\ \A k \in i..MaxLimbs : e[k + 1] = 0 /\ (k # i => e[k] = 0)
       /\ e[MaxLimbs + 1] = 0
  <2>1. e \in Carries
    BY <1>3 DEF Carries
  <2>2. \A k \in 1 .. MaxLimbs + 1 : e[k] = IF k <= i THEN c[k] ELSE 0
    OBVIOUS
  <2> HIDE DEF e
  <2>3. \A k \in i..MaxLimbs : ~(k + 1 <= i) /\ (k # i => ~(k <= i))
    BY <1>3
  <2>4. ~(MaxLimbs + 1 <= i)
    BY <1>3
  <2> QED BY <1>2, <1>3, <1>11, <2>1, <2>2, <2>3, <2>4
<1> HIDE DEF e
<1>13. ASSUME NEW k \in i..MaxLimbs
       PROVE  First[k] + Base * e[k + 1] = Pad(s)[k] + Second[k] + e[k]
  <2>1. Second[k] = 0 /\ First[k] \in Int
    BY <1>2, <1>3, LoopDigits DEF Digits
  <2>2. Base * 0 = 0
    BY Sizes
  <2>3. CASE k = i
    BY <1>10, <1>12, <2>1, <2>2, <2>3
  <2>4. CASE k # i
    <3>1. Pad(s)[k] = First[k]
      BY <1>3, <1>7, <1>10, <2>4
    <3> QED BY <1>12, <2>1, <2>2, <2>4, <3>1
  <2> QED BY <2>3, <2>4
<1>14. \A k \in 1 .. i - 1 : Pad(s)[k] = at(r, k)
  BY <1>3, <1>7, <1>10
<1>15. exact = Sgn(neg, V(Pad(s)))
  <2>1. exact = Sgn(before[a].sign # swapped, V(Pad(s)))
    BY <1>2, <1>9, <1>11, <1>12, <1>13, <1>14, Completed
  <2>2. (before[a].sign # swapped) = neg
    BY <1>2, <1>4 DEF IInv, Typed
  <2> QED BY <2>1, <2>2
<1>16. V(Pad(s)) + BitsLeft * 0 = V(Pad(s))
  BY <1>9, Padded, Bounds, Moduli
<1>17. exact' = Sgn(neg, V(Pad(s)) + BitsLeft * 0) /\ 0 \in Nat
  BY <1>15, <1>16
<1> QED BY <1>2, <1>4, <1>6, <1>9, <1>17, DeliverDelivers

\* A step of a loop goes on, or ends the call.
LEMMA StepRefines ==
  ASSUME RInv, Step
  PROVE  \/ Delivers(r)
         \/ /\ Progress' /\ pc' = pc
            /\ type' = type /\ before' = before /\ failed' = failed /\ r' = r
<1>1. pc \in Loops
  BY DEF Step, AddOverlap, AddTail, AddEnd, AddLimbStep, AddLimbEnd, SubtractOverlap,
         SubtractTail, SubtractEnd, SubtractLimbStep, SubtractLimbEnd, Loops
<1>2. IInv /\ Typed /\ Running /\ Progress /\ exact' = exact
  BY <1>1 DEF RInv, IInv, Step
<1>3. /\ \A k \in i..x : at(pa, k) \in Limb /\ First[k] = at(pa, k)
      /\ \A k \in i..m : at(pb, k) \in Limb /\ Second[k] = at(pb, k)
      /\ \A k \in m + 1 .. MaxLimbs : Second[k] = 0
      /\ i \in Int /\ i >= 1 /\ i <= x + 1 /\ x \in Int /\ x <= MaxLimbs /\ m \in Int /\ m <= x
      /\ MaxLimbs \in Int
  BY <1>1, <1>2, NextLimbs, LoopDigits, Sizes
<1>4. /\ i <= x => at(pa, i) \in Limb /\ First[i] = at(pa, i) /\ at(pa, i) \in Int
      /\ i <= m => i <= x /\ at(pb, i) \in Limb /\ Second[i] = at(pb, i) /\ at(pb, i) \in Int
      /\ m < i /\ i <= x => Second[i] = 0
  <2>1. /\ i <= x => i \in i..x
        /\ i <= m => i \in i..m /\ i <= x
        /\ m < i /\ i <= x => i \in m + 1 .. MaxLimbs
    BY <1>3
  <2>2. Limb \subseteq Int
    BY Sizes DEF Limb
  <2> QED BY <1>3, <2>1, <2>2
<1>5. carry \in Limb /\ carry \in Int
  BY <1>2, Sizes DEF Typed, Limb
<1>6. 0 \in Limb /\ 1 \in Limb /\ Base - 1 \in Limb /\ (\A c \in {0, 1} : c \in Limb)
      /\ Base \in Int /\ Base \in Nat \ {0} /\ Base >= 2
  BY Sizes DEF Limb
<1>7. ASSUME NEW l \in Limb, NEW c \in Limb, i <= x, Store(l, i + 1, c),
             pc \in {"add", "add_limb"} => l + Base * c = First[i] + Second[i] + carry,
             pc \in {"subtract", "subtract_limb"} => First[i] + Base * c = l + Second[i] + carry,
             pc = "subtract" => c \in {0, 1},
             pc = "subtract_limb" => c = 1
      PROVE  /\ Progress' /\ pc' = pc
             /\ type' = type /\ before' = before /\ failed' = failed /\ r' = r
  <2>1. Progress'
    BY <1>1, <1>2, <1>7, StoreProgresses
  <2> QED BY <2>1, <1>7 DEF Store, args
<1>8. CASE AddOverlap \/ AddTail \/ AddLimbStep
  <2> DEFINE sum == First[i] + Second[i] + carry
             l == sum % Base
             c == sum \div Base
  <2>1. i <= x /\ pc \in {"add", "add_limb"}
    BY <1>4, <1>8 DEF AddOverlap, AddTail, AddLimbStep
  <2>2. First[i] \in Limb /\ First[i] \in Int /\ Second[i] \in Limb /\ Second[i] \in Int
    BY <1>3, <1>4, <1>6, <2>1
  <2>3. Store(l, i + 1, c)
    <3>1. CASE AddOverlap
      <4>1. i <= m /\ Store((carry + at(pa, i) + at(pb, i)) % Base, i + 1,
                            (carry + at(pa, i) + at(pb, i)) \div Base)
        BY <3>1 DEF AddOverlap
      <4>2. carry + at(pa, i) + at(pb, i) = sum
        BY <1>4, <1>5, <4>1
      <4> HIDE DEF sum
      <4> QED BY <4>1, <4>2
    <3>2. CASE AddTail
      <4>1. m < i /\ Store((carry + at(pa, i)) % Base, i + 1, (carry + at(pa, i)) \div Base)
        BY <3>2 DEF AddTail
      <4>2. carry + at(pa, i) = sum
        BY <1>4, <1>5, <2>1, <4>1
      <4> HIDE DEF sum
      <4> QED BY <4>1, <4>2
    <3>3. CASE AddLimbStep
      <4>1. Store((carry + at(pa, i)) % Base, i + 1, (carry + at(pa, i)) \div Base)
        BY <3>3 DEF AddLimbStep
      <4>2. m < i
        <5>1. m = 0
          BY <1>2, <3>3 DEF AddLimbStep, Progress
        <5> QED BY <1>3, <5>1
      <4>3. carry + at(pa, i) = sum
        BY <1>4, <1>5, <2>1, <4>2
      <4> HIDE DEF sum
      <4> QED BY <4>1, <4>3
    <3> QED BY <1>8, <3>1, <3>2, <3>3
  <2>4. l \in Limb /\ c \in Int /\ sum = Base * c + l
    <3>1. sum \in Int
      BY <1>5, <2>2
    <3> HIDE DEF sum
    <3> QED BY <1>6, <3>1, Division, LastDigit
  <2>5. c \in Limb
    <3>1. CASE AddLimbStep
      <4>1. Second[i] = 0
        <5>1. m = 0
          BY <1>2, <3>1 DEF AddLimbStep, Progress
        <5> QED BY <1>3, <1>4, <2>1, <5>1
      <4>2. sum = 0 + First[i] + carry
        BY <1>5, <2>2, <4>1
      <4> HIDE DEF sum
      <4>3. c \in {0, 1}
        BY <1>5, <2>2, <4>2, DigitSum
      <4> HIDE DEF c
      <4> QED BY <1>6, <4>3
    <3>2. CASE AddOverlap \/ AddTail
      <4>1. carry \in {0, 1}
        BY <1>2, <3>2 DEF Running, AddOverlap, AddTail
      <4>2. sum = carry + First[i] + Second[i]
        BY <1>5, <2>2
      <4> HIDE DEF sum
      <4>3. c \in {0, 1}
        BY <2>2, <4>1, <4>2, DigitSum
      <4> HIDE DEF c
      <4> QED BY <1>6, <4>3
    <3> QED BY <1>8, <3>1, <3>2
  <2>6. l + Base * c = First[i] + Second[i] + carry
    <3> DEFINE b == Base * c
    <3>1. b \in Int /\ l \in Int
      BY <1>6, <2>4, Sizes DEF Limb
    <3>2. sum = b + l
      BY <2>4
    <3> HIDE DEF b, l, sum
    <3>3. l + b = sum
      BY <3>1, <3>2
    <3> QED BY <3>3 DEF b, sum
  <2> HIDE DEF l, c, sum
  <2>7. ~(pc \in {"subtract", "subtract_limb"})
    BY <2>1
  <2> QED BY <1>7, <2>1, <2>3, <2>4, <2>5, <2>6, <2>7
<1>9. CASE SubtractOverlap \/ SubtractTail
  <2> DEFINE d == First[i] - Second[i] - carry
             l == d % Base
             c == IF d < 0 THEN 1 ELSE 0
  <2>1. i <= x /\ pc = "subtract" /\ carry \in {0, 1}
    BY <1>2, <1>4, <1>9 DEF SubtractOverlap, SubtractTail, Running
  <2>2. First[i] \in Limb /\ First[i] \in Int /\ Second[i] \in Limb /\ Second[i] \in Int
    BY <1>3, <1>4, <1>6, <2>1
  <2>3. Store(l, i + 1, c)
    <3>1. CASE SubtractOverlap
      <4>1. i <= m /\ Store((at(pa, i) - at(pb, i) - carry) % Base, i + 1,
                            IF at(pa, i) - at(pb, i) - carry < 0 THEN 1 ELSE 0)
        BY <3>1 DEF SubtractOverlap
      <4>2. at(pa, i) - at(pb, i) - carry = d
        BY <1>4, <4>1
      <4> HIDE DEF d
      <4> QED BY <4>1, <4>2
    <3>2. CASE SubtractTail
      <4>1. m < i /\ Store((at(pa, i) - carry) % Base, i + 1,
                           IF at(pa, i) - carry < 0 THEN 1 ELSE 0)
        BY <3>2 DEF SubtractTail
      <4>2. at(pa, i) - carry = d
        BY <1>4, <1>5, <2>1, <4>1
      <4> HIDE DEF d
      <4> QED BY <4>1, <4>2
    <3> QED BY <1>9, <3>1, <3>2
  <2>4. d \in Int /\ d >= -Base /\ d < Base
    BY <1>5, <1>6, <2>1, <2>2 DEF Limb
  <2>5. l \in Limb /\ l \in Int /\ d + Base * c = l
    <3> DEFINE q == d \div Base
    <3>1. q \in Int /\ l \in Limb /\ d = Base * q + l
      <4> HIDE DEF d
      <4> QED BY <1>6, <2>4, Division, LastDigit
    <3>2. l \in Int /\ 0 <= l /\ l < Base
      BY <1>6, <3>1 DEF Limb
    <3> HIDE DEF q, l, d
    <3>3. ASSUME q >= 1 PROVE FALSE
      <4>1. Base * q >= Base * 1
        BY <1>6, <3>1, <3>3
      <4> DEFINE b == Base * q
      <4>2. b \in Int /\ b >= Base /\ d = b + l
        BY <1>6, <3>1, <4>1
      <4> HIDE DEF b
      <4> QED BY <1>6, <2>4, <3>2, <4>2
    <3>4. ASSUME q <= -2 PROVE FALSE
      <4>1. Base * q <= Base * (-2)
        BY <1>6, <3>1, <3>4
      <4>2. Base * (-2) = -Base - Base
        BY <1>6
      <4> DEFINE b == Base * q
      <4>3. b \in Int /\ b <= -Base - Base /\ d = b + l
        BY <1>6, <3>1, <4>1, <4>2
      <4> HIDE DEF b
      <4> QED BY <1>6, <2>4, <3>2, <4>3
    <3>5. q = 0 \/ q = -1
      BY <3>1, <3>3, <3>4
    <3>6. CASE q = 0
      <4>1. Base * q = 0
        BY <1>6, <3>6
      <4>2. d = l
        BY <3>1, <3>2, <4>1
      <4>3. c = 0 /\ Base * 0 = 0
        BY <1>6, <2>4, <3>2, <4>2
      <4> HIDE DEF c
      <4> QED BY <2>4, <3>1, <3>2, <4>2, <4>3
    <3>7. CASE q = -1
      <4>1. Base * q = -Base
        BY <1>6, <3>7
      <4>2. d = -Base + l
        BY <3>1, <4>1
      <4>3. c = 1 /\ Base * 1 = Base
        BY <1>6, <2>4, <3>2, <4>2
      <4> HIDE DEF c
      <4> QED BY <1>6, <2>4, <3>1, <3>2, <4>2, <4>3
    <3> QED BY <3>5, <3>6, <3>7
  <2>6. c \in {0, 1} /\ c \in Limb
    BY <1>6
  <2>7. First[i] + Base * c = l + Second[i] + carry
    <3> DEFINE b == Base * c
    <3>1. b \in Int
      BY <1>6, <2>6
    <3>2. First[i] - Second[i] - carry + b = l
      BY <2>5
    <3> HIDE DEF b, l
    <3>3. First[i] + b = l + Second[i] + carry
      BY <1>5, <2>2, <2>5, <3>1, <3>2
    <3> QED BY <3>3 DEF b
  <2> HIDE DEF l, c, d
  <2>8. ~(pc \in {"add", "add_limb"}) /\ pc # "subtract_limb"
    BY <2>1
  <2> QED BY <1>7, <2>1, <2>3, <2>5, <2>6, <2>7, <2>8
<1>10. CASE SubtractLimbStep
  <2>1. pc = "subtract_limb" /\ at(pa, i) = 0 /\ Store(Base - 1, i + 1, 1) /\ i <= x
        /\ carry = 1 /\ m = 0
    BY <1>2, <1>10 DEF SubtractLimbStep, Running, Progress
  <2>2. First[i] = 0 /\ Second[i] = 0
    BY <1>3, <1>4, <2>1
  <2>3. First[i] + Base * 1 = (Base - 1) + Second[i] + carry
    BY <1>6, <2>1, <2>2
  <2>4. ~(pc \in {"add", "add_limb"}) /\ pc # "subtract"
    BY <2>1
  <2> QED BY <1>6, <1>7, <2>1, <2>3, <2>4
<1>11. CASE AddEnd \/ AddLimbEnd
  <2>1. /\ pc \in {"add", "add_limb"} /\ m < i /\ (i > x \/ carry = 0)
        /\ CarryOut(CopiedFrom(i))
    <3>1. pc = "add_limb" => m < i
      BY <1>2, <1>3 DEF Progress
    <3> QED BY <1>11, <3>1 DEF AddEnd, AddLimbEnd
  <2> QED BY <1>2, <2>1, CarryOutDelivers
<1>12. CASE SubtractEnd
  BY <1>2, <1>12, SubtractDelivers
<1>13. CASE SubtractLimbEnd
  BY <1>2, <1>13, SubtractLimbDelivers
<1> QED BY <1>8, <1>9, <1>10, <1>11, <1>12, <1>13 DEF Step

----------------------------------------------------------------------------
(* The beginning of a call. *)

\* A loop begins, and the numbers keep the values that they have.
Begins(z) ==
  /\ r' = z /\ pc' \in Loops /\ Progress'
  /\ before' = before /\ failed' = failed

\* Either way a call may go
Refines(z) == Delivers(z) \/ Begins(z)

\* The digits of the second operand, up to digit s
UpTo(q, s) == [k \in 1..MaxLimbs |-> IF k <= s THEN num[q].limbs[k] ELSE 0]

LEMMA EnterBegins ==
  ASSUME IInv, pc = "idle", NEW l \in Loops, NEW z \in Obj, NEW y \in Obj,
         NEW n \in 1..MaxLimbs, NEW t \in [1..n -> Limb], NEW k \in 1..n, NEW c \in Limb,
         NEW p \in Obj, NEW q \in Obj, NEW s \in Nat,
         Enter(l, z, y, t, k, c),
         m' = s, x' = n, pa' = p, pb' = q,
         NEW e \in Carries, e[k] = c,
         l \in {"add", "add_limb"} =>
           /\ exact' = Sgn(num[y].sign, V(Pad(num[p].limbs)) + V(UpTo(q, s)) + e[1])
           /\ \A j \in 1 .. k - 1 : t[j] + Base * e[j + 1] = Pad(num[p].limbs)[j] + UpTo(q, s)[j] + e[j],
         l \in {"subtract", "subtract_limb"} =>
           /\ exact' = Sgn(num[y].sign # swapped', V(Pad(num[p].limbs)) - V(UpTo(q, s)) - e[1])
           /\ \A j \in 1 .. k - 1 : Pad(num[p].limbs)[j] + Base * e[j + 1] = t[j] + UpTo(q, s)[j] + e[j],
         l \in {"add_limb", "subtract_limb"} => s = 0,
         l = "subtract" =>
           /\ k = 1
           /\ \E j \in 1..n : /\ Pad(num[p].limbs)[j] > UpTo(q, s)[j]
                              /\ \A u \in j + 1 .. MaxLimbs : Pad(num[p].limbs)[u] = UpTo(q, s)[u],
         l = "subtract_limb" => c = 1 /\ ~swapped'
  PROVE  Begins(z)
<1>1. Typed /\ before = num /\ num[z] \in Number
  BY DEF IInv, Typed
<1>2. t \in Limbs
  BY LimbsMade
<1>3. /\ num' = [num EXCEPT ![z] = [num[z] EXCEPT !.limbs = t]]
      /\ pc' = l /\ r' = z /\ a' = y /\ i' = k /\ carry' = c
      /\ before' = num /\ before' = before /\ failed' = failed
  BY <1>1 DEF Enter
<1>4. num'[z].limbs = t /\ num'[z].sign = num[z].sign
  BY <1>1, <1>2, <1>3, NewLimbs DEF Typed
<1>5. First' = Pad(num[p].limbs)
  BY <1>3 DEF First
<1>6. Second' = UpTo(q, s)
  BY <1>3 DEF Second, UpTo
<1>7. (num[r].sign = before[r].sign)'
  BY <1>3, <1>4
<1>8. (pc \in {"add_limb", "subtract_limb"} => m = 0)'
  BY <1>3
<1>9. ASSUME l \in {"add", "add_limb"} PROVE (\E d \in Carries : d[i] = carry /\ Summed(d))'
  <2>1. (Summed(e))'
    BY <1>3, <1>4, <1>5, <1>6, <1>9 DEF Summed, at
  <2> QED BY <1>3, <2>1 DEF Carries
<1>10. ASSUME l \in {"subtract", "subtract_limb"}
       PROVE  (\E d \in Carries : d[i] = carry /\ Subtracted(d))'
  <2>1. (Subtracted(e))'
    BY <1>3, <1>4, <1>5, <1>6, <1>10 DEF Subtracted, at
  <2> QED BY <1>3, <2>1 DEF Carries
<1>11. ASSUME l = "subtract" PROVE (\E j \in 1..x : LargerAt(j))'
  <2>1. PICK j \in 1..n :
          /\ Pad(num[p].limbs)[j] > UpTo(q, s)[j]
          /\ \A u \in j + 1 .. MaxLimbs : Pad(num[p].limbs)[u] = UpTo(q, s)[u]
    BY <1>11
  <2>2. ~(k > j)
    <3>1. k = 1 /\ j \in Int /\ j >= 1
      BY <1>11, Sizes
    <3> QED BY <3>1
  <2>3. (LargerAt(j))'
    BY <1>3, <1>5, <1>6, <2>1, <2>2 DEF LargerAt
  <2> QED BY <1>3, <2>3
<1>12. (pc = "subtract_limb" => carry = 1 /\ ~swapped)'
  BY <1>3
<1>13. Progress'
  BY <1>3, <1>7, <1>8, <1>9, <1>10, <1>11, <1>12 DEF Progress
<1> QED BY <1>3, <1>13 DEF Begins

\* One limb
LEMMA OneLimb ==
  ASSUME NEW s \in Limbs, Len(s) = 1
  PROVE  s[1] \in Limb /\ s = <<s[1]>> /\ V(Pad(s)) = s[1]
<1>1. s \in Seq(Limb) /\ s[1] \in Limb
  BY LimbsType
<1>2. s = <<s[1]>>
  BY <1>1
<1> QED BY <1>1, <1>2, FewValues

\* No carries
LEMMA NoCarries ==
  ASSUME NEW o \in Int
  PROVE  LET e == [k \in 1 .. MaxLimbs + 1 |-> IF k = 1 THEN o ELSE 0]
         IN e \in Carries /\ e[1] = o
<1>1. 1 \in 1 .. MaxLimbs + 1
  BY Sizes
<1> QED BY <1>1 DEF Carries

\* The operands of a call
LEMMA Operand ==
  ASSUME IInv, pc = "idle", NEW y \in Readable
  PROVE  /\ Pad(num[y].limbs) \in Digits /\ V(Pad(num[y].limbs)) \in Int
         /\ V(Pad(num[y].limbs)) >= 0
         /\ Value(num[y]) = Sgn(num[y].sign, V(Pad(num[y].limbs))) /\ Value(num[y]) \in Int
         /\ UpTo(y, size(y)) = Pad(num[y].limbs)
         /\ UpTo(y, 0) = Zeros
         /\ num[y].sign => Signed
<1>1. num[y] \in Number /\ num[y].limbs \in Limbs /\ Normal(num[y])
  BY ReadableNumber
<1>2. Pad(num[y].limbs) \in Digits /\ V(Pad(num[y].limbs)) \in Int /\ V(Pad(num[y].limbs)) >= 0
  BY <1>1, Padded, Bounds
<1>3. UpTo(y, size(y)) = Pad(num[y].limbs)
  BY DEF UpTo, Pad, size
<1>4. UpTo(y, 0) = Zeros
  <2>1. \A k \in 1..MaxLimbs : ~(k <= 0)
    BY Sizes
  <2> QED BY <2>1 DEF UpTo, Zeros
<1> QED BY <1>1, <1>2, <1>3, <1>4, ValueOf DEF Normal

\* An addition begins.
LEMMA EnterAdds ==
  ASSUME IInv, pc = "idle", NEW l \in {"add", "add_limb"}, NEW z \in Obj, NEW y \in Obj,
         NEW n \in 1..MaxLimbs, NEW t \in [1..n -> Limb], NEW c \in Limb,
         NEW p \in Obj, NEW q \in Obj, NEW s \in Nat,
         Enter(l, z, y, t, 1, c),
         m' = s, x' = n, pa' = p, pb' = q,
         exact' = Sgn(num[y].sign, V(Pad(num[p].limbs)) + V(UpTo(q, s)) + c),
         l = "add_limb" => s = 0
  PROVE  Begins(z)
<1> DEFINE e == [k \in 1 .. MaxLimbs + 1 |-> IF k = 1 THEN c ELSE 0]
<1>1. c \in Int
  BY Sizes DEF Limb
<1>2. e \in Carries /\ e[1] = c
  BY <1>1, NoCarries
<1> HIDE DEF e
<1>3. 1 \in 1..n
  BY Sizes
<1>4. l \in Loops /\ l \notin {"subtract", "subtract_limb"} /\ l # "subtract" /\ l # "subtract_limb"
  BY DEF Loops
<1>5. l \in {"add_limb", "subtract_limb"} => s = 0
  BY <1>4
<1>6. \A j \in 1 .. 1 - 1 : t[j] + Base * e[j + 1] = Pad(num[p].limbs)[j] + UpTo(q, s)[j] + e[j]
  <2>1. 1 .. 1 - 1 = {}
    BY SMT
  <2> QED BY <2>1
<1>7. exact' = Sgn(num[y].sign, V(Pad(num[p].limbs)) + V(UpTo(q, s)) + e[1])
  BY <1>2
<1> QED BY <1>2, <1>3, <1>4, <1>5, <1>6, <1>7, EnterBegins

\* Digits d are larger than digits e, among the first n.
Above(d, e, n) ==
  \E j \in 1..n : d[j] > e[j] /\ \A u \in j + 1 .. MaxLimbs : d[u] = e[u]

\* A subtraction begins.
LEMMA EnterSubtracts ==
  ASSUME IInv, pc = "idle", NEW z \in Obj, NEW y \in Obj,
         NEW n \in 1..MaxLimbs, NEW t \in [1..n -> Limb],
         NEW p \in Obj, NEW q \in Obj, NEW s \in Nat,
         Enter("subtract", z, y, t, 1, 0),
         m' = s, x' = n, pa' = p, pb' = q,
         exact' = Sgn(num[y].sign # swapped', V(Pad(num[p].limbs)) - V(UpTo(q, s))),
         V(Pad(num[p].limbs)) \in Int, V(UpTo(q, s)) \in Int,
         Above(Pad(num[p].limbs), UpTo(q, s), n)
  PROVE  Begins(z)
<1> DEFINE e == [k \in 1 .. MaxLimbs + 1 |-> IF k = 1 THEN 0 ELSE 0]
<1>1. e \in Carries /\ e[1] = 0
  BY NoCarries
<1> HIDE DEF e
<1>2. 1 \in 1..n /\ 0 \in Limb
  BY Sizes DEF Limb
<1>3. \A j \in 1 .. 1 - 1 : Pad(num[p].limbs)[j] + Base * e[j + 1] = t[j] + UpTo(q, s)[j] + e[j]
  <2>1. 1 .. 1 - 1 = {}
    BY SMT
  <2> QED BY <2>1
<1>4. exact' = Sgn(num[y].sign # swapped', V(Pad(num[p].limbs)) - V(UpTo(q, s)) - e[1])
  <2>1. V(Pad(num[p].limbs)) - V(UpTo(q, s)) - e[1] = V(Pad(num[p].limbs)) - V(UpTo(q, s))
    BY <1>1
  <2> QED BY <2>1
<1> DEFINE l == "subtract"
<1>5. l \in Loops /\ l \notin {"add", "add_limb"} /\ l \notin {"add_limb", "subtract_limb"}
      /\ l # "subtract_limb" /\ Enter(l, z, y, t, 1, 0)
  BY DEF Loops
<1> HIDE DEF l
<1>6. \E j \in 1..n : /\ Pad(num[p].limbs)[j] > UpTo(q, s)[j]
                      /\ \A u \in j + 1 .. MaxLimbs : Pad(num[p].limbs)[u] = UpTo(q, s)[u]
  BY DEF Above
<1> QED BY <1>1, <1>2, <1>3, <1>4, <1>5, <1>6, EnterBegins, SMTT(60)

\* add_unsigned(result, a, b)
LEMMA AddRefines ==
  ASSUME IInv, pc = "idle", NEW z \in Obj, NEW y \in Readable, NEW w \in Readable,
         add_unsigned(z, y, w),
         exact' = Sgn(num[y].sign, V(Pad(num[y].limbs)) + V(Pad(num[w].limbs)))
  PROVE  Refines(z)
<1> DEFINE n == Larger(size(y), size(w))
           s == Smaller(size(y), size(w))
           sum == num[y].limbs[1] + num[w].limbs[1]
           p == IF size(y) < size(w) THEN w ELSE y
           q == IF size(y) < size(w) THEN y ELSE w
           vy == V(Pad(num[y].limbs))
           vw == V(Pad(num[w].limbs))
<1>1. /\ y \in Obj /\ num[y].sign \in BOOLEAN /\ w \in Obj
      /\ size(y) \in 1..MaxLimbs /\ size(y) \in Nat
      /\ size(w) \in 1..MaxLimbs /\ size(w) \in Nat
      /\ num[y].limbs \in Limbs /\ num[w].limbs \in Limbs
  BY ReadableNumber
<1>2. vy \in Int /\ vw \in Int /\ (num[y].sign => Signed)
  BY Operand
<1>3. /\ n \in 1..MaxLimbs /\ s \in Nat /\ s = size(q)
      /\ p \in Obj /\ q \in Obj
      /\ (p = y /\ q = w) \/ (p = w /\ q = y)
  <2>1. CASE size(y) < size(w)
    <3>1. n = size(w) /\ s = size(y) /\ p = w /\ q = y
      BY <1>1, <2>1 DEF Larger, Smaller
    <3> QED BY <1>1, <3>1
  <2>2. CASE ~(size(y) < size(w))
    <3>1. n = size(y) /\ s = size(w) /\ p = y /\ q = w
      BY <1>1, <2>2 DEF Larger, Smaller
    <3> QED BY <1>1, <3>1
  <2> QED BY <2>1, <2>2
<1>4. CASE n = 1
  <2> DEFINE t == IF sum < Base THEN <<sum>> ELSE <<sum % Base, 1>>
             al == num[y].limbs[1]
             bl == num[w].limbs[1]
  <2>1. size(y) = 1 /\ size(w) = 1
    BY <1>1, <1>4 DEF Larger
  <2>2. al \in Limb /\ bl \in Limb /\ vy = al /\ vw = bl
    BY <1>1, <2>1, OneLimb DEF size
  <2>3. al \in Int /\ bl \in Int /\ al >= 0 /\ bl >= 0 /\ al < Base /\ bl < Base /\ Base \in Int
        /\ Base \in Nat \ {0}
    BY <2>2, Sizes DEF Limb
  <2>4. sum \in Int /\ sum >= 0 /\ sum < Base + Base /\ sum = al + bl
    BY <2>3
  <2> HIDE DEF sum, al, bl, vy, vw
  <2>5. t \in Limbs /\ NormalLimbs(t) /\ V(Pad(t)) = sum
    <3>1. CASE sum < Base
      <4>1. sum \in Limb
        BY <2>3, <2>4, <3>1 DEF Limb
      <4> QED BY <3>1, <4>1, FewLimbs, FewValues
    <3>2. CASE ~(sum < Base)
      <4> DEFINE u == sum - Base
      <4>1. u \in 0 .. Base - 1 /\ sum = Base * 1 + u
        BY <2>3, <2>4, <3>2
      <4> HIDE DEF u
      <4>2. sum % Base = u
        BY <2>3, <2>4, <4>1, UniqueDivision
      <4>3. u \in Limb /\ t = <<u, 1>>
        BY <3>2, <4>1, <4>2 DEF Limb
      <4>4. V(Pad(t)) = u + Base
        BY <4>3, FewValues
      <4>5. u + Base = sum
        BY <2>3, <2>4 DEF u
      <4> QED BY <4>3, <4>4, <4>5, FewLimbs
    <3> QED BY <3>1, <3>2
  <2>6. Return(z, signed(t, num[y].sign))
    BY <1>4 DEF add_unsigned, sum
  <2> HIDE DEF t
  <2>7. exact' = Sgn(num[y].sign, V(Pad(t)))
    BY <2>2, <2>4, <2>5 DEF vy, vw
  <2>8. Delivers(z)
    BY <1>1, <1>2, <2>5, <2>6, <2>7, SignedDelivers
  <2> QED BY <2>8 DEF Refines
<1>5. CASE n # 1
  <2>1. PICK t \in resized(num[z].limbs, n) : Enter("add", z, y, t, 1, 0)
    BY <1>5 DEF add_unsigned
  <2>2. t \in [1..n -> Limb]
    BY <2>1 DEF resized
  <2>3. m' = s /\ x' = n /\ pa' = p /\ pb' = q
    BY <1>5 DEF add_unsigned
  <2>4. 0 \in Limb
    BY Sizes DEF Limb
  <2>5. UpTo(q, s) = Pad(num[q].limbs)
    BY <1>3, Operand
  <2>6. V(Pad(num[p].limbs)) + V(UpTo(q, s)) + 0 = vy + vw
    <3>1. vy + vw + 0 = vy + vw /\ vw + vy + 0 = vy + vw
      <4> HIDE DEF vy, vw
      <4> QED BY <1>2
    <3> QED BY <1>3, <2>5, <3>1
  <2> DEFINE l == "add"
  <2>7. l \in {"add", "add_limb"} /\ l # "add_limb" /\ Enter(l, z, y, t, 1, 0)
    BY <2>1
  <2> HIDE DEF n, s, p, q, l
  <2>8. exact' = Sgn(num[y].sign, V(Pad(num[p].limbs)) + V(UpTo(q, s)) + 0)
    BY <2>6
  <2> HIDE DEF vy, vw
  <2>9. Begins(z)
    BY <1>1, <1>3, <2>2, <2>3, <2>4, <2>7, <2>8, EnterAdds
  <2> QED BY <2>9 DEF Refines
<1> QED BY <1>4, <1>5

\* Zero
LEMMA ZeroIs ==
  Zero \in Number /\ Normal(Zero) /\ Value(Zero) = 0
<1>1. 0 \in Limb
  BY Sizes DEF Limb
<1>2. Zero.limbs = <<0>> /\ Zero.sign = FALSE /\ <<0>> \in Limbs /\ NormalLimbs(<<0>>)
      /\ V(Pad(<<0>>)) = 0
  BY <1>1, FewLimbs, FewValues DEF Zero
<1>3. Zero \in Number
  BY <1>2 DEF Zero, Number, Limbs
<1>4. Normal(Zero)
  BY <1>2 DEF Normal, NormalLimbs
<1>5. Value(Zero) = Sgn(FALSE, 0)
  BY <1>2, <1>3, ValueOf
<1> QED BY <1>3, <1>4, <1>5 DEF Sgn

\* The order of magnitudes is decided at the largest digit where they differ.
LEMMA LargerDigit ==
  ASSUME NEW s \in Limbs, NEW t \in Limbs, NormalLimbs(t), less_unsigned(s, t)
  PROVE  Above(Pad(t), Pad(s), Len(t))
<1>1. /\ Len(s) \in 1..MaxLimbs /\ Len(t) \in 1..MaxLimbs /\ MaxLimbs \in Int
      /\ Len(s) \in Int /\ Len(t) \in Int
      /\ \A k \in 1..Len(s) : s[k] \in Limb /\ s[k] \in Int
      /\ \A k \in 1..Len(t) : t[k] \in Limb /\ t[k] \in Int
  BY LimbsType, Sizes
<1>2. \A k \in 1..MaxLimbs : /\ Pad(s)[k] = IF k <= Len(s) THEN s[k] ELSE 0
                             /\ Pad(t)[k] = IF k <= Len(t) THEN t[k] ELSE 0
  BY DEF Pad
<1>3. CASE Len(s) < Len(t)
  <2>1. Len(t) \in 1..Len(t) /\ Len(t) > 1 /\ ~(Len(t) <= Len(s))
    BY <1>1, <1>3
  <2>2. t[Len(t)] # 0 /\ t[Len(t)] \in Limb
    BY <1>1, <2>1 DEF NormalLimbs
  <2>3. t[Len(t)] > 0
    BY <2>2, Sizes DEF Limb
  <2>4. Pad(t)[Len(t)] > Pad(s)[Len(t)]
    BY <1>1, <1>2, <2>1, <2>3
  <2>5. \A u \in Len(t) + 1 .. MaxLimbs : u \in 1..MaxLimbs /\ ~(u <= Len(t)) /\ ~(u <= Len(s))
    BY <1>1, <1>3
  <2>6. \A u \in Len(t) + 1 .. MaxLimbs : Pad(t)[u] = Pad(s)[u]
    BY <1>2, <2>5
  <2> QED BY <2>1, <2>4, <2>6 DEF Above
<1>4. CASE ~(Len(s) < Len(t))
  <2>1. PICK k \in 1..Len(s) : s[k] < t[k] /\ \A j \in k + 1 .. Len(s) : s[j] = t[j]
    BY <1>4 DEF less_unsigned
  <2>2. Len(s) = Len(t)
    BY <1>4 DEF less_unsigned
  <2>3. k \in 1..Len(t) /\ k \in 1..MaxLimbs /\ k <= Len(s) /\ k <= Len(t)
        /\ s[k] \in Int /\ t[k] \in Int
    BY <1>1, <2>2
  <2>4. Pad(t)[k] > Pad(s)[k]
    BY <1>2, <2>1, <2>3
  <2>5. ASSUME NEW u \in k + 1 .. MaxLimbs PROVE Pad(t)[u] = Pad(s)[u]
    <3>1. u \in 1..MaxLimbs /\ (u <= Len(s) => u \in k + 1 .. Len(s))
      BY <1>1, <2>3
    <3> QED BY <1>2, <2>1, <2>2, <3>1
  <2> QED BY <2>3, <2>4, <2>5 DEF Above
<1> QED BY <1>3, <1>4

\* Magnitudes that differ are ordered.
LEMMA NotLess ==
  ASSUME NEW s \in Limbs, NEW t \in Limbs, s # t, ~less_unsigned(s, t)
  PROVE  less_unsigned(t, s)
<1>1. /\ Len(s) \in Nat /\ Len(t) \in Nat /\ Len(s) >= 1
      /\ \A k \in 1..Len(s) : s[k] \in Int
      /\ \A k \in 1..Len(t) : t[k] \in Int
      /\ s \in [1..Len(s) -> Limb] /\ t \in [1..Len(t) -> Limb]
  BY LimbsType, Sizes
<1>2. CASE Len(t) < Len(s)
  BY <1>2 DEF less_unsigned
<1>3. CASE ~(Len(t) < Len(s))
  <2>1. Len(s) = Len(t)
    <3>1. ~(Len(s) < Len(t))
      BY DEF less_unsigned
    <3>2. Len(s) \in Int /\ Len(t) \in Int
      BY <1>1
    <3> DEFINE ls == Len(s)
               lt == Len(t)
    <3> HIDE DEF ls, lt
    <3>3. ls \in Int /\ lt \in Int /\ ~(ls < lt) /\ ~(lt < ls)
      BY <1>3, <3>1, <3>2 DEF ls, lt
    <3>4. ls = lt
      BY <3>3
    <3> QED BY <3>4 DEF ls, lt
  <2> DEFINE n == Len(s)
             S == {d \in Nat : d \in 0 .. n - 1 /\ s[n - d] # t[n - d]}
  <2>2. PICK k \in 1..n : s[k] # t[k]
    BY <1>1, <2>1
  <2>3. n - k \in S
    <3>1. n - k \in Nat /\ n - k \in 0 .. n - 1 /\ n - (n - k) = k
      BY <1>1
    <3> QED BY <2>2, <3>1
  <2>4. PICK d \in S : \A e \in S : d <= e
    BY <2>3, LeastNatural
  <2> DEFINE l == n - d
  <2>5. l \in 1..n /\ l \in Int /\ n - l = d /\ d \in Int /\ s[l] # t[l]
    BY <1>1, <2>4
  <2>6. ASSUME NEW j \in l + 1 .. n PROVE s[j] = t[j]
    <3>1. n - j \in Nat /\ n - j \in 0 .. n - 1 /\ n - (n - j) = j /\ ~(d <= n - j)
      BY <1>1, <2>5
    <3>2. n - j \notin S
      BY <2>4, <3>1
    <3> QED BY <3>1, <3>2
  <2> HIDE DEF l
  <2>7. ~(s[l] < t[l])
    BY <2>1, <2>5, <2>6 DEF less_unsigned
  <2>8. t[l] < s[l]
    BY <1>1, <2>1, <2>5, <2>7, SMTT(60)
  <2>9. \A j \in l + 1 .. Len(t) : t[j] = s[j]
    BY <2>1, <2>6
  <2> QED BY <2>1, <2>5, <2>8, <2>9 DEF less_unsigned
<1> QED BY <1>2, <1>3

\* The sign of a difference turns round with its operands.
LEMMA Turned ==
  ASSUME NEW neg \in BOOLEAN, NEW u \in Int, NEW v \in Int
  PROVE  Sgn(neg, u - v) = Sgn(neg # TRUE, v - u) /\ (neg # FALSE) = neg
<1>1. (TRUE # TRUE) = FALSE /\ (FALSE # TRUE) = TRUE /\ (TRUE # FALSE) = TRUE
      /\ (FALSE # FALSE) = FALSE
  OBVIOUS
<1>2. \A d \in Int : Sgn(TRUE, d) = -d /\ Sgn(FALSE, d) = d
  BY DEF Sgn
<1>3. u - v \in Int /\ v - u \in Int /\ -(u - v) = v - u /\ -(v - u) = u - v
  OBVIOUS
<1>4. CASE neg = TRUE
  BY <1>1, <1>2, <1>3, <1>4, Zenon
<1>5. CASE neg = FALSE
  BY <1>1, <1>2, <1>3, <1>5, Zenon
<1> QED BY <1>4, <1>5

\* subtract_unsigned(result, a, b)
LEMMA SubtractRefines ==
  ASSUME IInv, pc = "idle", NEW z \in Obj, NEW y \in Readable, NEW w \in Readable,
         subtract_unsigned(z, y, w),
         exact' = Sgn(num[y].sign, V(Pad(num[y].limbs)) - V(Pad(num[w].limbs)))
  PROVE  Refines(z)
<1> DEFINE n == Larger(size(y), size(w))
           s == Smaller(size(y), size(w))
           less == less_unsigned(num[y].limbs, num[w].limbs)
           p == IF less THEN w ELSE y
           q == IF less THEN y ELSE w
           vy == V(Pad(num[y].limbs))
           vw == V(Pad(num[w].limbs))
           neg == num[y].sign
<1>1. /\ y \in Obj /\ neg \in BOOLEAN /\ w \in Obj
      /\ size(y) \in 1..MaxLimbs /\ size(y) \in Nat
      /\ size(w) \in 1..MaxLimbs /\ size(w) \in Nat
      /\ num[y].limbs \in Limbs /\ num[w].limbs \in Limbs
      /\ NormalLimbs(num[y].limbs) /\ NormalLimbs(num[w].limbs)
  BY ReadableNumber
<1>2. vy \in Int /\ vw \in Int /\ (num[y].sign => Signed)
  BY Operand
<1>3. CASE n = 1
  <2> DEFINE al == num[y].limbs[1]
             bl == num[w].limbs[1]
             l == IF bl > al THEN bl - al ELSE al - bl
             t == <<l>>
  <2>1. size(y) = 1 /\ size(w) = 1
    BY <1>1, <1>3 DEF Larger
  <2>2. al \in Limb /\ bl \in Limb /\ vy = al /\ vw = bl
    BY <1>1, <2>1, OneLimb DEF size
  <2>3. al \in Int /\ bl \in Int /\ al >= 0 /\ bl >= 0 /\ al < Base /\ bl < Base /\ Base \in Int
    BY <2>2, Sizes DEF Limb
  <2>4. Deliver(z, t, neg # (bl > al))
    BY <1>3 DEF subtract_unsigned
  <2> HIDE DEF al, bl, vy, vw
  <2>5. l \in Limb /\ l \in Int
    BY <2>3 DEF Limb
  <2>6. exact' = Sgn(neg # (bl > al), l)
    <3>1. exact' = Sgn(neg, al - bl)
      BY <2>2 DEF vy, vw
    <3>2. CASE bl > al
      <4>1. l = bl - al /\ (bl > al) = TRUE
        BY <3>2
      <4> HIDE DEF neg, l
      <4>2. exact' = Sgn(neg # TRUE, bl - al)
        BY <1>1, <2>3, <3>1, Turned
      <4> QED BY <4>1, <4>2
    <3>3. CASE ~(bl > al)
      <4>1. l = al - bl /\ (bl > al) = FALSE
        BY <3>3
      <4> HIDE DEF neg, l
      <4>2. (neg # FALSE) = neg
        BY <1>1, <2>3, Turned
      <4> QED BY <3>1, <4>1, <4>2
    <3> QED BY <3>2, <3>3
  <2> HIDE DEF l
  <2>7. t \in Limbs /\ V(Pad(t)) = l
    BY <2>5, FewLimbs, FewValues
  <2> HIDE DEF t
  <2>8. BitsLeft * 0 = 0 /\ l + 0 = l
    <3>1. BitsLeft \in Int
      BY Moduli
    <3> QED BY <2>5, <3>1
  <2>9. exact' = Sgn(neg # (bl > al), V(Pad(t)) + BitsLeft * 0)
    BY <2>6, <2>7, <2>8
  <2>10. (neg # (bl > al)) \in BOOLEAN /\ 0 \in Nat
    OBVIOUS
  <2>11. Delivers(z)
    <3> DEFINE g == (neg # (bl > al))
    <3>1. g \in BOOLEAN /\ Deliver(z, t, g) /\ exact' = Sgn(g, V(Pad(t)) + BitsLeft * 0)
      BY <2>4, <2>9
    <3> HIDE DEF g
    <3> QED BY <2>7, <2>10, <3>1, DeliverDelivers
  <2> QED BY <2>11 DEF Refines
<1>4. CASE n # 1 /\ num[y].limbs = num[w].limbs
  <2>1. Return(z, Zero)
    BY <1>4 DEF subtract_unsigned
  <2>2. Zero \in Number /\ Normal(Zero) /\ Value(Zero) = 0
    BY ZeroIs
  <2>3. exact' = 0
    <3>1. vy = vw /\ vy - vw = 0
      <4>1. vy = vw
        BY <1>4
      <4> HIDE DEF vy, vw
      <4> QED BY <1>2, <4>1
    <3>2. exact' = Sgn(neg, 0)
      BY <3>1
    <3> QED BY <3>2 DEF Sgn
  <2>4. Delivers(z)
    BY <2>1, <2>2, <2>3, ReturnDelivers
  <2> QED BY <2>4 DEF Refines
<1>5. CASE n # 1 /\ num[y].limbs # num[w].limbs
  <2>1. PICK t \in resized(num[z].limbs, n) : Enter("subtract", z, y, t, 1, 0)
    BY <1>5 DEF subtract_unsigned
  <2>2. t \in [1..n -> Limb]
    BY <2>1 DEF resized
  <2>3. m' = s /\ x' = n /\ pa' = p /\ pb' = q /\ swapped' = less
    BY <1>5 DEF subtract_unsigned
  <2>4. less_unsigned(num[q].limbs, num[p].limbs)
    BY <1>1, <1>5, NotLess
  <2>5. /\ p \in Obj /\ q \in Obj /\ p \in Readable /\ q \in Readable
        /\ num[p].limbs \in Limbs /\ num[q].limbs \in Limbs /\ NormalLimbs(num[p].limbs)
        /\ size(p) \in Nat /\ size(q) \in Nat
    BY <1>1
  <2>6. size(q) <= size(p)
    <3>1. size(q) < size(p) \/ size(q) = size(p)
      BY <2>4 DEF less_unsigned, size
    <3> HIDE DEF p, q
    <3> QED BY <2>5, <3>1
  <2>7. n \in 1..MaxLimbs /\ s \in Nat /\ s = size(q) /\ n = size(p)
    <3>1. CASE p = w /\ q = y
      BY <1>1, <2>6, <3>1 DEF Larger, Smaller
    <3>2. CASE p = y /\ q = w
      BY <1>1, <2>6, <3>2 DEF Larger, Smaller
    <3>3. (p = w /\ q = y) \/ (p = y /\ q = w)
      OBVIOUS
    <3> QED BY <3>1, <3>2, <3>3
  <2>8. UpTo(q, s) = Pad(num[q].limbs)
    BY <2>5, <2>7, Operand
  <2>9. V(Pad(num[p].limbs)) \in Int /\ V(UpTo(q, s)) \in Int
    BY <2>5, <2>8, Operand
  <2>10. exact' = Sgn(num[y].sign # swapped', V(Pad(num[p].limbs)) - V(UpTo(q, s)))
    <3>1. CASE less
      <4>1. p = w /\ q = y
        BY <3>1
      <4>2. swapped' = TRUE
        BY <2>3, <3>1
      <4>3. exact' = Sgn(neg, vy - vw)
        OBVIOUS
      <4>4. V(Pad(num[p].limbs)) - V(UpTo(q, s)) = vw - vy
        BY <2>8, <4>1
      <4> HIDE DEF vy, vw, neg, less, p, q, n, s
      <4>5. exact' = Sgn(neg # TRUE, vw - vy)
        BY <1>1, <1>2, <4>3, Turned
      <4> QED BY <4>2, <4>4, <4>5 DEF neg
    <3>2. CASE ~less
      <4>1. p = y /\ q = w
        BY <3>2
      <4>2. swapped' = FALSE
        BY <2>3, <3>2
      <4>3. exact' = Sgn(neg, vy - vw)
        OBVIOUS
      <4>4. V(Pad(num[p].limbs)) - V(UpTo(q, s)) = vy - vw
        BY <2>8, <4>1
      <4> HIDE DEF vy, vw, less, p, q, n, s
      <4>5. (neg # FALSE) = neg
        BY <1>1
      <4> QED BY <4>2, <4>3, <4>4, <4>5
    <3> QED BY <3>1, <3>2
  <2>11. Above(Pad(num[p].limbs), UpTo(q, s), n)
    <3> HIDE DEF p, q, n, s, less
    <3>1. Len(num[p].limbs) = n
      BY <2>7 DEF size
    <3> QED BY <2>4, <2>5, <2>8, <3>1, LargerDigit
  <2> HIDE DEF n, s, p, q, less
  <2>12. Begins(z)
    BY <1>1, <2>1, <2>2, <2>3, <2>5, <2>7, <2>9, <2>10, <2>11, EnterSubtracts
  <2> QED BY <2>12 DEF Refines
<1> QED BY <1>3, <1>4, <1>5

\* add_unsigned(result, a, limb)
LEMMA AddLimbRefines ==
  ASSUME IInv, pc = "idle", NEW z \in Obj, NEW y \in Readable, NEW o \in Limb,
         add_unsigned_limb(z, y, o),
         exact' = Sgn(num[y].sign, V(Pad(num[y].limbs)) + o)
  PROVE  Refines(z)
<1> DEFINE n == size(y)
           vy == V(Pad(num[y].limbs))
           l == "add_limb"
<1>1. y \in Obj /\ n \in 1..MaxLimbs
  BY ReadableNumber
<1>2. PICK t \in resized(num[z].limbs, n) : Enter(l, z, y, t, 1, o)
  BY DEF add_unsigned_limb
<1>3. t \in [1..n -> Limb]
  BY <1>2 DEF resized
<1>4. m' = 0 /\ x' = n /\ pa' = y /\ pb' = y /\ 0 \in Nat
  BY DEF add_unsigned_limb
<1>5. l \in {"add", "add_limb"}
  OBVIOUS
<1>6. exact' = Sgn(num[y].sign, vy + V(UpTo(y, 0)) + o)
  <2>1. UpTo(y, 0) = Zeros /\ vy \in Int
    BY Operand
  <2>2. vy + 0 = vy
    <3> HIDE DEF vy
    <3> QED BY <2>1
  <2>3. V(UpTo(y, 0)) = 0
    BY <2>1, ZerosValue
  <2> QED BY <2>2, <2>3
<1> HIDE DEF n, l
<1>7. Begins(z)
  BY <1>1, <1>2, <1>3, <1>4, <1>5, <1>6, EnterAdds
<1> QED BY <1>7 DEF Refines

\* The value of a number whose lowest limb changes
LEMMA NewLowValue ==
  ASSUME NEW s \in Limbs, NEW u \in Limb
  PROVE  /\ V(Pad([s EXCEPT ![1] = u])) = V(Pad(s)) + (u - s[1])
         /\ s[1] \in Limb /\ V(Pad(s)) \in Int
<1> DEFINE t == [s EXCEPT ![1] = u]
<1>1. /\ Len(s) \in 1..MaxLimbs /\ Len(s) \in Nat /\ s \in [1..Len(s) -> Limb]
      /\ 1 \in 1..MaxLimbs
  BY LimbsType, Sizes
<1>2. 1 \in 1..Len(s) /\ 1 <= Len(s)
  BY <1>1
<1>3. t \in [1..Len(s) -> Limb] /\ t[1] = u /\ \A k \in 1..Len(s) : k # 1 => t[k] = s[k]
  BY <1>1, <1>2
<1>4. t \in Limbs /\ Len(t) = Len(s)
  BY <1>1, <1>3, LimbsMade
<1> HIDE DEF t
<1>5. Pad(s) \in Digits /\ Pad(t) \in Digits
  BY <1>4, Padded
<1>6. Pad(s)[1] = s[1] /\ Pad(t)[1] = u
  BY <1>1, <1>2, <1>3, <1>4 DEF Pad
<1>7. ASSUME NEW k \in 1..MaxLimbs, k # 1 PROVE Pad(t)[k] = Pad(s)[k]
  <2>1. k <= Len(s) => k \in 1..Len(s)
    BY <1>1, Sizes
  <2> QED BY <1>3, <1>4, <1>7, <2>1 DEF Pad
<1>8. V(Pad(t)) = V(Pad(s)) + (u - s[1]) /\ V(Pad(s)) \in Int
  BY <1>5, <1>6, <1>7, LowestDigit
<1> QED BY <1>1, <1>2, <1>8 DEF t

\* subtract_unsigned(result, a, limb)
LEMMA SubtractLimbRefines ==
  ASSUME IInv, pc = "idle", NEW z \in Obj, NEW y \in Readable, NEW o \in Limb,
         subtract_unsigned_limb(z, y, o),
         exact' = Sgn(num[y].sign, V(Pad(num[y].limbs)) - o)
  PROVE  Refines(z)
<1> DEFINE s == num[y].limbs
           low == s[1]
           n == Len(s)
           vy == V(Pad(s))
           neg == num[y].sign
<1>1. /\ y \in Obj /\ neg \in BOOLEAN /\ s \in Limbs /\ NormalLimbs(s)
      /\ n \in 1..MaxLimbs /\ n \in Nat /\ n = size(y)
      /\ \A k \in 1..n : s[k] \in Limb
  BY ReadableNumber DEF size
<1>2. vy \in Int /\ (neg => Signed) /\ UpTo(y, 0) = Zeros
  BY Operand
<1>3. low \in Limb /\ low \in Int /\ o \in Int /\ Base \in Int
      /\ low >= 0 /\ low < Base /\ o >= 0 /\ o < Base
  BY <1>1, Sizes DEF Limb
<1>4. CASE low >= o
  <2> DEFINE t == [s EXCEPT ![1] = low - o]
  <2>1. low - o \in Limb
    BY <1>3, <1>4 DEF Limb
  <2>2. t \in Limbs /\ NormalLimbs(t) /\ V(Pad(t)) = vy + ((low - o) - low)
    BY <1>1, <2>1, NewLow, NewLowValue
  <2>3. Return(z, signed(t, neg))
    BY <1>4 DEF subtract_unsigned_limb
  <2> HIDE DEF t
  <2>4. exact' = Sgn(neg, V(Pad(t)))
    <3>1. exact' = Sgn(neg, vy - o)
      OBVIOUS
    <3> HIDE DEF vy, low, neg
    <3>2. vy + ((low - o) - low) = vy - o
      BY <1>2, <1>3
    <3> QED BY <2>2, <3>1, <3>2
  <2> HIDE DEF neg
  <2>5. Delivers(z)
    BY <1>1, <1>2, <2>2, <2>3, <2>4, SignedDelivers
  <2> QED BY <2>5 DEF Refines
<1>5. CASE ~(low >= o) /\ n = 1
  <2> DEFINE u == o - low
             t == <<u>>
             g == (~neg)
  <2>1. vy = low
    BY <1>1, <1>5, OneLimb
  <2>2. u \in Limb /\ u \in Int
    BY <1>3, <1>5 DEF Limb
  <2>3. t \in Limbs /\ V(Pad(t)) = u
    BY <2>2, FewLimbs, FewValues
  <2>4. Deliver(z, t, g)
    BY <1>5 DEF subtract_unsigned_limb
  <2>5. g = (neg # TRUE) /\ g \in BOOLEAN
    BY <1>1
  <2>6. exact' = Sgn(g, u)
    <3>1. exact' = Sgn(neg, low - o)
      BY <2>1
    <3> HIDE DEF low, neg, g
    <3> QED BY <1>1, <1>3, <2>5, <3>1, Turned
  <2> HIDE DEF t
  <2>7. BitsLeft * 0 = 0 /\ u + 0 = u /\ 0 \in Nat
    <3>1. BitsLeft \in Int
      BY Moduli
    <3> HIDE DEF u
    <3> QED BY <2>2, <3>1
  <2> HIDE DEF u, g
  <2>8. exact' = Sgn(g, V(Pad(t)) + BitsLeft * 0)
    BY <2>3, <2>6, <2>7
  <2>9. Delivers(z)
    BY <2>3, <2>4, <2>5, <2>7, <2>8, DeliverDelivers
  <2> QED BY <2>9 DEF Refines
<1>6. CASE ~(low >= o) /\ n # 1
  <2> DEFINE u == Base + low - o
             l == "subtract_limb"
             e == [k \in 1 .. MaxLimbs + 1 |-> IF k = 1 THEN o ELSE IF k = 2 THEN 1 ELSE 0]
  <2>1. PICK t \in resized(num[z].limbs, n) : Enter(l, z, y, [t EXCEPT ![1] = u], 2, 1)
    BY <1>6 DEF subtract_unsigned_limb
  <2> DEFINE v == [t EXCEPT ![1] = u]
  <2>2. u \in Limb
    BY <1>3, <1>6 DEF Limb
  <2>3. t \in [1..n -> Limb]
    BY <2>1 DEF resized
  <2>4. 2 \in 1..n /\ 1 \in 1..n /\ 1 \in Limb /\ 0 \in Nat
    BY <1>1, <1>6, Sizes DEF Limb
  <2>5. v \in [1..n -> Limb] /\ v[1] = u
    BY <2>2, <2>3, <2>4
  <2>6. e \in Carries /\ e[1] = o /\ e[2] = 1
    <3>1. 1 \in 1 .. MaxLimbs + 1 /\ 2 \in 1 .. MaxLimbs + 1
      BY Sizes
    <3> QED BY <1>3, <3>1 DEF Carries
  <2>7. m' = 0 /\ x' = n /\ pa' = y /\ pb' = y /\ swapped' = FALSE
    BY <1>6 DEF subtract_unsigned_limb
  <2>8. l \in Loops /\ l \notin {"add", "add_limb"} /\ l # "subtract"
    BY DEF Loops
  <2>9. exact' = Sgn(neg # swapped', vy - V(UpTo(y, 0)) - e[1])
    <3>1. (neg # FALSE) = neg
      BY <1>1
    <3>2. V(UpTo(y, 0)) = 0
      BY <1>2, ZerosValue
    <3>3. exact' = Sgn(neg, vy - o)
      OBVIOUS
    <3> HIDE DEF vy, neg, e
    <3>4. vy - 0 - o = vy - o
      BY <1>2, <1>3
    <3> QED BY <2>6, <2>7, <3>1, <3>2, <3>3, <3>4
  <2>10. Pad(s)[1] + Base * e[2] = v[1] + UpTo(y, 0)[1] + e[1]
    <3>1. 1 \in 1..MaxLimbs /\ 1 <= n
      BY <1>1, Sizes
    <3>2. Pad(s)[1] = low
      BY <3>1 DEF Pad
    <3>3. UpTo(y, 0)[1] = 0
      BY <1>2, <3>1 DEF Zeros
    <3> HIDE DEF low, v, e
    <3>4. low + Base * 1 = u + 0 + o
      BY <1>3
    <3> QED BY <2>5, <2>6, <3>2, <3>3, <3>4
  <2> HIDE DEF u, e, v
  <2>11. \A j \in 1 .. 2 - 1 :
           Pad(s)[j] + Base * e[j + 1] = v[j] + UpTo(y, 0)[j] + e[j]
    <3>1. \A j \in 1 .. 2 - 1 : j = 1 /\ j + 1 = 2
      OBVIOUS
    <3> QED BY <2>10, <3>1
  <2>12. Enter(l, z, y, v, 2, 1)
    BY <2>1 DEF v
  <2>13. l \in {"add_limb", "subtract_limb"} => 0 = 0
    OBVIOUS
  <2> HIDE DEF l, n
  <2>14. Begins(z)
    BY <1>1, <2>4, <2>5, <2>6, <2>7, <2>8, <2>9, <2>11, <2>12, EnterBegins, SMTT(60)
  <2> QED BY <2>14 DEF Refines
<1> QED BY <1>4, <1>5, <1>6

\* Signs and magnitudes of sums
LEMMA SignedSums ==
  ASSUME NEW neg \in BOOLEAN, NEW g \in BOOLEAN, NEW u \in Int, NEW v \in Int
  PROVE  /\ neg = g => /\ Sgn(neg, u) + Sgn(g, v) = Sgn(neg, u + v)
                       /\ Sgn(neg, u) - Sgn(g, v) = Sgn(neg, u - v)
         /\ neg # g => /\ Sgn(neg, u) + Sgn(g, v) = Sgn(neg, u - v)
                       /\ Sgn(neg, u) - Sgn(g, v) = Sgn(neg, u + v)
<1>1. \A d \in Int : Sgn(TRUE, d) = -d /\ Sgn(FALSE, d) = d
  BY DEF Sgn
<1>2. u + v \in Int /\ u - v \in Int
  OBVIOUS
<1>3. /\ (-u) + (-v) = -(u + v) /\ (-u) - (-v) = -(u - v)
      /\ (-u) + v = -(u - v) /\ (-u) - v = -(u + v)
      /\ u + (-v) = u - v /\ u - (-v) = u + v
  OBVIOUS
<1>4. CASE neg = TRUE /\ g = TRUE
  BY <1>1, <1>2, <1>3, <1>4, Zenon
<1>5. CASE neg = TRUE /\ g = FALSE
  BY <1>1, <1>2, <1>3, <1>5, Zenon
<1>6. CASE neg = FALSE /\ g = TRUE
  BY <1>1, <1>2, <1>3, <1>6, Zenon
<1>7. CASE neg = FALSE /\ g = FALSE
  BY <1>1, <1>2, <1>3, <1>7, Zenon
<1> QED BY <1>4, <1>5, <1>6, <1>7

\* eval_add and eval_subtract, of a number
LEMMA EvalRefines ==
  ASSUME IInv, pc = "idle", NEW z \in Obj, NEW y \in Readable, NEW w \in Readable,
         \/ exact' = Value(num[y]) + Value(num[w]) /\ eval_add(z, y, w)
         \/ exact' = Value(num[y]) - Value(num[w]) /\ eval_subtract(z, y, w)
  PROVE  Refines(z)
<1> DEFINE neg == num[y].sign
           g == num[w].sign
           vy == V(Pad(num[y].limbs))
           vw == V(Pad(num[w].limbs))
<1>1. vy \in Int /\ vw \in Int /\ neg \in BOOLEAN /\ g \in BOOLEAN
  BY Operand, ReadableNumber
<1>2. Value(num[y]) = Sgn(neg, vy) /\ Value(num[w]) = Sgn(g, vw)
  BY Operand
<1>3. exact' = Sgn(neg, vy + vw) /\ add_unsigned(z, y, w) => Refines(z)
  BY AddRefines
<1>4. exact' = Sgn(neg, vy - vw) /\ subtract_unsigned(z, y, w) => Refines(z)
  BY SubtractRefines
<1>5. /\ eval_add(z, y, w) => IF neg # g THEN subtract_unsigned(z, y, w) ELSE add_unsigned(z, y, w)
      /\ eval_subtract(z, y, w) => IF neg # g THEN add_unsigned(z, y, w)
                                   ELSE subtract_unsigned(z, y, w)
  BY DEF eval_add, eval_subtract
<1>6. \/ exact' = Sgn(neg, vy) + Sgn(g, vw) /\ eval_add(z, y, w)
      \/ exact' = Sgn(neg, vy) - Sgn(g, vw) /\ eval_subtract(z, y, w)
  BY <1>2
<1> HIDE DEF neg, g, vy, vw
<1>7. /\ neg = g => /\ Sgn(neg, vy) + Sgn(g, vw) = Sgn(neg, vy + vw)
                    /\ Sgn(neg, vy) - Sgn(g, vw) = Sgn(neg, vy - vw)
      /\ neg # g => /\ Sgn(neg, vy) + Sgn(g, vw) = Sgn(neg, vy - vw)
                    /\ Sgn(neg, vy) - Sgn(g, vw) = Sgn(neg, vy + vw)
  BY <1>1, SignedSums
<1> QED BY <1>3, <1>4, <1>5, <1>6, <1>7, Zenon

\* The same of a limb
LEMMA EvalLimbRefines ==
  ASSUME IInv, pc = "idle", NEW z \in Obj, NEW y \in Readable, NEW o \in Limb,
         \/ exact' = Value(num[y]) + o /\ eval_add_limb(z, y, o)
         \/ exact' = Value(num[y]) - o /\ eval_subtract_limb(z, y, o)
  PROVE  Refines(z)
<1> DEFINE neg == num[y].sign
           vy == V(Pad(num[y].limbs))
<1>1. vy \in Int /\ neg \in BOOLEAN /\ o \in Int
  BY Operand, ReadableNumber, Sizes DEF Limb
<1>2. Value(num[y]) = Sgn(neg, vy) /\ Sgn(FALSE, o) = o
  BY Operand DEF Sgn
<1>3. exact' = Sgn(neg, vy + o) /\ add_unsigned_limb(z, y, o) => Refines(z)
  BY AddLimbRefines
<1>4. exact' = Sgn(neg, vy - o) /\ subtract_unsigned_limb(z, y, o) => Refines(z)
  BY SubtractLimbRefines
<1>5. /\ eval_add_limb(z, y, o) => IF neg THEN subtract_unsigned_limb(z, y, o)
                                   ELSE add_unsigned_limb(z, y, o)
      /\ eval_subtract_limb(z, y, o) => IF neg THEN add_unsigned_limb(z, y, o)
                                        ELSE subtract_unsigned_limb(z, y, o)
  BY DEF eval_add_limb, eval_subtract_limb
<1>6. \/ exact' = Sgn(neg, vy) + o /\ eval_add_limb(z, y, o)
      \/ exact' = Sgn(neg, vy) - o /\ eval_subtract_limb(z, y, o)
  BY <1>2
<1> HIDE DEF neg, vy
<1>7. /\ neg = FALSE => /\ Sgn(neg, vy) + o = Sgn(neg, vy + o)
                        /\ Sgn(neg, vy) - o = Sgn(neg, vy - o)
      /\ neg # FALSE => /\ Sgn(neg, vy) + o = Sgn(neg, vy - o)
                        /\ Sgn(neg, vy) - o = Sgn(neg, vy + o)
  <2>1. FALSE \in BOOLEAN
    OBVIOUS
  <2>2. /\ neg = FALSE => /\ Sgn(neg, vy) + Sgn(FALSE, o) = Sgn(neg, vy + o)
                          /\ Sgn(neg, vy) - Sgn(FALSE, o) = Sgn(neg, vy - o)
        /\ neg # FALSE => /\ Sgn(neg, vy) + Sgn(FALSE, o) = Sgn(neg, vy - o)
                          /\ Sgn(neg, vy) - Sgn(FALSE, o) = Sgn(neg, vy + o)
    BY <1>1, <2>1, SignedSums
  <2> QED BY <1>2, <2>2, Zenon
<1>8. CASE neg = TRUE
  BY <1>3, <1>4, <1>5, <1>6, <1>7, <1>8, Zenon
<1>9. CASE neg = FALSE
  BY <1>3, <1>4, <1>5, <1>6, <1>7, <1>9, Zenon
<1> QED BY <1>1, <1>8, <1>9

\* Limbs with a sign
LEMMA SignedLimbs ==
  ASSUME NEW o \in Limb \cup SignedLimb
  PROVE  o \in Int /\ (o < 0 => -o \in Limb) /\ (~(o < 0) => o \in Limb)
<1> DEFINE h == Base \div 2
<1>1. h \in Int /\ Base % 2 \in 0..1 /\ Base = 2 * h + (Base % 2)
  BY Sizes, Division
<1>2. o \in Limb \/ o \in -h .. h - 1
  BY DEF SignedLimb
<1> HIDE DEF h
<1> QED BY <1>1, <1>2, Sizes DEF Limb

\* The same of a limb with a sign
LEMMA SignedLimbRefines ==
  ASSUME IInv, pc = "idle", NEW z \in Obj, NEW y \in Readable, NEW o \in SignedLimb,
         exact' = Value(num[y]) + o, eval_add_signed_limb(z, y, o)
  PROVE  Refines(z)
<1>1. o \in Int /\ (o < 0 => -o \in Limb) /\ (~(o < 0) => o \in Limb)
  BY SignedLimbs
<1>2. Value(num[y]) \in Int
  BY Operand
<1>3. CASE o < 0
  <2> DEFINE u == -o
             vl == Value(num[y])
  <2>1. eval_subtract_limb(z, y, u) /\ u \in Limb
    BY <1>1, <1>3 DEF eval_add_signed_limb
  <2>2. vl + o = vl - u
    <3>1. vl \in Int
      BY <1>2
    <3> HIDE DEF vl
    <3> QED BY <1>1, <3>1
  <2>3. exact' = vl - u
    BY <2>2
  <2> HIDE DEF u
  <2> QED BY <2>1, <2>3, EvalLimbRefines
<1>4. CASE o > 0
  <2>1. eval_add_limb(z, y, o) /\ o \in Limb
    BY <1>1, <1>4 DEF eval_add_signed_limb
  <2> QED BY <2>1, EvalLimbRefines
<1>5. CASE ~(o < 0) /\ ~(o > 0)
  <2>1. Return(z, num[y])
    BY <1>5 DEF eval_add_signed_limb
  <2>2. num[y] \in Number /\ Normal(num[y])
    BY ReadableNumber
  <2>3. exact' = Value(num[y])
    <3>1. o = 0
      BY <1>1, <1>5
    <3> DEFINE vl == Value(num[y])
    <3>2. exact' = vl + 0
      BY <3>1
    <3> HIDE DEF vl
    <3>3. exact' = vl
      BY <1>2, <3>2 DEF vl
    <3> QED BY <3>3 DEF vl
  <2>4. Delivers(z)
    BY <2>1, <2>2, <2>3, ReturnDelivers
  <2> QED BY <2>4 DEF Refines
<1> QED BY <1>3, <1>4, <1>5

\* Assignment of a limb, with or without a sign
LEMMA AssignRefines ==
  ASSUME IInv, pc = "idle", NEW z \in Obj, NEW o \in Limb \cup SignedLimb,
         exact' = o, assign(z, o)
  PROVE  Refines(z)
<1> DEFINE u == IF o < 0 THEN -o ELSE o
           t == <<u>>
           neg == o < 0
<1>1. o \in Int /\ u \in Limb /\ u \in Int
  <2>1. o \in Int /\ (o < 0 => -o \in Limb) /\ (~(o < 0) => o \in Limb)
    BY SignedLimbs
  <2> QED BY <2>1
<1>2. neg \in BOOLEAN
  OBVIOUS
<1>3. Deliver(z, t, neg)
  BY DEF assign
<1>4. exact' = Sgn(neg, u)
  <2>1. CASE o < 0
    <3>1. u = -o /\ neg = TRUE /\ -(-o) = o
      BY <1>1, <2>1
    <3> QED BY <3>1 DEF Sgn
  <2>2. CASE ~(o < 0)
    <3>1. u = o /\ neg = FALSE
      BY <2>2
    <3> QED BY <3>1 DEF Sgn
  <2> QED BY <2>1, <2>2
<1>5. t \in Limbs /\ V(Pad(t)) = u
  BY <1>1, FewLimbs, FewValues
<1> HIDE DEF t, neg, u
<1>6. BitsLeft * 0 = 0 /\ u + 0 = u /\ 0 \in Nat
  <2>1. BitsLeft \in Int
    BY Moduli
  <2> QED BY <1>1, <2>1
<1>7. exact' = Sgn(neg, V(Pad(t)) + BitsLeft * 0)
  BY <1>4, <1>5, <1>6
<1>8. Delivers(z)
  BY <1>2, <1>3, <1>5, <1>6, <1>7, DeliverDelivers
<1> QED BY <1>8 DEF Refines

\* A number with a new lowest limb
LEMMA LowDelivers ==
  ASSUME IInv, pc = "idle", NEW z \in Readable, NEW u \in Limb,
         num[z].sign => u # 0,
         Return(z, WithLow(z, u)),
         exact' = Sgn(num[z].sign, V(Pad(num[z].limbs)) + (u - num[z].limbs[1]))
  PROVE  Refines(z)
<1> DEFINE s == num[z].limbs
           t == [s EXCEPT ![1] = u]
           n == WithLow(z, u)
<1>1. z \in Obj /\ num[z] \in Number /\ s \in Limbs /\ NormalLimbs(s)
  BY ReadableNumber
<1>2. n \in Number /\ Normal(n)
  BY LowKeeps
<1>3. t \in Limbs /\ V(Pad(t)) = V(Pad(s)) + (u - s[1])
  BY <1>1, NewLow, NewLowValue
<1>4. n = [num[z] EXCEPT !.limbs = t]
  BY DEF WithLow
<1> HIDE DEF t, n
<1>5. n.limbs = t /\ n.sign = num[z].sign
  BY <1>1, <1>3, <1>4, NewLimbs
<1>6. exact' = Value(n)
  BY <1>2, <1>3, <1>5, ValueOf
<1>7. Return(z, n)
  BY DEF n
<1>8. Delivers(z)
  BY <1>1, <1>2, <1>6, <1>7, ReturnDelivers
<1> QED BY <1>8 DEF Refines

\* eval_increment of an unsigned number, and eval_decrement of any
LEMMA CountRefines ==
  ASSUME IInv, pc = "idle", NEW z \in Readable,
         \/ ~Signed /\ exact' = Value(num[z]) + 1 /\ eval_increment(z)
         \/ exact' = Value(num[z]) - 1 /\ eval_decrement(z)
  PROVE  Refines(z)
<1> DEFINE low == num[z].limbs[1]
           neg == num[z].sign
           vz == V(Pad(num[z].limbs))
<1>1. z \in Obj /\ neg \in BOOLEAN /\ vz \in Int /\ (neg => Signed)
      /\ Value(num[z]) = Sgn(neg, vz)
  BY Operand, ReadableNumber
<1>2. low \in Limb /\ low \in Int /\ low >= 0 /\ low < Base /\ Base \in Int /\ 1 \in Limb
  <2>1. 1 \in 1..size(z) /\ \A k \in 1..size(z) : num[z].limbs[k] \in Limb
    BY ReadableNumber
  <2> QED BY <2>1, Sizes DEF Limb
<1>3. CASE ~Signed /\ exact' = Value(num[z]) + 1 /\ eval_increment(z)
  <2>1. neg = FALSE
    BY <1>1, <1>3
  <2>2. CASE low < Base - 1
    <3> DEFINE u == low + 1
    <3>1. Return(z, WithLow(z, u))
      BY <1>3, <2>1, <2>2 DEF eval_increment
    <3>2. u \in Limb /\ vz + (u - low) = vz + 1
      <4> HIDE DEF vz, low
      <4> QED BY <1>1, <1>2, <2>2 DEF Limb, vz, low
    <3>3. exact' = Sgn(neg, vz + (u - low))
      BY <1>1, <1>3, <2>1, <3>2 DEF Sgn
    <3>4. num[z].sign => u # 0
      BY <2>1
    <3> HIDE DEF u
    <3> QED BY <3>1, <3>2, <3>3, <3>4, LowDelivers
  <2>3. CASE ~(low < Base - 1)
    <3>1. eval_add_limb(z, z, 1)
      BY <1>3, <2>1, <2>3 DEF eval_increment
    <3> QED BY <1>1, <1>2, <1>3, <3>1, EvalLimbRefines
  <2> QED BY <2>2, <2>3
<1>4. CASE exact' = Value(num[z]) - 1 /\ eval_decrement(z)
  <2>1. CASE neg = FALSE /\ low # 0
    <3> DEFINE u == low - 1
    <3>1. Return(z, WithLow(z, u))
      BY <1>4, <2>1 DEF eval_decrement
    <3>2. u \in Limb /\ vz + (u - low) = vz - 1
      <4> HIDE DEF vz, low
      <4> QED BY <1>1, <1>2, <2>1 DEF Limb, vz, low
    <3>3. exact' = Sgn(neg, vz + (u - low))
      BY <1>1, <1>4, <2>1, <3>2 DEF Sgn
    <3>4. num[z].sign => u # 0
      BY <2>1
    <3> HIDE DEF u
    <3> QED BY <3>1, <3>2, <3>3, <3>4, LowDelivers
  <2>2. CASE neg = TRUE /\ low < Base - 1
    <3> DEFINE u == low + 1
    <3>1. Return(z, WithLow(z, u))
      BY <1>4, <2>2 DEF eval_decrement
    <3>2. u \in Limb /\ u # 0 /\ vz + (u - low) = vz + 1 /\ -(vz + 1) = (-vz) - 1
      <4> HIDE DEF vz, low
      <4> QED BY <1>1, <1>2, <2>2 DEF Limb, vz, low
    <3>3. exact' = Sgn(neg, vz + (u - low))
      BY <1>1, <1>4, <2>2, <3>2 DEF Sgn
    <3> HIDE DEF u
    <3> QED BY <3>1, <3>2, <3>3, LowDelivers
  <2>3. CASE ~(neg = FALSE /\ low # 0) /\ ~(neg = TRUE /\ low < Base - 1)
    <3>1. eval_subtract_limb(z, z, 1)
      BY <1>1, <1>4, <2>3 DEF eval_decrement
    <3> QED BY <1>1, <1>2, <1>4, <3>1, EvalLimbRefines
  <2> QED BY <2>1, <2>2, <2>3
<1> QED BY <1>3, <1>4

----------------------------------------------------------------------------
(* The refinement. *)

\* The integers that the specification of the calls speaks of
val == [y \in Obj |-> IF y \in failed THEN Unspecified ELSE Value(before[y])]

\* The increment of a signed number is left out: it does not add one.
Promised ==
  /\ \A t \in Types : t.signed => "increment" \notin t.calls
  /\ Unspecified \notin Int

\* Operands have a value, limbs and sums of them are what a call may have to compute.
LEMMA CallSums ==
  ASSUME IInv, pc = "idle", Unspecified \notin Int
  PROVE  /\ \A o \in Limb \cup SignedLimb : o \in Arithmetic!Sums
         /\ \A y \in Readable, o \in Limb \cup SignedLimb :
              Value(num[y]) + o \in Arithmetic!Sums
         /\ \A y \in Readable, o \in Limb : Value(num[y]) - o \in Arithmetic!Sums
         /\ \A y, w \in Readable : /\ Value(num[y]) + Value(num[w]) \in Arithmetic!Sums
                                   /\ Value(num[y]) - Value(num[w]) \in Arithmetic!Sums
<1> DEFINE S == Arithmetic!Small
           K == Arithmetic!Known
<1>1. Arithmetic!Sums = S \cup {val[y] + o : y \in K, o \in S}
                          \cup {val[y] + val[w] : y, w \in K}
                          \cup {val[y] - val[w] : y, w \in K}
  BY DEF Arithmetic!Sums, val
<1>2. S = -(Base - 1) .. Base - 1
  BY DEF Arithmetic!Small
<1>3. K = {y \in Obj : val[y] # Unspecified}
  BY DEF Arithmetic!Known, val
<1> HIDE DEF S, K
<1>4. \A o \in Limb \cup SignedLimb : o \in S
  <2>1. TAKE o \in Limb \cup SignedLimb
  <2>2. o \in Int /\ (o < 0 => -o \in Limb) /\ (~(o < 0) => o \in Limb)
    BY SignedLimbs
  <2> QED BY <1>2, <2>2, Sizes DEF Limb
<1>5. \A o \in Limb : -o \in S /\ o \in Int
  BY <1>2, Sizes DEF Limb
<1>6. \A y \in Readable : y \in K /\ val[y] = Value(num[y]) /\ val[y] \in Int
  <2>1. TAKE y \in Readable
  <2>2. y \in Obj /\ y \notin failed /\ before = num /\ Value(num[y]) \in Int
    BY ReadableNumber, Operand DEF IInv
  <2>3. val[y] = Value(num[y])
    BY <2>2 DEF val
  <2> QED BY <1>3, <2>2, <2>3
<1>7. \A o \in Limb \cup SignedLimb : o \in Arithmetic!Sums
  BY <1>1, <1>4
<1>8. ASSUME NEW y \in Readable, NEW o \in Limb \cup SignedLimb
      PROVE  Value(num[y]) + o \in Arithmetic!Sums
  BY <1>1, <1>4, <1>6
<1>9. ASSUME NEW y \in Readable, NEW o \in Limb
      PROVE  Value(num[y]) - o \in Arithmetic!Sums
  <2> DEFINE u == -o
  <2>1. val[y] + u \in Arithmetic!Sums
    <3>1. u \in S
      BY <1>5
    <3> HIDE DEF u
    <3> QED BY <1>1, <1>6, <3>1
  <2>2. val[y] - o = val[y] + u
    <3> DEFINE v == val[y]
    <3>1. v \in Int
      BY <1>6
    <3> HIDE DEF v
    <3>2. v - o = v + u
      BY <1>5, <3>1
    <3> QED BY <3>2 DEF v
  <2> QED BY <1>6, <2>1, <2>2
<1>10. ASSUME NEW y \in Readable, NEW w \in Readable
       PROVE  /\ Value(num[y]) + Value(num[w]) \in Arithmetic!Sums
              /\ Value(num[y]) - Value(num[w]) \in Arithmetic!Sums
  BY <1>1, <1>6
<1> QED BY <1>7, <1>8, <1>9, <1>10

\* A call begins, and may end at once.
LEMMA CallRefines ==
  ASSUME IInv, Call, Promised
  PROVE  exact' \in Arithmetic!Sums /\ \E z \in Obj : Refines(z)
<1>1. pc = "idle" /\ Unspecified \notin Int
  BY DEF Call, Promised
<1>2. 1 \in Limb
  BY Sizes DEF Limb
<1>3. CASE \E z \in Obj, o \in Limb \cup SignedLimb : Run("assign", o) /\ assign(z, o)
  <2>1. PICK z \in Obj, o \in Limb \cup SignedLimb : Run("assign", o) /\ assign(z, o)
    BY <1>3
  <2>2. exact' = o
    BY <2>1 DEF Run
  <2>3. Refines(z)
    BY <1>1, <2>1, <2>2, AssignRefines
  <2>4. exact' \in Arithmetic!Sums
    BY <1>1, <2>2, CallSums
  <2> QED BY <2>3, <2>4
<1>4. ASSUME NEW z \in Obj, NEW y \in Readable, NEW w \in Readable,
             \/ Run("add", Value(num[y]) + Value(num[w])) /\ eval_add(z, y, w)
             \/ Run("subtract", Value(num[y]) - Value(num[w])) /\ eval_subtract(z, y, w)
      PROVE  exact' \in Arithmetic!Sums /\ Refines(z)
  <2>1. \/ exact' = Value(num[y]) + Value(num[w]) /\ eval_add(z, y, w)
        \/ exact' = Value(num[y]) - Value(num[w]) /\ eval_subtract(z, y, w)
    BY <1>4 DEF Run
  <2>2. Refines(z)
    BY <1>1, <2>1, EvalRefines
  <2>3. exact' \in Arithmetic!Sums
    BY <1>1, <2>1, CallSums
  <2> QED BY <2>2, <2>3
<1>5. ASSUME NEW z \in Obj, NEW y \in Readable, NEW o \in Limb,
             \/ Run("add_limb", Value(num[y]) + o) /\ eval_add_limb(z, y, o)
             \/ Run("subtract_limb", Value(num[y]) - o) /\ eval_subtract_limb(z, y, o)
      PROVE  exact' \in Arithmetic!Sums /\ Refines(z)
  <2>1. \/ exact' = Value(num[y]) + o /\ eval_add_limb(z, y, o)
        \/ exact' = Value(num[y]) - o /\ eval_subtract_limb(z, y, o)
    BY <1>5 DEF Run
  <2>2. Refines(z)
    BY <1>1, <2>1, EvalLimbRefines
  <2>3. exact' \in Arithmetic!Sums
    BY <1>1, <2>1, CallSums
  <2> QED BY <2>2, <2>3
<1>6. ASSUME NEW z \in Obj, NEW y \in Readable, NEW o \in SignedLimb,
             Run("add_signed_limb", Value(num[y]) + o), eval_add_signed_limb(z, y, o)
      PROVE  exact' \in Arithmetic!Sums /\ Refines(z)
  <2>1. exact' = Value(num[y]) + o
    BY <1>6 DEF Run
  <2>2. Refines(z)
    BY <1>1, <1>6, <2>1, SignedLimbRefines
  <2>3. exact' \in Arithmetic!Sums
    BY <1>1, <2>1, CallSums
  <2> QED BY <2>2, <2>3
<1>7. ASSUME NEW z \in Readable,
             \/ Run("increment", Value(num[z]) + 1) /\ eval_increment(z)
             \/ Run("decrement", Value(num[z]) - 1) /\ eval_decrement(z)
      PROVE  exact' \in Arithmetic!Sums /\ Refines(z)
  <2>1. Run("increment", Value(num[z]) + 1) => ~Signed
    BY DEF Run, Calls, Signed, IInv, Typed, Promised
  <2>2. \/ ~Signed /\ exact' = Value(num[z]) + 1 /\ eval_increment(z)
        \/ exact' = Value(num[z]) - 1 /\ eval_decrement(z)
    BY <1>7, <2>1 DEF Run
  <2>3. Refines(z)
    BY <1>1, <2>2, CountRefines
  <2>4. exact' \in Arithmetic!Sums
    BY <1>1, <1>2, <2>2, CallSums
  <2> QED BY <2>3, <2>4
<1>8. Readable \subseteq Obj
  BY DEF Readable
<1> QED BY <1>3, <1>4, <1>5, <1>6, <1>7, <1>8 DEF Call

\* No call changes the type.
LEMMA SameType ==
  ASSUME Next
  PROVE  type' = type
<1>1. /\ \A z, n : Return(z, n) => type' = type
      /\ \A z, s : Throw(z, s) => type' = type
  BY DEF Return, Throw, Finish
<1>2. \A z, s, neg : Deliver(z, s, neg) => type' = type
  BY <1>1 DEF Deliver
<1>3. \A l, z, y, t, k, c : Enter(l, z, y, t, k, c) => type' = type
  BY DEF Enter
<1>4. \A z, y, w : add_unsigned(z, y, w) \/ subtract_unsigned(z, y, w) => type' = type
  BY <1>1, <1>2, <1>3 DEF add_unsigned, subtract_unsigned
<1>5. \A z, y, o : add_unsigned_limb(z, y, o) \/ subtract_unsigned_limb(z, y, o)
                     => type' = type
  BY <1>1, <1>2, <1>3, ZenonT(60) DEF add_unsigned_limb, subtract_unsigned_limb
<1>6. \A z, y, w : eval_add(z, y, w) \/ eval_subtract(z, y, w) => type' = type
  BY <1>4 DEF eval_add, eval_subtract
<1>7. \A z, y, o : eval_add_limb(z, y, o) \/ eval_subtract_limb(z, y, o) => type' = type
  BY <1>5 DEF eval_add_limb, eval_subtract_limb
<1>8. \A z, y, o : eval_add_signed_limb(z, y, o) => type' = type
  BY <1>1, <1>7 DEF eval_add_signed_limb
<1>9. \A z : eval_increment(z) \/ eval_decrement(z) => type' = type
  BY <1>1, <1>7 DEF eval_increment, eval_decrement
<1>10. \A z, o : assign(z, o) => type' = type
  BY <1>2 DEF assign
<1>11. CASE Call
  BY <1>6, <1>7, <1>8, <1>9, <1>10, <1>11 DEF Call
<1>12. \A l, k, c : Store(l, k, c) => type' = type
  BY DEF Store
<1>13. \A s : CarryOut(s) => type' = type
  BY <1>1, <1>2 DEF CarryOut
<1>14. CASE Step
  BY <1>2, <1>12, <1>13, <1>14
     DEF Step, AddOverlap, AddTail, AddEnd, AddLimbStep, AddLimbEnd, SubtractOverlap,
         SubtractTail, SubtractEnd, SubtractLimbStep, SubtractLimbEnd
<1> QED BY <1>11, <1>14 DEF Next

\* At the start every number is zero.
LEMMA InitRefines ==
  ASSUME Init
  PROVE  RInv /\ Arithmetic!Init
<1>1. RInv
  <2>1. "idle" \notin Loops
    BY DEF Loops
  <2> QED BY <2>1, InitHolds DEF RInv, Init
<1>2. \A y \in Obj : y \notin failed /\ before[y] = Zero
  BY DEF Init
<1>3. Arithmetic!Init
  BY <1>2, ZeroIs DEF Arithmetic!Init, Init
<1> QED BY <1>1, <1>3

\* Every step of a call delivers its result, or changes nothing that is promised.
LEMMA NextRefines ==
  ASSUME Promised, RInv, [Next]_vars
  PROVE  RInv' /\ [Arithmetic!Next]_<<PublicType, val, r, exact>>
<1> DEFINE Same == before' = before /\ failed' = failed
           Goal == [Arithmetic!Next]_<<PublicType, val, r, exact>>
<1>1. IInv
  BY DEF RInv
<1>2. "idle" \notin Loops
  BY DEF Loops
<1>3. Same => val' = val
  BY DEF val
<1>4. type' = type => PublicType' = PublicType
  BY DEF PublicType, Signed, Checked
<1>5. Arithmetic!Next <=> /\ PublicType' = PublicType
                          /\ Arithmetic!Call \/ (r' = r /\ exact' = exact)
                          /\ Arithmetic!Deliver \/ val' = val
  BY DEF Arithmetic!Next, val
<1>6. CASE Call
  <2>1. IInv' /\ type' = type
    BY <1>1, <1>6, CallKeeps, SameType DEF Next
  <2>2. exact' \in Arithmetic!Sums
    BY <1>1, <1>6, CallRefines
  <2>3. PICK z \in Obj : Refines(z)
    BY <1>1, <1>6, CallRefines
  <2>4. r' = z
    BY <2>3 DEF Refines, Delivers, Begins
  <2>5. Arithmetic!Call
    BY <2>2, <2>4 DEF Arithmetic!Call
  <2>6. Arithmetic!Deliver \/ val' = val
    BY <1>3, <2>3 DEF Refines, Delivers, Begins
  <2>7. RInv'
    BY <1>2, <2>1, <2>3 DEF RInv, Refines, Delivers, Begins
  <2>8. Arithmetic!Next
    BY <1>4, <1>5, <2>1, <2>5, <2>6
  <2> QED BY <2>7, <2>8
<1>7. CASE Step
  <2>1. IInv' /\ type' = type
    BY <1>1, <1>7, StepKeeps, SameType DEF Next
  <2>2. exact' = exact
    BY <1>7 DEF Step
  <2>3. \/ Delivers(r)
        \/ Progress' /\ before' = before /\ failed' = failed /\ r' = r
    BY <1>7, StepRefines
  <2>4. r' = r /\ (Arithmetic!Deliver \/ val' = val)
    BY <1>3, <2>3 DEF Delivers
  <2>5. RInv'
    BY <1>2, <2>1, <2>3 DEF RInv, Delivers
  <2>6. Arithmetic!Next
    BY <1>4, <1>5, <2>1, <2>2, <2>4
  <2> QED BY <2>5, <2>6
<1>8. CASE UNCHANGED vars
  <2>1. PublicType' = PublicType /\ val' = val /\ r' = r /\ exact' = exact
    BY <1>3, <1>4, <1>8 DEF vars
  <2>2. IInv'
    BY <1>1, <1>8 DEF IInv, Typed, Running, Normal, Signed, size, at, vars
  <2>3. (pc \in Loops => Progress)'
    <3>1. First' = First /\ Second' = Second
      BY <1>8 DEF First, Second, vars
    <3> QED BY <1>8, <3>1 DEF RInv, Progress, Summed, Subtracted, LargerAt, at, vars
  <2> QED BY <2>1, <2>2, <2>3 DEF RInv
<1> QED BY <1>6, <1>7, <1>8 DEF Next

\* Refinement: multi-limb addition and subtraction implement the integers, for every
\* base, every number of limbs, every precision that may end inside a limb, signed or
\* not, checked or not, and whichever of a call's arguments are the same number: the
\* target receives the exact result, cut off or refused as the type is declared to, and
\* no other number changes.  The increment of signed numbers is left out: it is wrong.
THEOREM AdditionImplementsIntegers ==
  ASSUME Promised
  PROVE  Spec => ImplementsArithmetic
<1>1. Init => RInv /\ Arithmetic!Init
  BY InitRefines
<1>2. RInv /\ [Next]_vars => RInv' /\ [Arithmetic!Next]_<<PublicType, val, r, exact>>
  BY NextRefines
<1>3. [Arithmetic!Next]_<<PublicType, val, r, exact>>
        <=> [Arithmetic!Next]_<<PublicType, [y \in Obj |-> IF y \in failed THEN Unspecified
                                                      ELSE Value(before[y])], r, exact>>
  BY DEF val
<1> QED BY <1>1, <1>2, <1>3, PTL DEF Spec, ImplementsArithmetic, Arithmetic!Spec
=============================================================================
