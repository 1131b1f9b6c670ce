--------------------------- MODULE CppIntSquareRoot -------------------------
(***************************************************************************)
(* sqrt(x) and sqrt(x, r) of cpp_int: eval_sqrt_karatsuba in               *)
(* detail/default_ops.hpp.  Up to four limbs are done in 64-bit words, with *)
(* an estimate of the processor's floating point; more limbs by the root   *)
(* of their leading half, which the function calls itself for.             *)
(*                                                                         *)
(* A word is two limbs.  The code is written for limbs of 32 bits and      *)
(* asserts that; here they can have fewer bits, and the pieces it cuts     *)
(* limbs into are a half and three quarters of a limb.                     *)
(*                                                                         *)
(* The numbers of a root have limbs of their own (RootLimbs), and what     *)
(* CppIntMultiply has, too, has another name here: programs extend both.   *)
(***************************************************************************)
EXTENDS IntegerRoots, Sequences

CONSTANTS
  Quarter,     \* a quarter of a limb: 2^(limb_bits / 4)
  RootTypes,   \* limbs, signed, checked
  Radicands    \* what x can be

ASSUME QuarterAssumption == Quarter \in Nat /\ Quarter >= 2 /\ Quarter % 2 = 0
ASSUME RootTypesAssumption ==
  RootTypes \subseteq [limbs : Nat \ 0..3, signed : BOOLEAN, checked : BOOLEAN]
ASSUME RadicandsAssumption == Radicands \subseteq Nat

VARIABLES
  root_call,   \* the type and x, of the call from outside
  levels,      \* the running calls of eval_sqrt_karatsuba: x, num_limbs once it is split
  root,        \* what the innermost call has returned, or the base case
  lost,        \* where a value did not fit its word, or the type
  root_pc

root_vars == <<root_call, levels, root, lost, root_pc>>

Half == Quarter * Quarter
ThreeQuarters == Half * Quarter
Word == (Half * Half) * (Half * Half)

RootLimbs == INSTANCE LimbNumbers WITH Base <- Half * Half

root_type == root_call.type
RootModulus == RootLimbs!Power(root_type.limbs)

Unfit(place, n) == IF n \in 0 .. Word - 1 THEN {} ELSE {place}

NoRootCall == [type |-> CHOOSE t \in RootTypes : TRUE, x |-> 0]
NoRoot == [s |-> 0, r |-> 0]

RootInit ==
  root_call = NoRootCall /\ levels = <<>> /\ root = NoRoot /\ lost = {} /\ root_pc = "idle"

----------------------------------------------------------------------------
(* Up to four limbs.                                                       *)

\* The square root of a double, less 2^-20 and truncated: never above the root, and
\* at most one below it
Estimates(x) == {e \in {FloorRoot(x) - 1, FloorRoot(x)} : e >= 0}

\* sqrt_uint64_t, given the estimate
sqrt_uint64_t(x, e) == IF 2 * e < x - e * e THEN e + 1 ELSE e

Native(x, e) ==
  LET s == sqrt_uint64_t(x, e) IN [s |-> s, r |-> x - s * s, lost |-> {}]

\* d = 0: the pieces a0 and a1 are half a limb wide, and the rest is a word.
OfThreeLimbs(x, e) ==
  LET a0 == x % Half
      a1 == (x \div Half) % Half
      val == x \div (Half * Half)
      top == Native(val, e)
      val_prime == top.r * Half + a1
      q == NextDigits(top.s, top.r, Half, a1)
      u == NextRest(top.s, top.r, Half, a1)
      s == top.s * Half + q
      low == LowerHalf(top.s, top.r, Half, a1, a0)
  IN [s |-> low.s, r |-> low.r,
      lost |-> UNION {Unfit("val", val), Unfit("val_prime", val_prime), Unfit("q * q", q * q),
                      Unfit("s", s), Unfit("r_prime", u * Half + a0)}]

OfTwoOrThreeLimbs(x, e) == IF x < Word THEN Native(x, e) ELSE OfThreeLimbs(x, e)

\* A fault: the remainder is shifted as a whole.
OfFourLimbsUnhalved(x, e) ==
  LET p == ThreeQuarters
      a0 == x % p
      a1 == (x \div p) % p
      top == OfTwoOrThreeLimbs(x \div (p * p), e)
      val_prime == top.r * p + a1
      q == val_prime \div (2 * top.s)
      u == val_prime % (2 * top.s)
      s == top.s * p + q
      lhs == ((u * p) % Word) + a0
  IN [s |-> (IF lhs < q * q THEN s - 1 ELSE s) % Word,
      lost |-> UNION {top.lost, Unfit("val_prime", val_prime), Unfit("q * q", q * q),
                      Unfit("s", s), Unfit("u", u * p)}]

\* Three quarters of a limb each, and the rest is three limbs.  The remainder is
\* halved before it is shifted, which leaves it a bit smaller; u is shifted out of
\* its word.
OfFourLimbs(x, e) ==
  LET p == ThreeQuarters
      a0 == x % p
      a1 == (x \div p) % p
      top == OfTwoOrThreeLimbs(x \div (p * p), e)
      val_prime == top.r * (p \div 2) + (a1 \div 2)
      q == val_prime \div top.s
      u == 2 * (val_prime % top.s) + (a1 % 2)
      s == top.s * p + q
      lhs == ((u * p) % Word) + a0
  IN [s |-> (IF lhs < q * q THEN s - 1 ELSE s) % Word,
      lost |-> UNION {top.lost, Unfit("val_prime", val_prime), Unfit("q * q", q * q),
                      Unfit("s", s), Unfit("u", u * p)}]

\* What sqrt_uint64_t is called for
NativePart(x) ==
  CASE RootLimbs!Size(x) <= 2 -> x
    [] RootLimbs!Size(x) = 3 -> x \div (Half * Half)
    [] OTHER -> LET top == x \div (ThreeQuarters * ThreeQuarters) IN
                IF top < Word THEN top ELSE top \div (Half * Half)

eval_sqrt_karatsuba_base_case(x, e) ==
  IF RootLimbs!Size(x) = 4
  THEN LET b == OfFourLimbs(x, e) IN [s |-> b.s, r |-> x - b.s * b.s, lost |-> b.lost]
  ELSE OfTwoOrThreeLimbs(x, e)

----------------------------------------------------------------------------
(* Any number of limbs.                                                    *)

Top == levels[Len(levels)]
Outer == SubSeq(levels, 1, Len(levels) - 1)

sqrt(t, x) ==
  /\ x < RootLimbs!Power(t.limbs)
  /\ root_call' = [type |-> t, x |-> x]
  /\ levels' = <<[x |-> x, num_limbs |-> 0]>>
  /\ root_pc' = "begin"
  /\ UNCHANGED <<root, lost>>

BaseCase ==
  /\ root_pc = "begin" /\ RootLimbs!Size(Top.x) <= 4
  /\ \E e \in Estimates(NativePart(Top.x)) :
       LET b == eval_sqrt_karatsuba_base_case(Top.x, e) IN
       /\ root' = [s |-> b.s, r |-> b.r]
       /\ lost' = lost \cup b.lost
  /\ levels' = Outer
  /\ root_pc' = IF Outer = <<>> THEN "returned" ELSE "combine"
  /\ UNCHANGED root_call

\* a0, a1 and a2 get num_limbs limbs each and a3 what is left, at least one more.
\* The root is taken of a3 and a2.
Split ==
  /\ root_pc = "begin" /\ RootLimbs!Size(Top.x) > 4
  /\ LET n == (RootLimbs!Size(Top.x) - 1) \div 4 IN
     levels' = Append(Outer, [x |-> Top.x, num_limbs |-> n])
               \o <<[x |-> Top.x \div RootLimbs!Power(2 * n), num_limbs |-> 0]>>
  /\ UNCHANGED <<root_call, root, lost, root_pc>>

\* r := rem2 * 2^ell + a0 - div2^2 in the type: an unsigned one wraps around, or
\* throws if it is checked, and is not negative afterwards.
RootInType(d) == IF root_type.signed THEN d ELSE d % RootModulus

\* A fault: a remainder of zero is taken for one that has to be corrected.
CombineOnZero ==
  /\ root_pc = "combine"
  /\ LET b == RootLimbs!Power(Top.num_limbs)
         a0 == Top.x % b
         a1 == (Top.x \div b) % b
         q == NextDigits(root.s, root.r, b, a1)
         d == Difference(NextRest(root.s, root.r, b, a1), b, a0, q)
         s == root.s * b + q
     IN /\ lost' = lost
        /\ root' = IF d <= 0 THEN [s |-> s - 1, r |-> d + 2 * s - 1] ELSE [s |-> s, r |-> d]
        /\ root_pc' = IF Outer = <<>> THEN "returned" ELSE "combine"
  /\ levels' = Outer
  /\ UNCHANGED root_call

Combine ==
  /\ root_pc = "combine"
  /\ LET b == RootLimbs!Power(Top.num_limbs)
         a0 == Top.x % b
         a1 == (Top.x \div b) % b
         q == NextDigits(root.s, root.r, b, a1)
         d == Difference(NextRest(root.s, root.r, b, a1), b, a0, q)
     IN IF d < 0 /\ ~root_type.signed /\ root_type.checked
        THEN root_pc' = "threw" /\ levels' = <<>> /\ UNCHANGED <<root, lost>>
        ELSE /\ lost' = IF RootInType(d) = d THEN lost ELSE lost \cup {"r"}
             /\ root' = Corrected(root.s * b + q, RootInType(d))
             /\ root_pc' = IF Outer = <<>> THEN "returned" ELSE "combine"
             /\ levels' = Outer
  /\ UNCHANGED root_call

\* The caller has its root, and goes on to another number.
RootReturn ==
  /\ root_pc \in {"returned", "threw"}
  /\ root_call' = NoRootCall /\ root' = NoRoot /\ lost' = {} /\ root_pc' = "idle"
  /\ UNCHANGED levels

RootBegin == root_pc = "idle" /\ \E t \in RootTypes, x \in Radicands : sqrt(t, x)
RootStep == BaseCase \/ Split \/ Combine
RootNext == RootBegin \/ RootStep \/ RootReturn

RootSpec == RootInit /\ [][RootNext]_root_vars

----------------------------------------------------------------------------
(* Properties.                                                             *)

\* sqrt(x, r) returns the integer square root and stores the remainder: "Returns the
\* integer square root s of x and sets r to the remainder x - s^2"
\* (doc/tutorial_integer_ops.qbk:98).
ReturnsRoot == root_pc = "returned" => IsRoot(root.s, root.r, root_call.x)

\* It does, whatever the estimates of the processor were and although each level
\* corrects its root by one at most, except where u was shifted out of its word (four
\* limbs) and where an unsigned type could not tell that the remainder was negative;
\* a checked one throws then.  That a root of four limbs is one more than a word
\* holds does no harm: it is one too large, and is corrected.
RootExact ==
  /\ root_pc = "returned" /\ lost \cap {"u", "r"} = {} =>
       IsRoot(root.s, root.r, root_call.x)
  /\ root_pc = "threw" => ~root_type.signed /\ root_type.checked

\* Nothing else is lost: two limbs are wide enough for the other values of the base
\* cases, and "a small trick is needed to avoid overflow" (default_ops.hpp:1645) is
\* enough for val_prime.
WordsSuffice == lost \subseteq {"u", "s", "r"}
=============================================================================
