----------------------------- MODULE IntegerRoots ---------------------------
(***************************************************************************)
(* The arithmetic of one level of the square root of integers:             *)
(* eval_sqrt_karatsuba and its base cases in detail/default_ops.hpp.       *)
(* The root of n is found from that of its leading part, n \div b^2, of    *)
(* which root s and remainder r are known.                                 *)
(***************************************************************************)
EXTENDS Integers

IsRoot(s, r, n) == s \in Nat /\ r \in 0 .. 2 * s /\ n = s * s + r

\* The root by definition, two bits of n at a time
FloorRoot(n) ==
  LET floor[m \in Nat] ==
        IF m = 0 THEN 0
        ELSE LET s == 2 * floor[m \div 4] IN IF (s + 1) * (s + 1) <= m THEN s + 1 ELSE s
  IN floor[n]

\* What the next digits contribute: div2 and rem2, q and u in the base cases
NextDigits(s, r, b, a1) == (r * b + a1) \div (2 * s)
NextRest(s, r, b, a1) == (r * b + a1) % (2 * s)

\* The root of n, s * b + q, unless it is too large: then the difference is negative.
Difference(u, b, a0, q) == u * b + a0 - q * q

Corrected(s, d) ==
  IF d < 0 THEN [s |-> s - 1, r |-> d + 2 * s - 1] ELSE [s |-> s, r |-> d]

\* The root and the remainder of the number whose leading part has root s and
\* remainder r, and whose lower digits are a1 and a0
LowerHalf(s, r, b, a1, a0) ==
  Corrected(s * b + NextDigits(s, r, b, a1),
            Difference(NextRest(s, r, b, a1), b, a0, NextDigits(s, r, b, a1)))
=============================================================================
