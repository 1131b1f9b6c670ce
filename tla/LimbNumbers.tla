----------------------------- MODULE LimbNumbers ----------------------------
(***************************************************************************)
(* Magnitudes as natural numbers that are read and written limb by limb.   *)
(* Limb 0 is the least significant one, as in the code.                    *)
(***************************************************************************)
EXTENDS Integers

CONSTANT Base   \* 2^limb_bits

ASSUME BaseAssumption == Base \in Nat /\ Base >= 2

\* Base^n, as a recursive function, of which proofs can know something
Power(n) ==
  LET power[k \in Nat] == IF k = 0 THEN 1 ELSE Base * power[k - 1]
  IN power[n]

Limb(n, k) == (n \div Power(k)) % Base

WithLimb(n, k, l) == n + (l - Limb(n, k)) * Power(k)

\* Two limbs as a double_limb_type: limb k and the one below it
DoubleLimb(n, k) == Limb(n, k) * Base + Limb(n, k - 1)

\* The number of limbs without leading zeros; zero has one limb.
Size(n) ==
  LET size[m \in Nat] == IF m < Base THEN 1 ELSE 1 + size[m \div Base]
  IN size[n]

Abs(n) == IF n < 0 THEN -n ELSE n
Smaller(k, n) == IF k < n THEN k ELSE n
Larger(k, n)  == IF k < n THEN n ELSE k

\* sign(neg) after the magnitude n has been computed
Signed(n, neg) == IF neg THEN -n ELSE n
=============================================================================
