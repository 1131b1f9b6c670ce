---------------------------- MODULE IntegerTypes ----------------------------
(***************************************************************************)
(* The types of fixed precision integers as a user sees them: a record t   *)
(* of signed, checked and modulus, two to the power of the precision.  A   *)
(* signed type keeps a magnitude below the modulus, an unsigned one a      *)
(* number below it.                                                        *)
(***************************************************************************)
EXTENDS Integers

InRange(t, n) == (IF t.signed THEN -t.modulus < n ELSE 0 <= n) /\ n < t.modulus

\* What an unchecked type leaves of the integer n
Wrapped(t, n) ==
  IF t.signed /\ n < 0 THEN -((-n) % t.modulus) ELSE n % t.modulus
=============================================================================
