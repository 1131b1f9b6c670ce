--------------------------- MODULE MCCppIntDivide ---------------------------
(* Small instances of CppIntDivide. *)
EXTENDS CppIntDivide

\* A type of three limbs, one of four limbs with half of the top limb unused, and
\* one that is as wide as its numbers need
DivisionTypes ==
  {[limbs |-> 3, top |-> Base, checked |-> TRUE],
   [limbs |-> 4, top |-> Base \div 2, checked |-> FALSE],
   [limbs |-> 9, top |-> Base, checked |-> FALSE]}

\* Every dividend of four limbs, every divisor of three
UpToFourLimbs == 0 .. Base^4 - 1
UpToThreeLimbs == 0 .. Base^3 - 1
SomeOperands == {-87, -21, -16, -5, -1, 0, 3, 4, 7, 16, 22, 63, 64, 90}

ASSUME DivisionAssumption == TypesAssumption /\ ValuesAssumption

\* Every call comes to an end, so that again and again none is running: nothing
\* counts the guesses.
CallsReturn == []<>(pc \in {"idle", "returned", "threw", "trapped"})
=============================================================================
