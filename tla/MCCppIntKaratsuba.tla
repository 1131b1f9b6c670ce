-------------------------- MODULE MCCppIntKaratsuba -------------------------
(* Small instances of CppIntKaratsuba, with limbs of one bit. *)
EXTENDS CppIntKaratsuba

\* Variable precision, a fixed precision with room for any product, and ones that a
\* product may or may not fit, checked or not
PartsTypes ==
  {[limbs |-> 0, checked |-> FALSE], [limbs |-> 30, checked |-> FALSE],
   [limbs |-> 29, checked |-> TRUE], [limbs |-> 17, checked |-> FALSE]}

\* Of n bits: all ones, a power of two, ones with a gap of zeros, and zeros between
OfBits(n) ==
  {2^n - 1, 2^(n - 1), 2^n - 2^(n - 3) + 1, 2^(n - 1) + 2^(n \div 2) - 1, 2^n - 2^(n \div 2 + 2)}
Lengths == {<<9, 9>>, <<9, 20>>, <<12, 9>>, <<15, 15>>, <<16, 14>>, <<18, 12>>, <<11, 19>>}
PartsFactors == UNION {OfBits(l[1]) \X OfBits(l[2]) : l \in Lengths}
=============================================================================
