---------------------------- MODULE MCCppBinFloat ---------------------------
(* Numbers of three bits with the exponents of a type of five bits. *)
EXTENDS CppBinFloat

Symmetric == Permutations(Numbers)

\* Integers with up to a bit more than a number
SmallWords == {0, 1, 2, 3, 5, 6, 7, 11, 15}

\* Powers up to beyond the type of the exponents
SomePowers == {-17, -16, -8, -1, 1, 7, 15, 16}

Lowest == -10
FloatLowest == -3
=============================================================================
