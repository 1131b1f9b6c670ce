--------------------------- MODULE MCCppIntStorage --------------------------
(* A small instance of CppIntStorage: one magnitude for every size at which  *)
(* the storage behaves differently, with the 64-bit build's internal buffer  *)
(* of two limbs and a bound of nine limbs.                                   *)
EXTENDS CppIntStorage, TLC

CONSTANTS
  m1,    \* zero: one limb, kept in the object
  m3,    \* three limbs: a block of eight
  m10    \* ten limbs: the largest block, and one limb is lost

MCValue == {m1, m3, m10}
MCLen   == m1 :> 1 @@ m3 :> 3 @@ m10 :> 10
MCWrap  == m1 :> m1 @@ m3 :> m3 @@ m10 :> m1

Symmetric == Permutations(Obj) \cup Permutations(Block)
=============================================================================
