\* Limbs of two bits; of four for bitwise operations and the root, of four to six for
\* numbers of one limb.
SPECIFICATION KernelsSpec
CONSTANTS
  Base = 4
  Types <- ProductTypes
  Values <- ProductValues
  Limbs <- AllLimbs
  Quarter = 2
  RootTypes <- AllRootTypes
  Radicands <- AllRadicands
  Obj = {p, q}
  Single = Single
  Unspecified = Unspecified
SYMMETRY Symmetric
INVARIANTS
  PartialProducts
  MultipliesExactly
  BitwiseOfTwosComplement
  ShiftsExactly
  RootExact
  WordsSuffice
  NormalForm
  ComputesExactly
  ConvertsExactly
PROPERTY MaskedImplementsArithmetic
