\* The square root of four limbs, and of unsigned numbers.
INIT KernelsInit
NEXT KernelsNext
CONSTANTS
  Base = 4
  Types <- ProductTypes
  Values <- ProductValues
  Limbs <- AllLimbs
  Quarter = 2
  RootTypes <- AllRootTypes
  Radicands <- AllRadicands
  Obj = {p, q}
  Single = Single
  Unspecified = Unspecified
SYMMETRY Symmetric
INVARIANT
  ReturnsRoot
