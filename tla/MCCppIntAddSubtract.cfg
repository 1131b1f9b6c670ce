\* Numbers of up to three one-bit limbs.
SPECIFICATION Spec
CONSTANTS
  Obj = {p, q, s}
  Base = 2
  MaxLimbs = 3
  TopLimb = 2
  Types <- AllTypes
  Unspecified = Unspecified
SYMMETRY Symmetric
INVARIANTS
  NormalForm
  LoopsStayInBounds
  UnreadLimbsKept
PROPERTY ImplementsArithmetic
