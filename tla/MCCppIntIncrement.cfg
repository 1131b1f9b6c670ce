\* The increment of a signed type.
SPECIFICATION Spec
CONSTANTS
  Obj = {p}
  Base = 2
  MaxLimbs = 3
  TopLimb = 2
  Types <- Counting
  Unspecified = Unspecified
PROPERTY IncrementAddsOne
