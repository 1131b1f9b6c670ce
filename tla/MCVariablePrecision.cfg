\* Three numbers of up to three digits; temporaries for temporaries, five deep, is
\* more than any of the expressions makes.
SPECIFICATION Spec
CONSTANTS
  x = x
  y = y
  z = z
  Number = {x, y, z}
  Precisions = {1, 2, 3}
  Assignments <- SmallAssignments
  Expression <- SmallExpressions
  StringDigits = 1
  MaxDepth = 5
INVARIANTS
  DefaultRestored
  LargestPrecision
  KeepsDigits
  TailNotChased
