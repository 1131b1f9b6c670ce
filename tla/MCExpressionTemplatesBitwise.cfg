CONSTANTS
  n1 = n1
  n2 = n2
  Number = {n1, n2}
  Undefined = Undefined
  MaxTemps = 5
  WordBits = 8
  Prime = 31
  ShiftBy = 1
  Kinds <- BitwiseKinds
SPECIFICATION Spec
INVARIANT TemporaryWhereNeeded
