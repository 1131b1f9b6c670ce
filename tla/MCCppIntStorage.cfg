\* A cpp_int bounded to nine limbs: results that do not fit wrap, or throw.
SPECIFICATION Spec
CONSTANTS
  Obj = {x, y, z}
  Block = {b1, b2, b3}
  m1 = m1
  m3 = m3
  m10 = m10
  Value <- MCValue
  Zero = m1
  Len <- MCLen
  Wrap <- MCWrap
  Junk = Junk
  Lit = Lit
  LitValue = m3
  InternalLimbs = 2
  MaxLimbs = 9
  NoNumber = NoNumber
  Unspecified = Unspecified
SYMMETRY Symmetric
INVARIANTS
  RepresentationOK
  OwnedBlocksAllocated
  SoleOwner
  NoLeak
  NormalForm
  
PROPERTY ImplementsNumberValues
