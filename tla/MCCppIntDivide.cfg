\* Limbs of two bits.
SPECIFICATION Spec
CONSTANTS
  Base = 4
  Types <- DivisionTypes
  Dividends <- UpToFourLimbs
  Divisors <- UpToThreeLimbs
  Operands <- SomeOperands
INVARIANTS
  DivisionIdentity
  QuotientInPlace
  DividesExactly
PROPERTIES
  EveryGuessHelps
  CallsReturn
