\* The exponents go to the limits that the static assertions allow.
SPECIFICATION Spec
CONSTANTS
  Numbers = {x, y}
  temporary = temporary
  bit_count = 3
  exponent_bits = 5
  min_exponent <- Lowest
  max_exponent = 9
  Words <- SmallWords
  Powers <- SomePowers
  IntDigits = 4
  FloatDigits = 2
  FloatMinExponent <- FloatLowest
  FloatMaxExponent = 5
  OtherDigits = 2
SYMMETRY Symmetric
INVARIANTS
  Normalised
  ArithmeticRounds
  FunctionsRound
  ConversionsRound
  OrderAgrees
