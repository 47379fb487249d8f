SPECIFICATION Spec
CONSTANTS
  WordBits = 4
  Multiplier = 45
  DoubleFraction = 2
  DoubleBits = 4
  SingleFraction = 1
  SingleBits = 2
INVARIANTS
  ArithmeticAgrees
  DivisionAgrees
  ConversionsAgree
  DrawsAreFair
