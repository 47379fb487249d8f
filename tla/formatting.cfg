SPECIFICATION Spec
CONSTANTS
  WordBits = 4
  Bits <- MCBits
  BufSize = 6
  Calls <- MCCalls
  BlockDigits = 2
  MantissaBits = 8
  MinExponent <- MCMinExponent
  IndexStep = 3
  LeastExponent <- MCLeastExponent
INVARIANTS
  TextIsPromised
CHECK_DEADLOCK FALSE
