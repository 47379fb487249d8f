SPECIFICATION Spec
CONSTANTS
  WordSize = 2
  IntBits = 16
  AllocAlignment = 16
  Alphabet <- MCAlphabet
  MaxBytes = 5
  Sets <- MCSets
  Needles <- MCNeedles
  Letters <- MCLetters
  MaxLetters = 3
  Languages = {"en", "lt", "tr"}
  Codepoints <- MCCodepoints
INVARIANTS
  DecodesAll
  FindsAll
  MadeValid
  CasesAgree
  WordsAgree
CHECK_DEADLOCK FALSE
