SPECIFICATION Spec
CONSTANTS
  IntBits = 16
  AllocAlignment = 2
  Sources <- TwoSources
  Wholes <- AllWholes
  Wanted <- OnlyLetters
  Image <- Swap
  Sizes = {1, 4}
  Capacities = {0, 1, 3}
  MaxEstimate = 1
  MaxLength = 3
  Files <- MCFiles
  Delimiters <- MCDelimiters
  Spaces <- MCSpaces
INVARIANTS
  HasRoom
  ReadsEndAtDelimiter
  TailIsWhole
PROPERTIES
  ImplementsSequence
VIEW View
CHECK_DEADLOCK FALSE
