SPECIFICATION IteratorSpec
CONSTANTS
  HashBits = 14
  Hashes <- CollidingHashes
  Values = {v, w}
  None = None
  Junk = Junk
  Capacities = {0, 32}
  MinCapacity = 16
  MaxCapacity = 16384
  DuplicatePuts = FALSE
SYMMETRY SameElements
INVARIANTS
  TreeIsSound
  ReturnsOnce
PROPERTIES
  DeleteFreesSmall
  ImplementsMap
