\* One unit of size stands for 8 bytes.
SPECIFICATION Spec
CONSTANTS
  NodeSize = 4
  AllocAlignment = 2
  PoisonBoundary = 0
  Bases = {0, 6}
  FirstBases = {2}
  MetaSize = 6
  DefaultCapacity = 8
  Capacities = {0, 16}
  GrowNum = 1
  GrowDen = 1
  Sizes = {5, 9}
  Alignments = {2, 8}
  MaxNodes = 3
  MaxBlocks = 3
INVARIANTS
  BlocksInMemory
  BlocksInOrder
  BlocksAligned
  RewindStopsAtOwner
  CopiesAreSound
PROPERTIES
  ImplementsAllocator
