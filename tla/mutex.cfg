\* One unit of size stands for 8 bytes.
SPECIFICATION MutexSpec
CONSTANTS
  NodeSize = 4
  AllocAlignment = 2
  PoisonBoundary = 0
  Bases = {0}
  FirstBases = {2}
  MetaSize = 6
  DefaultCapacity = 8
  Capacities = {0}
  GrowNum = 1
  GrowDen = 1
  Sizes = {3, 5}
  Alignments = {2}
  MaxNodes = 9
  MaxBlocks = 9
  Threads = {t, u}
  Free = Free
  NoMutex = NoMutex
  MaxCalls = 5
INVARIANTS
  BlocksAreOwn
CHECK_DEADLOCK FALSE
