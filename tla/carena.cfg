\* One unit of size stands for 8 bytes, a page has 12 of them.
SPECIFICATION Spec
CONSTANTS
  Arenas = {a, b}
  Observed = a
  PageSize = 12
  MetaSize = 4
  AllocAlignment = 2
  Capacities = {3, 20}
  Sizes = {3, 7}
  Alignments = {2, 4}
  MaxPages = 5
  MaxBlocks = 2
INVARIANTS
  MappedIsOwned
PROPERTIES
  ResetFreesPhysical
  ImplementsAllocator
