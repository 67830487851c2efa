\* Any processes create, but those that share a segment ask for one size.
SPECIFICATION Spec
CONSTANTS
  Proc = {p1, p2}
  Sizes = {0, 1, 4, 5}
  RWLOCK_SIZE = 1
  SPSC_HEADER_SIZE = 2
  AgreedSize = TRUE
  MaxObjects = 2
  MaxLost = 2
INVARIANTS
  MappingsAreBacked
  RingFitsMapping
  ViewsAgree
PROPERTIES
  CapacityIsConstant
SYMMETRY Symmetry
