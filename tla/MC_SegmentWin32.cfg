\* Creators and openers pass any size.
SPECIFICATION Spec
CONSTANTS
  Proc = {p1, p2}
  Sizes = {1, 3, 4}
  RWLOCK_SIZE = 1
  SPSC_HEADER_SIZE = 2
  PAGE = 2
  AgreedSize = FALSE
  MaxObjects = 2
  MaxLost = 1
INVARIANTS
  RingFitsPages
  OneSegmentPerName
SYMMETRY Symmetry
