\* One creates, the other opens and maps at once.
SPECIFICATION Spec
CONSTANTS
  Proc = {p1, p2}
  Sizes = {4}
  RWLOCK_SIZE = 1
  SPSC_HEADER_SIZE = 2
  AgreedSize = TRUE
  MaxObjects = 2
  MaxLost = 2
INVARIANTS
  MapRaises
