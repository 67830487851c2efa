\* Both threads, and the Python code of counts, make their calls on one view.
SPECIFICATION Spec
CONSTANTS
  t1 = t1
  t2 = t2
  t3 = t3
  v1 = v1
  v2 = v2
  v3 = v3
  Thread = {t1, t2, t3}
  Within <- Nested
  View = {v1}
  Uses <- OneView
  DataSize = 3
  PrefixBytes = 1
  Payloads <- MCPayloads
  Offsets <- MCOffsets
  Ranges <- MCRanges
  Schemas <- MCSchemas
  MaxCalls = 3
PROPERTIES
  ImplementsMemory
CHECK_DEADLOCK FALSE
