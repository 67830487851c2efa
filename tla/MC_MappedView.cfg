SPECIFICATION Spec
CONSTANTS
  t1 = t1
  t2 = t2
  t3 = t3
  v1 = v1
  v2 = v2
  v3 = v3
  Thread = {t1, t2, t3}
  Within <- Nested
  View = {v1, v2, v3}
  Uses <- OwnViews
  DataSize = 3
  PrefixBytes = 1
  Payloads <- MCPayloads
  Offsets <- MCOffsets
  Ranges <- MCRanges
  Schemas <- MCSchemas
  MaxCalls = 3
INVARIANTS
  TypeOK
  ReadsStayInArea
  CallsFitArea
PROPERTIES
  CursorFollowsCalls
  ImplementsArea
  CallsReturn
\* The calls come to an end, and every process may be killed.
CHECK_DEADLOCK FALSE
