SPECIFICATION FairObsSpec
CONSTANTS
  Capacity = 8
  UsizeMod = 16
  Payloads <- MCPayloads
  MaxPushes = 2
  MaxCrashes = 1
INVARIANTS
  FreeIsKept
  DrainedIsConsumed
  NonEmptyIsKept
PROPERTIES
  FullStaysFull
  PublishedIsConsumed
  RefusedThenAccepted
