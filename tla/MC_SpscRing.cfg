SPECIFICATION OrderSpec
CONSTANTS
  Capacity = 16
  UsizeMod = 32
  Payloads <- MCPayloads
  MaxPushes = 3
  MaxCrashes = 1
INVARIANTS
  TypeOK
  Fifo
  NeverOverfull
  WriterStaysOutside
  ReaderStaysInside
  DataRaceFree
PROPERTIES
  ImplementsQueue
