\* Values of every kind in an area of eight bytes.
SPECIFICATION Spec
CONSTANTS
  Base = 4
  Word = 2
  Long = 3
  DataSize = 8
  Values <- MCValues
  Lists <- MCLists
  Schemas <- MCSchemas
  Junk <- MCJunk
INVARIANTS
  ReadsWhatWasWritten
  CutIsRefused
  OneAgreesWithMixed
\* The area is full and everything is read.
CHECK_DEADLOCK FALSE
