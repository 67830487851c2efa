\* Three threads, and i32::MAX scaled to 3 so that the word reaches it.
SPECIFICATION Spec
CONSTANTS
  Thread = {t1, t2, t3}
  MaxI32 = 3
INVARIANTS
  TypeOK
  LockWordCountsHolders
  MutualExclusion
PROPERTIES
  DeadHolderBlocks
  ImplementsAbstractLock
  SomeoneGetsIn
  LoneThreadGetsIn
\* Every process may be killed: then nothing happens any more.
CHECK_DEADLOCK FALSE
