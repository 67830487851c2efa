\* Creator handles are mapped again and again, but never while a live thread
\* is inside the lock.
SPECIFICATION FairGilSpec
CONSTANTS
  t1 = t1
  t2 = t2
  t3 = t3
  p1 = p1
  p2 = p2
  p3 = p3
  Thread = {t1, t2, t3}
  Proc = {p1, p2, p3}
  Layouts <- MCLayouts
  Callers = {t1}
  MaxI32 = 3
  WhileHeld = FALSE
PROPERTIES
  
  HoldersLeave
  MapRecoversLock
\* Every process may be killed: then nothing happens any more.
CHECK_DEADLOCK FALSE
