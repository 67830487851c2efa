\* A creator handle is mapped again while another thread is inside the lock.
SPECIFICATION RemapSpec
CONSTANTS
  Thread = {t1, t2, t3}
  MaxI32 = 3
  WhileHeld = TRUE
INVARIANTS
  MutualExclusion
CHECK_DEADLOCK FALSE
