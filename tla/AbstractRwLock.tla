--------------------------- MODULE AbstractRwLock ---------------------------
(***************************************************************************)
(* What a reader-writer lock promises, with no word in memory, no spinning *)
(* and no intermediate step: each thread holds the lock shared, exclusively *)
(* or not at all, an exclusive hold excludes every other hold, and a hold   *)
(* ends only when its own thread gives it up.                               *)
(*                                                                          *)
(* RwLock.tla (the compare-and-swap loops of src/rwlock.rs) implements it.  *)
(***************************************************************************)

CONSTANT Thread     \* the threads, of any process, that map the segment

VARIABLE hold       \* hold[t]: how thread t holds the lock

HoldModes == {"none", "shared", "exclusive"}

AbsTypeOK == hold \in [Thread -> HoldModes]

AbsInit == hold = [t \in Thread |-> "none"]

AcquireShared(t) ==
  /\ hold[t] = "none"
  /\ \A u \in Thread : hold[u] # "exclusive"
  /\ hold' = [hold EXCEPT ![t] = "shared"]

AcquireExclusive(t) ==
  /\ \A u \in Thread : hold[u] = "none"
  /\ hold' = [hold EXCEPT ![t] = "exclusive"]

Release(t) ==
  /\ hold[t] # "none"
  /\ hold' = [hold EXCEPT ![t] = "none"]

AbsNext ==
  \E t \in Thread : AcquireShared(t) \/ AcquireExclusive(t) \/ Release(t)

AbsSpec == AbsInit /\ [][AbsNext]_hold

=============================================================================
