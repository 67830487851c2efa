------------------------------- MODULE RwLock -------------------------------
(***************************************************************************)
(* ShmRwLock of src/rwlock.rs: the cross-process reader-writer lock kept in *)
(* one AtomicI32 at the start of a mapped segment.                          *)
(*                                                                          *)
(* Every atomic access of the code is one step, so the load of read_lock    *)
(* and its compare_exchange are two steps and anything may happen between   *)
(* them.  All accesses are to a single atomic word, on which every memory   *)
(* ordering gives one total modification order, so interleaving is faithful *)
(* whatever Ordering the code names.                                        *)
(*                                                                          *)
(* A thread may be killed at any point (Crash): no Drop runs and the word   *)
(* in shared memory stays as it is.                                         *)
(***************************************************************************)
EXTENDS Integers, FiniteSets

CONSTANTS
  Thread,   \* the threads, of any process, that map the segment
  MaxI32    \* i32::MAX, the largest value of the lock word

\* There is a bounded number of threads, and the reader count fits an i32: no
\* system runs 2^31 threads at once.
ASSUME ThreadAssumption == IsFiniteSet(Thread)
ASSUME WidthAssumption == MaxI32 \in Nat /\ Cardinality(Thread) <= MaxI32

VARIABLES
  state,    \* the AtomicI32 in shared memory
  pc,       \* pc[t]: where thread t stands in the lock's code
  cur,      \* cur[t]: the local `cur` of read_lock
  alive     \* alive[t]: FALSE once the process of t was killed

vars == <<state, pc, cur, alive>>

-----------------------------------------------------------------------------

\* i32 addition of one, as a release build does it.
WrapI32(n) == IF n > MaxI32 THEN -MaxI32 - 1 ELSE n

Go(t, from, to) == alive[t] /\ pc[t] = from /\ pc' = [pc EXCEPT ![t] = to]

Readers == {t \in Thread : pc[t] = "reading"}
Writers == {t \in Thread : pc[t] = "writing"}
Waiting(t) == pc[t] \in {"read_load", "read_cas", "write_cas"}
Holding(t) == pc[t] \in {"reading", "writing"}

\* What reader_count() and is_write_locked() return.
ReaderCount == IF state > 0 THEN state ELSE 0
IsWriteLocked == state = -1

Init ==
  /\ state = 0
  /\ pc = [t \in Thread |-> "idle"]
  /\ cur = [t \in Thread |-> 0]
  /\ alive = [t \in Thread |-> TRUE]

-----------------------------------------------------------------------------
(* The reader's side.                                                       *)

ReadLock(t) ==
  /\ Go(t, "idle", "read_load")
  /\ UNCHANGED <<state, cur, alive>>

\* The acquire load; a negative value means a writer holds the lock: spin.
ReadLoad(t) ==
  /\ Go(t, "read_load", IF state >= 0 THEN "read_cas" ELSE "read_load")
  /\ cur' = [cur EXCEPT ![t] = state]
  /\ UNCHANGED <<state, alive>>

\* The increment with the word that was loaded, not the one that is there.
ReadCasBlindStore(t) ==
  /\ Go(t, "read_cas", "reading")
  /\ state' = WrapI32(cur[t] + 1)
  /\ UNCHANGED <<cur, alive>>

\* The increment, only if the word still is what was loaded; otherwise the
\* loop starts again.
ReadCas(t) ==
  /\ \/ /\ state = cur[t]
        /\ Go(t, "read_cas", "reading")
        /\ state' = WrapI32(cur[t] + 1)
     \/ /\ state # cur[t]
        /\ Go(t, "read_cas", "read_load")
        /\ UNCHANGED state
  /\ UNCHANGED <<cur, alive>>

ReadUnlockStoresZero(t) ==
  /\ Go(t, "reading", "idle")
  /\ state' = 0
  /\ cur' = [cur EXCEPT ![t] = 0]
  /\ UNCHANGED alive

ReadUnlock(t) ==
  /\ Go(t, "reading", "idle")
  /\ state' = state - 1
  /\ cur' = [cur EXCEPT ![t] = 0]     \* the local is gone
  /\ UNCHANGED alive

-----------------------------------------------------------------------------
(* The writer's side.                                                       *)

WriteLock(t) ==
  /\ Go(t, "idle", "write_cas")
  /\ UNCHANGED <<state, cur, alive>>

WriteCasAnyReaders(t) ==
  /\ \/ /\ state # -1
        /\ Go(t, "write_cas", "writing")
        /\ state' = -1
     \/ /\ state = -1
        /\ Go(t, "write_cas", "write_cas")
        /\ UNCHANGED state
  /\ UNCHANGED <<cur, alive>>

\* Succeeds on exactly zero: no reader and no other writer.
WriteCas(t) ==
  /\ \/ /\ state = 0
        /\ Go(t, "write_cas", "writing")
        /\ state' = -1
     \/ /\ state # 0
        /\ Go(t, "write_cas", "write_cas")
        /\ UNCHANGED state
  /\ UNCHANGED <<cur, alive>>

WriteUnlockDecrements(t) ==
  /\ Go(t, "writing", "idle")
  /\ state' = state - 1
  /\ UNCHANGED <<cur, alive>>

WriteUnlock(t) ==
  /\ Go(t, "writing", "idle")
  /\ state' = 0
  /\ UNCHANGED <<cur, alive>>

-----------------------------------------------------------------------------

\* The process of t is killed.  Its guard is never dropped, so nothing in
\* shared memory changes.
Crash(t) ==
  /\ alive[t]
  /\ alive' = [alive EXCEPT ![t] = FALSE]
  /\ UNCHANGED <<state, pc, cur>>

Acquire(t) == ReadLoad(t) \/ ReadCas(t) \/ WriteCas(t)
Unlock(t) == ReadUnlock(t) \/ WriteUnlock(t)

Next ==
  \E t \in Thread : ReadLock(t) \/ WriteLock(t) \/ Acquire(t) \/ Unlock(t) \/ Crash(t)

\* A live thread inside the lock's code keeps executing, and a guard is dropped
\* at the end of the call that made it.  Nobody has to call the lock.
Fairness == \A t \in Thread : WF_vars(Acquire(t)) /\ WF_vars(Unlock(t))

Spec == Init /\ [][Next]_vars /\ Fairness

-----------------------------------------------------------------------------
(* Properties.                                                              *)

\* Type invariant.  The range of `state` is the encoding the code documents:
\* a reader count, or -1.
TypeOK ==
  /\ state \in -1 .. MaxI32
  /\ pc \in [Thread -> {"idle", "read_load", "read_cas", "reading", "write_cas", "writing"}]
  /\ cur \in [Thread -> -1 .. MaxI32]
  /\ alive \in [Thread -> BOOLEAN]

\* The word tells the truth about the holders (the state encoding of
\* ShmRwLock), whatever was interleaved and whoever died: it is -1 exactly when
\* one writer is inside, alone, and otherwise it is the number of readers.
LockWordCountsHolders ==
  \/ /\ state = -1
     /\ Readers = {}
     /\ \E t \in Thread : Writers = {t}
  \/ /\ state = Cardinality(Readers)
     /\ Writers = {}

\* read_lock never tries to exchange a word it saw a writer in: otherwise the
\* exchange -1 -> 0 would take the lock away from that writer.
CasFromReaderCount ==
  \A t \in Thread : pc[t] = "read_cas" => cur[t] >= 0

\* The inductive invariant behind the safety theorems.
IInv == TypeOK /\ LockWordCountsHolders /\ CasFromReaderCount

\* write_lock() is exclusive: while a thread is between write_lock and
\* write_unlock nobody else is inside, as reader or as writer.
MutualExclusion ==
  \A t, u \in Thread : t # u /\ pc[t] = "writing" => ~Holding(u)

\* A killed holder keeps the lock for ever: after a writer died inside nobody
\* gets in, after a reader died inside no writer does.  (The lock has no owner
\* and no recovery; this is what a process that finds a dead peer can rely on.)
DeadHolderBlocks ==
  [][\A t \in Thread : ~alive[t] =>
       /\ pc[t] = "writing" => \A u \in Thread : ~Holding(u) => ~Holding(u)'
       /\ pc[t] = "reading" => Writers' = {}]_vars

\* The spinning lock is an abstract reader-writer lock.
Hold == [t \in Thread |-> CASE pc[t] = "reading" -> "shared"
                            [] pc[t] = "writing" -> "exclusive"
                            [] OTHER -> "none"]
Abs == INSTANCE AbstractRwLock WITH hold <- Hold
ImplementsAbstractLock == Abs!AbsSpec

\* As long as somebody waits, somebody is let in: the threads never wait on
\* each other with the lock free.
SomeoneGetsIn ==
  (\E t \in Thread : alive[t] /\ Waiting(t)) ~>
     \/ \E t \in Thread : Holding(t)
     \/ \A t \in Thread : alive[t] => ~Waiting(t)

\* A thread that is alone in the lock's code gets the lock: whatever the others
\* did before they left, they left it free.  (With others coming and going
\* nothing is promised: the loops are not fair, and a writer can starve.)
LoneThreadGetsIn ==
  \A t \in Thread :
    <>[](alive[t] /\ \A u \in Thread \ {t} : pc[u] = "idle")
      => [](Waiting(t) => <>Holding(t))

=============================================================================
