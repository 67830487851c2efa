---------------------------- MODULE RwLockProofs ----------------------------
(***************************************************************************)
(* For any finite set of threads: the lock word always tells the truth      *)
(* about the holders, a writer is alone, a dead holder keeps the lock, and   *)
(* the compare-and-swap lock implements the abstract reader-writer lock.     *)
(*                                                                          *)
(* For any assignment of the threads to processes: the word stays true when  *)
(* creator handles are mapped while no live thread is inside, also under the  *)
(* interpreter locks, and Python code that waits for its own process under   *)
(* the read lock does so until the process is killed.                        *)
(***************************************************************************)
EXTENDS RwLockGil, FiniteSetTheorems, TLAPS

\* How the set of readers and writers moves when the program counter of one
\* thread does.  Every other lemma about Next uses the sets only through this.
LEMMA HolderSets ==
  ASSUME TypeOK, NEW t \in Thread, NEW v,
         pc' = [pc EXCEPT ![t] = v]
  PROVE  /\ Readers' = IF v = "reading" THEN Readers \cup {t} ELSE Readers \ {t}
         /\ Writers' = IF v = "writing" THEN Writers \cup {t} ELSE Writers \ {t}
  BY DEF TypeOK, Readers, Writers

\* The reader count of a finite thread set, and what one reader adds or takes.
LEMMA ReaderCounting ==
  ASSUME NEW R \in SUBSET Thread
  PROVE  /\ Cardinality(R) \in Nat
         /\ Cardinality(R) <= MaxI32
         /\ R = {} <=> Cardinality(R) = 0
         /\ \A t \in Thread \ R : /\ Cardinality(R \cup {t}) = Cardinality(R) + 1
                                  /\ Cardinality(R) + 1 <= MaxI32
         /\ \A t \in R : Cardinality(R \ {t}) = Cardinality(R) - 1
<1>1. IsFiniteSet(R) /\ Cardinality(R) <= Cardinality(Thread)
  BY ThreadAssumption, FS_Subset
<1>2. Cardinality(R) \in Nat /\ Cardinality(Thread) \in Nat
  BY <1>1, ThreadAssumption, FS_CardinalityType
<1>3. R = {} <=> Cardinality(R) = 0
  BY <1>1, FS_EmptySet
<1>4. ASSUME NEW t \in Thread \ R
      PROVE  /\ Cardinality(R \cup {t}) = Cardinality(R) + 1
             /\ Cardinality(R) + 1 <= MaxI32
  <2>1. Cardinality(R \cup {t}) = Cardinality(R) + 1
    BY <1>1, FS_AddElement
  <2>2. Cardinality(R \cup {t}) <= Cardinality(Thread)
    BY ThreadAssumption, FS_Subset, R \cup {t} \in SUBSET Thread
  <2>3. QED
    BY <2>1, <2>2, <1>2, WidthAssumption
<1>5. ASSUME NEW t \in R
      PROVE  Cardinality(R \ {t}) = Cardinality(R) - 1
  BY <1>1, FS_RemoveElement
<1>6. QED
  BY <1>1, <1>2, <1>3, <1>4, <1>5, WidthAssumption

LEMMA InitIInv == Init => IInv
<1> SUFFICES ASSUME Init PROVE IInv
  OBVIOUS
<1>1. TypeOK /\ CasFromReaderCount
  BY WidthAssumption DEF Init, TypeOK, CasFromReaderCount
<1>2. Readers = {} /\ Writers = {}
  BY DEF Init, Readers, Writers
<1>3. Cardinality(Readers) = 0
  BY <1>2, FS_EmptySet
<1>4. QED
  BY <1>1, <1>2, <1>3 DEF Init, IInv, LockWordCountsHolders

\* The invariant is inductive.
LEMMA NextIInv == IInv /\ [Next]_vars => IInv'
<1> SUFFICES ASSUME IInv, [Next]_vars PROVE IInv'
  OBVIOUS
<1> USE DEF IInv
<1>a. Readers \in SUBSET Thread
  BY DEF Readers
<1>b. MaxI32 \in Nat
  BY WidthAssumption
<1>1. ASSUME NEW t \in Thread, ReadLock(t) PROVE IInv'
  <2>1. TypeOK' /\ CasFromReaderCount'
    BY <1>1 DEF ReadLock, Go, TypeOK, CasFromReaderCount
  <2>2. Readers' = Readers /\ Writers' = Writers /\ state' = state
    BY <1>1, HolderSets DEF ReadLock, Go, Readers, Writers
  <2>3. QED
    BY <2>1, <2>2 DEF LockWordCountsHolders
<1>2. ASSUME NEW t \in Thread, ReadLoad(t) PROVE IInv'
  <2>1. TypeOK' /\ CasFromReaderCount'
    BY <1>2 DEF ReadLoad, Go, TypeOK, CasFromReaderCount
  <2>2. Readers' = Readers /\ Writers' = Writers /\ state' = state
    BY <1>2, HolderSets DEF ReadLoad, Go, Readers, Writers
  <2>3. QED
    BY <2>1, <2>2 DEF LockWordCountsHolders
<1>3. ASSUME NEW t \in Thread, ReadCas(t) PROVE IInv'
  <2>1. CASE state = cur[t]
    <3>1. state >= 0 /\ t \notin Readers /\ t \notin Writers
      BY <1>3, <2>1 DEF ReadCas, Go, CasFromReaderCount, Readers, Writers
    <3>2. state = Cardinality(Readers) /\ Writers = {}
      BY <3>1 DEF LockWordCountsHolders
    <3>3. Readers' = Readers \cup {t} /\ Writers' = {}
      BY <1>3, <2>1, <3>1, <3>2, HolderSets DEF ReadCas, Go
    <3>4. Cardinality(Readers') = state + 1 /\ state + 1 <= MaxI32
      BY <1>a, <3>1, <3>2, <3>3, ReaderCounting
    <3>5. state' = state + 1
      BY <1>3, <2>1, <3>4, <1>b DEF ReadCas, WrapI32, TypeOK
    <3>6. TypeOK' /\ CasFromReaderCount'
      BY <1>3, <2>1, <3>1, <3>4, <3>5, <1>b DEF ReadCas, Go, TypeOK, CasFromReaderCount
    <3>7. QED
      BY <3>3, <3>4, <3>5, <3>6 DEF LockWordCountsHolders
  <2>2. CASE state # cur[t]
    <3>1. TypeOK' /\ CasFromReaderCount'
      BY <1>3, <2>2 DEF ReadCas, Go, TypeOK, CasFromReaderCount
    <3>2. Readers' = Readers /\ Writers' = Writers /\ state' = state
      BY <1>3, <2>2, HolderSets DEF ReadCas, Go, Readers, Writers
    <3>3. QED
      BY <3>1, <3>2 DEF LockWordCountsHolders
  <2>3. QED
    BY <2>1, <2>2
<1>4. ASSUME NEW t \in Thread, ReadUnlock(t) PROVE IInv'
  <2>1. t \in Readers /\ t \notin Writers
    BY <1>4 DEF ReadUnlock, Go, Readers, Writers
  <2>2. state = Cardinality(Readers) /\ Writers = {} /\ state' = state - 1
    BY <1>4, <2>1 DEF ReadUnlock, LockWordCountsHolders
  <2>3. Readers' = Readers \ {t} /\ Writers' = {}
    <3>1. Readers' = Readers \ {t} /\ Writers' = Writers \ {t}
      BY <1>4 DEF ReadUnlock, Go, TypeOK, Readers, Writers
    <3>2. QED
      BY <3>1, <2>2
  <2>4. Cardinality(Readers') = state - 1 /\ Readers' \in SUBSET Thread
    BY <1>a, <2>1, <2>2, <2>3, ReaderCounting
  <2>5. state - 1 \in Nat
    BY <2>4, ReaderCounting
  <2>6. TypeOK' /\ CasFromReaderCount'
    BY <1>4, <2>2, <2>5, <1>b DEF ReadUnlock, Go, TypeOK, CasFromReaderCount
  <2>7. QED
    BY <2>2, <2>3, <2>4, <2>6 DEF LockWordCountsHolders
<1>5. ASSUME NEW t \in Thread, WriteLock(t) PROVE IInv'
  <2>1. TypeOK' /\ CasFromReaderCount'
    BY <1>5 DEF WriteLock, Go, TypeOK, CasFromReaderCount
  <2>2. Readers' = Readers /\ Writers' = Writers /\ state' = state
    BY <1>5, HolderSets DEF WriteLock, Go, Readers, Writers
  <2>3. QED
    BY <2>1, <2>2 DEF LockWordCountsHolders
<1>6. ASSUME NEW t \in Thread, WriteCas(t) PROVE IInv'
  <2>0. TypeOK' /\ CasFromReaderCount'
    BY <1>6, <1>b DEF WriteCas, Go, TypeOK, CasFromReaderCount
  <2>1. CASE state = 0
    <3>1. Readers = {} /\ Writers = {}
      BY <2>1, <1>a, ReaderCounting DEF LockWordCountsHolders
    <3>2. Readers' = {} /\ Writers' = {t} /\ state' = -1
      BY <1>6, <2>1, <3>1, HolderSets DEF WriteCas, Go
    <3>3. QED
      BY <2>0, <3>2 DEF LockWordCountsHolders
  <2>2. CASE state # 0
    <3>1. Readers' = Readers /\ Writers' = Writers /\ state' = state
      BY <1>6, <2>2, HolderSets DEF WriteCas, Go, Readers, Writers
    <3>2. QED
      BY <2>0, <3>1 DEF LockWordCountsHolders
  <2>3. QED
    BY <2>1, <2>2
<1>7. ASSUME NEW t \in Thread, WriteUnlock(t) PROVE IInv'
  <2>1. t \in Writers
    BY <1>7 DEF WriteUnlock, Go, Writers
  <2>2. Readers = {} /\ Writers = {t}
    BY <2>1 DEF LockWordCountsHolders
  <2>3. Readers' = {} /\ Writers' = {} /\ state' = 0
    <3>1. Readers' = Readers \ {t} /\ Writers' = Writers \ {t}
      BY <1>7 DEF WriteUnlock, Go, TypeOK, Readers, Writers
    <3>2. QED
      BY <1>7, <3>1, <2>2 DEF WriteUnlock
  <2>4. TypeOK' /\ CasFromReaderCount'
    BY <1>7, <1>b DEF WriteUnlock, Go, TypeOK, CasFromReaderCount
  <2>5. QED
    BY <2>3, <2>4, FS_EmptySet DEF LockWordCountsHolders
<1>8. ASSUME NEW t \in Thread, Crash(t) PROVE IInv'
  BY <1>8 DEF Crash, TypeOK, CasFromReaderCount, LockWordCountsHolders, Readers, Writers
<1>9. CASE UNCHANGED vars
  BY <1>9 DEF vars, TypeOK, CasFromReaderCount, LockWordCountsHolders, Readers, Writers
<1>10. QED
  BY <1>1, <1>2, <1>3, <1>4, <1>5, <1>6, <1>7, <1>8, <1>9 DEF Next, Acquire, Unlock

\* The word in shared memory always has one of the documented values, and it
\* always says who is inside: the reader count, or -1 for one writer alone.
THEOREM LockWordInvariant == Spec => [](TypeOK /\ LockWordCountsHolders)
<1>1. IInv => TypeOK /\ LockWordCountsHolders
  BY DEF IInv
<1>2. QED
  BY InitIInv, NextIInv, <1>1, PTL DEF Spec

\* The word stays in its documented encoding and every thread where its code has
\* a line: the counter never leaves the i32 (src/rwlock.rs, cur + 1 and fetch_sub).
THEOREM LockTypes == Spec => []TypeOK
<1>1. IInv => TypeOK
  BY DEF IInv
<1>2. QED
  BY InitIInv, NextIInv, <1>1, PTL DEF Spec

\* Between write_lock and write_unlock a thread is alone inside the lock.
THEOREM WriterIsAlone == Spec => []MutualExclusion
<1>1. IInv => MutualExclusion
  BY DEF IInv, LockWordCountsHolders, MutualExclusion, Holding, Readers, Writers
<1>2. QED
  BY InitIInv, NextIInv, <1>1, PTL DEF Spec

\* A holder that was killed keeps the lock for ever: nobody gets past a dead
\* writer, and no writer past a dead reader.
THEOREM DeadHolderKeepsLock == Spec => DeadHolderBlocks
<1> DEFINE Blocks(t) ==
      /\ pc[t] = "writing" => \A u \in Thread : ~Holding(u) => ~Holding(u)'
      /\ pc[t] = "reading" => Writers' = {}
<1>1. ASSUME IInv, IInv', [Next]_vars, NEW t \in Thread, ~alive[t]
      PROVE  Blocks(t)
  <2>1. pc'[t] = pc[t] /\ ~alive'[t]
    BY <1>1 DEF IInv, TypeOK, Next, vars, ReadLock, WriteLock, Acquire, Unlock, ReadLoad,
       ReadCas, WriteCas, ReadUnlock, WriteUnlock, Crash, Go
  <2>2. pc[t] = "writing" => \A u \in Thread : ~Holding(u) => ~Holding(u)'
    <3> SUFFICES ASSUME pc[t] = "writing", NEW u \in Thread, ~Holding(u)
                 PROVE  ~Holding(u)'
      OBVIOUS
    <3>1. t \in Writers' /\ u # t
      BY <2>1 DEF Writers, Holding
    <3>2. Readers' = {} /\ u \notin Writers'
      BY <1>1, <3>1 DEF IInv, LockWordCountsHolders
    <3>3. QED
      BY <3>2 DEF Holding, Readers, Writers
  <2>3. pc[t] = "reading" => Writers' = {}
    <3> SUFFICES ASSUME pc[t] = "reading" PROVE Writers' = {}
      OBVIOUS
    <3>1. t \in Readers'
      BY <2>1 DEF Readers
    <3>2. QED
      BY <1>1, <3>1 DEF IInv, LockWordCountsHolders
  <2>4. QED
    BY <2>2, <2>3
<1>2. IInv /\ IInv' /\ [Next]_vars =>
        [\A t \in Thread : ~alive[t] => Blocks(t)]_vars
  BY <1>1
<1>3. QED
  BY InitIInv, NextIInv, <1>2, PTL DEF Spec, DeadHolderBlocks

-----------------------------------------------------------------------------
(* The lock implements AbstractRwLock: every step of the code is an         *)
(* acquisition, a release, or invisible.                                    *)

LEMMA InitRefines == Init => Abs!AbsInit
  BY DEF Init, Abs!AbsInit, Hold

LEMMA NextRefines == IInv /\ [Next]_vars => [Abs!AbsNext]_Hold
<1> SUFFICES ASSUME IInv, [Next]_vars PROVE [Abs!AbsNext]_Hold
  OBVIOUS
<1> USE DEF Hold, IInv, TypeOK
<1>1. ASSUME NEW t \in Thread, ReadLock(t) \/ WriteLock(t) \/ ReadLoad(t) \/ Crash(t)
      PROVE  Hold' = Hold
  BY <1>1 DEF ReadLock, WriteLock, ReadLoad, Crash, Go
<1>2. ASSUME NEW t \in Thread, ReadCas(t)
      PROVE  Hold' = Hold \/ Abs!AcquireShared(t)
  <2>1. CASE state # cur[t]
    BY <1>2, <2>1 DEF ReadCas, Go
  <2>2. CASE state = cur[t]
    <3>1. Writers = {}
      BY <1>2, <2>2 DEF ReadCas, Go, CasFromReaderCount, LockWordCountsHolders
    <3>2. pc[t] = "read_cas" /\ pc' = [pc EXCEPT ![t] = "reading"]
      BY <1>2, <2>2 DEF ReadCas, Go
    <3>3. \A u \in Thread : Hold[u] # "exclusive"
      BY <3>1 DEF Writers
    <3>4. Hold' = [Hold EXCEPT ![t] = "shared"] /\ Hold[t] = "none"
      BY <3>2
    <3>5. QED
      BY <3>3, <3>4 DEF Abs!AcquireShared
  <2>3. QED
    BY <2>1, <2>2
<1>3. ASSUME NEW t \in Thread, WriteCas(t)
      PROVE  Hold' = Hold \/ Abs!AcquireExclusive(t)
  <2>1. CASE state # 0
    BY <1>3, <2>1 DEF WriteCas, Go
  <2>2. CASE state = 0
    <3>1. Readers = {} /\ Writers = {}
      BY <2>2, ReaderCounting, Readers \in SUBSET Thread DEF LockWordCountsHolders, Readers
    <3>2. pc' = [pc EXCEPT ![t] = "writing"]
      BY <1>3, <2>2 DEF WriteCas, Go
    <3>3. \A u \in Thread : Hold[u] = "none"
      BY <3>1 DEF Readers, Writers
    <3>4. Hold' = [Hold EXCEPT ![t] = "exclusive"]
      BY <3>2
    <3>5. QED
      BY <3>3, <3>4 DEF Abs!AcquireExclusive
  <2>3. QED
    BY <2>1, <2>2
<1>4. ASSUME NEW t \in Thread, Unlock(t)
      PROVE  Abs!Release(t)
  BY <1>4 DEF Unlock, ReadUnlock, WriteUnlock, Go, Abs!Release
<1>5. CASE UNCHANGED vars
  BY <1>5 DEF vars
<1>6. QED
  BY <1>1, <1>2, <1>3, <1>4, <1>5 DEF Next, Acquire, Abs!AbsNext

\* The compare-and-swap lock in shared memory is a reader-writer lock.
THEOREM LockRefinesAbstract == Spec => ImplementsAbstractLock
  BY InitIInv, NextIInv, InitRefines, NextRefines, PTL
     DEF Spec, ImplementsAbstractLock, Abs!AbsSpec

-----------------------------------------------------------------------------
(* map() on a creator handle, and the interpreter locks.                    *)

\* The store of 0 is true again as soon as no live thread is inside: the dead ones are
\* forgotten with it.
LEMMA MapOK ==
  ASSUME IInv, NEW t \in Thread, Map(t), LiveHolders = {}
  PROVE  IInv'
<1>1. TypeOK' /\ CasFromReaderCount'
  BY WidthAssumption DEF IInv, TypeOK, CasFromReaderCount, Map
<1>2. Readers' = {} /\ Writers' = {}
  BY DEF IInv, TypeOK, Map, LiveHolders, Holding, Readers, Writers
<1>3. state' = Cardinality(Readers')
  BY <1>2, FS_EmptySet DEF Map
<1>4. QED
  BY <1>1, <1>2, <1>3 DEF IInv, LockWordCountsHolders

\* Killing threads changes nothing that the word speaks of.
LEMMA KillOK ==
  ASSUME IInv, alive' \in [Thread -> BOOLEAN], UNCHANGED <<state, pc, cur>>
  PROVE  IInv'
BY DEF IInv, TypeOK, CasFromReaderCount, LockWordCountsHolders, Readers, Writers

LEMMA MapNextIInv ==
  ASSUME WhileHeld = FALSE, IInv, [MapNext]_vars
  PROVE  IInv'
<1>1. CASE [Next]_vars
  BY <1>1, NextIInv
<1>2. ASSUME NEW t \in Thread, Map(t)
      PROVE  IInv'
  BY <1>2, MapOK DEF Map
<1>3. QED
  BY <1>1, <1>2 DEF MapNext

\* A step of the interpreters is a step of the lock, of map(), or one that the lock does
\* not see.
LEMMA GilNextIInv ==
  ASSUME WhileHeld = FALSE, IInv, [GilNext]_gilVars
  PROVE  IInv'
<1>1. ASSUME NEW t \in Thread, Calls(t) \/ Runs(t)
      PROVE  IInv'
  BY <1>1, NextIInv DEF Calls, Runs, Next
<1>2. ASSUME NEW t \in Thread, GilMap(t)
      PROVE  IInv'
  BY <1>2, MapOK DEF GilMap, Map
<1>3. ASSUME NEW p \in Proc, Kill(p)
      PROVE  IInv'
  <2>1. alive' \in [Thread -> BOOLEAN]
    BY <1>3 DEF Kill, IInv, TypeOK
  <2>2. QED
    BY <1>3, <2>1, KillOK DEF Kill
<1>4. CASE UNCHANGED vars
  BY <1>4, NextIInv
<1>5. QED
  BY <1>1, <1>2, <1>3, <1>4
     DEF GilNext, gilVars, TakeGil, CallBack, CallBackReturns, Reenters, SpinsOnItself

\* The word tells the truth, and a writer is alone, however often map() resets the
\* lock, provided that nobody does so while a live thread is inside.  (Without the
\* proviso both fail, as the run rwlock_remap_held shows.)
THEOREM MapKeepsLock ==
  ASSUME WhileHeld = FALSE
  PROVE  RemapSpec => [](LockWordCountsHolders /\ MutualExclusion)
<1>1. IInv /\ [MapNext]_vars => IInv'
  BY MapNextIInv
<1>2. IInv => LockWordCountsHolders /\ MutualExclusion
  BY DEF IInv, LockWordCountsHolders, MutualExclusion, Holding, Readers, Writers
<1>3. QED
  BY InitIInv, <1>1, <1>2, PTL DEF RemapSpec

\* The same with whole processes killed, and with Python code run under the read lock.
THEOREM GilKeepsLock ==
  ASSUME WhileHeld = FALSE
  PROVE  GilSpec => [](LockWordCountsHolders /\ MutualExclusion)
<1>1. IInv /\ [GilNext]_gilVars => IInv'
  BY GilNextIInv
<1>2. IInv => LockWordCountsHolders /\ MutualExclusion
  BY DEF IInv, LockWordCountsHolders, MutualExclusion, Holding, Readers, Writers
<1>3. GilInit => IInv
  BY InitIInv DEF GilInit
<1>4. QED
  BY <1>1, <1>2, <1>3, PTL DEF GilSpec

-----------------------------------------------------------------------------
(* Who has the interpreter lock.  Whether map() is called while the lock is   *)
(* held makes no difference here.                                           *)

GilTypes ==
  /\ pc \in [Thread -> {"idle", "read_load", "read_cas", "reading", "write_cas", "writing"}]
  /\ alive \in [Thread -> BOOLEAN]
  /\ process \in [Thread -> Proc]
  /\ gil \in [Proc -> Thread \cup {Nobody}]
  /\ callback \in [Thread -> {"none", "running", "returned", "spinning"}]

\* In a process that lives, a live thread of its own has the GIL.
SomebodyHasGil ==
  \A t \in Thread : alive[t] =>
    LET u == gil[process[t]] IN u \in Thread /\ alive[u] /\ process[u] = process[t]

\* Python code runs on top of read_mixed only.
CallbacksRead ==
  \A t \in Thread : alive[t] /\ callback[t] # "none" => pc[t] = "reading"

GilInv == GilTypes /\ SomebodyHasGil /\ CallbacksRead

LEMMA InitGilInv == GilInit => GilInv
<1> SUFFICES ASSUME GilInit PROVE GilInv
  OBVIOUS
<1>1. GilTypes
  BY ProcessAssumption DEF GilInit, Init, GilTypes
<1>2. SomebodyHasGil
  <2> SUFFICES ASSUME NEW t \in Thread
               PROVE  gil[process[t]] \in Thread /\ process[gil[process[t]]] = process[t]
    BY DEF SomebodyHasGil, GilInit, Init
  <2>1. process[t] \in Proc /\ gil[process[t]] \in Thread \cup {Nobody}
    BY <1>1 DEF GilTypes
  <2>2. IF gil[process[t]] = Nobody THEN \A u \in Thread : process[u] # process[t]
        ELSE process[gil[process[t]]] = process[t]
    BY <2>1 DEF GilInit
  <2>3. QED
    BY <2>1, <2>2
<1>3. CallbacksRead
  BY DEF GilInit, Init, CallbacksRead
<1>4. QED
  BY <1>1, <1>2, <1>3 DEF GilInv

\* A step of a thread that has the GIL, which keeps it: only its own place in the code
\* moves, and those of the dead.
LEMMA OwnStepOK ==
  ASSUME GilInv, NEW t \in Thread, HasGil(t), GilTypes', UNCHANGED <<alive, process, gil>>,
         \A u \in Thread \ {t} : alive[u] => pc'[u] = pc[u] /\ callback'[u] = callback[u],
         callback'[t] # "none" => pc'[t] = "reading"
  PROVE  GilInv'
<1>1. SomebodyHasGil'
  BY DEF GilInv, SomebodyHasGil
<1>2. CallbacksRead'
  BY DEF GilInv, CallbacksRead
<1>3. QED
  BY <1>1, <1>2 DEF GilInv

LEMMA NextGilInv ==
  ASSUME GilInv, [GilNext]_gilVars
  PROVE  GilInv'
<1>1. ASSUME NEW t \in Thread, TakeGil(t)
      PROVE  GilInv'
  <2> DEFINE g == gil[process[t]]
  <2>1. /\ alive[t] /\ Switchable(g) /\ gil' = [gil EXCEPT ![process[t]] = t]
        /\ UNCHANGED <<pc, alive, process, callback>>
    BY <1>1 DEF TakeGil, vars
  <2>2. GilTypes'
    BY <2>1 DEF GilInv, GilTypes
  <2>3. SomebodyHasGil'
    BY <2>1 DEF GilInv, GilTypes, SomebodyHasGil
  <2>4. CallbacksRead'
    BY <2>1 DEF GilInv, CallbacksRead
  <2>5. QED
    BY <2>2, <2>3, <2>4 DEF GilInv
<1>2. ASSUME NEW t \in Thread, Calls(t) \/ Runs(t)
      PROVE  GilInv'
  <2>1. /\ HasGil(t) /\ UNCHANGED <<alive, process, gil>>
        /\ \E v \in {"read_load", "read_cas", "reading", "write_cas", "writing", "idle"} :
             pc' = [pc EXCEPT ![t] = v]
    BY <1>2 DEF Calls, Runs, InLock, ReadLock, WriteLock, Acquire, Unlock, ReadLoad, ReadCas,
      WriteCas, ReadUnlock, WriteUnlock, Go
  <2>2. /\ callback' = callback \/ callback' = [callback EXCEPT ![t] = "none"]
        /\ callback'[t] = "none"
    <3>1. CASE Runs(t) /\ Unlock(t) /\ callback' = [callback EXCEPT ![t] = "none"]
      BY <3>1 DEF GilInv, GilTypes
    <3>2. CASE pc[t] # "reading" /\ callback' = callback
      BY <2>1, <3>2 DEF GilInv, CallbacksRead, GilTypes, HasGil
    <3>3. QED
      BY <1>2, <3>1, <3>2 DEF Calls, Runs, ReadLock, WriteLock, Acquire, ReadLoad, ReadCas,
        WriteCas, Go
  <2>3. GilTypes'
    BY <2>1, <2>2 DEF GilInv, GilTypes
  <2>4. \A u \in Thread \ {t} : pc'[u] = pc[u] /\ callback'[u] = callback[u]
    BY <2>1, <2>2 DEF GilInv, GilTypes
  <2>5. QED
    BY <2>1, <2>2, <2>3, <2>4, OwnStepOK
<1>3. ASSUME NEW t \in Thread, GilMap(t)
      PROVE  GilInv'
  <2>1. /\ HasGil(t) /\ UNCHANGED <<alive, process, gil, callback>> /\ alive[t] /\ pc[t] = "idle"
        /\ pc' = [u \in Thread |-> IF alive[u] THEN pc[u] ELSE "idle"]
    BY <1>3 DEF GilMap, Map
  <2>2. GilTypes'
    BY <2>1 DEF GilInv, GilTypes
  <2>3. callback'[t] # "none" => pc'[t] = "reading"
    BY <2>1 DEF GilInv, CallbacksRead
  <2>4. QED
    BY <2>1, <2>2, <2>3, OwnStepOK
<1>4. ASSUME NEW t \in Thread, CallBack(t) \/ CallBackReturns(t) \/ Reenters(t)
      PROVE  GilInv'
  <2>1. /\ HasGil(t) /\ UNCHANGED <<pc, alive, process, gil>> /\ pc[t] = "reading"
        /\ \E v \in {"running", "returned", "spinning"} : callback' = [callback EXCEPT ![t] = v]
    <3>1. HasGil(t) /\ alive[t]
      BY <1>4 DEF CallBack, CallBackReturns, Reenters, Continues, HasGil
    <3>2. pc[t] = "reading"
      BY <1>4, <3>1 DEF CallBack, CallBackReturns, Reenters, Continues, GilInv, CallbacksRead
    <3>3. QED
      BY <1>4, <3>1, <3>2 DEF CallBack, CallBackReturns, Reenters, Continues, vars
  <2>2. GilTypes'
    BY <2>1 DEF GilInv, GilTypes
  <2>3. \A u \in Thread \ {t} : pc'[u] = pc[u] /\ callback'[u] = callback[u]
    BY <2>1 DEF GilInv, GilTypes
  <2>4. QED
    BY <2>1, <2>2, <2>3, OwnStepOK
<1>5. ASSUME NEW p \in Proc, Kill(p)
      PROVE  GilInv'
  <2>1. /\ alive' = [t \in Thread |-> alive[t] /\ process[t] # p]
        /\ gil' = [gil EXCEPT ![p] = Nobody] /\ UNCHANGED <<pc, process, callback>>
    BY <1>5 DEF Kill
  <2>2. GilTypes'
    BY <2>1 DEF GilInv, GilTypes
  <2>3. \A t \in Thread : alive'[t] => alive[t] /\ process[t] # p /\ gil'[process[t]] = gil[process[t]]
    BY <2>1 DEF GilInv, GilTypes
  <2>4. SomebodyHasGil'
    BY <2>1, <2>3 DEF GilInv, SomebodyHasGil
  <2>5. CallbacksRead'
    BY <2>1, <2>3 DEF GilInv, CallbacksRead
  <2>6. QED
    BY <2>2, <2>4, <2>5 DEF GilInv
<1>6. CASE UNCHANGED gilVars
  BY <1>6 DEF gilVars, vars, GilInv, GilTypes, SomebodyHasGil, CallbacksRead
<1>7. QED
  BY <1>1, <1>2, <1>3, <1>4, <1>5, <1>6 DEF GilNext, SpinsOnItself

\* One step of a deadlocked process.  The word counts the reader, so that no exchange of
\* a writer succeeds and nobody may map; the spinning thread has the GIL and cannot be
\* switched out, so that the reader's Python code does not go on.
LEMMA DeadlockedStep ==
  ASSUME WhileHeld = FALSE, IInv, IInv', GilInv, [GilNext]_gilVars,
         NEW p \in Proc, Deadlocked(p)
  PROVE  \/ Deadlocked(p)' /\ Writers' = {}
         \/ \A t \in Thread : process[t] = p => ~alive'[t]
<1>1. PICK t \in Thread, u \in Thread :
        /\ process[t] = p /\ alive[t] /\ pc[t] = "reading" /\ callback[t] \in {"running", "spinning"}
        /\ gil[p] = u /\ (pc[u] = "write_cas" \/ callback[u] = "spinning")
  BY DEF Deadlocked
<1>2. /\ alive[u] /\ process[u] = p /\ ~Switchable(u)
      /\ pc[u] = "write_cas" => callback[u] = "none" /\ u # t
      /\ pc[u] # "write_cas" => callback[u] = "spinning"
  BY <1>1 DEF GilInv, GilTypes, SomebodyHasGil, CallbacksRead, Switchable
<1>3. state # 0 /\ LiveHolders # {}
  <2>1. t \in Readers /\ Readers \in SUBSET Thread /\ t \in LiveHolders
    BY <1>1 DEF Readers, LiveHolders, Holding
  <2>2. QED
    BY <2>1, ReaderCounting DEF IInv, LockWordCountsHolders
<1>4. ASSUME /\ process' = process /\ alive'[t] /\ gil'[p] = u
             /\ pc'[t] = pc[t] /\ pc'[u] = pc[u]
             /\ callback'[t] = callback[t] /\ callback'[u] = callback[u]
      PROVE  Deadlocked(p)' /\ Writers' = {}
  <2>1. Deadlocked(p)'
    BY <1>1, <1>4 DEF Deadlocked
  <2>2. t \in Readers'
    BY <1>1, <1>4 DEF Readers
  <2>3. QED
    BY <2>1, <2>2 DEF IInv, LockWordCountsHolders
<1>5. ASSUME NEW v \in Thread, TakeGil(v)
      PROVE  Deadlocked(p)' /\ Writers' = {}
  <2>1. process[v] # p
    BY <1>1, <1>2, <1>5 DEF TakeGil
  <2>2. gil'[p] = u /\ UNCHANGED <<pc, alive, process, callback>>
    BY <1>1, <1>5, <2>1 DEF TakeGil, vars, GilInv, GilTypes
  <2>3. QED
    BY <1>1, <1>4, <2>2
<1>6. ASSUME NEW v \in Thread, Calls(v) \/ Runs(v)
      PROVE  Deadlocked(p)' /\ Writers' = {}
  <2>1. v # t /\ UNCHANGED <<alive, process, gil>>
    BY <1>1, <1>6 DEF Calls, Runs, InLock, ReadLock, WriteLock, Acquire, Unlock, ReadLoad, ReadCas,
      WriteCas, ReadUnlock, WriteUnlock
  <2>2. pc' = [pc EXCEPT ![v] = pc'[v]]
        /\ (callback' = callback \/ callback' = [callback EXCEPT ![v] = "none"])
    BY <1>6 DEF Calls, Runs, ReadLock, WriteLock, Acquire, Unlock, ReadLoad, ReadCas,
      WriteCas, ReadUnlock, WriteUnlock, Go, GilInv, GilTypes
  <2>3. CASE v = u
    <3>1. pc[u] = "write_cas"
      BY <1>2, <1>6, <2>3 DEF Calls, Runs, InLock
    <3>2. WriteCas(u) /\ callback' = callback
      BY <1>6, <2>3, <3>1 DEF Calls, Runs, ReadLock, WriteLock, Acquire, Unlock, ReadLoad, ReadCas,
        ReadUnlock, WriteUnlock, Go
    <3>3. pc' = [pc EXCEPT ![u] = "write_cas"]
      BY <1>3, <3>2 DEF WriteCas, Go
    <3>4. QED
      BY <1>1, <1>4, <2>1, <3>1, <3>2, <3>3 DEF GilInv, GilTypes
  <2>4. CASE v # u
    BY <1>1, <1>4, <2>1, <2>2, <2>4 DEF GilInv, GilTypes
  <2>5. QED
    BY <2>3, <2>4
<1>7. ASSUME NEW v \in Thread, CallBack(v) \/ CallBackReturns(v) \/ Reenters(v)
      PROVE  Deadlocked(p)' /\ Writers' = {}
  <2>1. v # t /\ v # u
    BY <1>1, <1>2, <1>7 DEF CallBack, CallBackReturns, Reenters, Continues, HasGil
  <2>2. /\ UNCHANGED <<pc, alive, process, gil>>
        /\ callback'[t] = callback[t] /\ callback'[u] = callback[u]
    BY <1>7, <2>1 DEF CallBack, CallBackReturns, Reenters, Continues, vars, GilInv, GilTypes
  <2>3. QED
    BY <1>1, <1>4, <2>2
<1>8. ASSUME NEW v \in Thread, GilMap(v)
      PROVE  FALSE
  BY <1>3, <1>8 DEF GilMap, Map
<1>9. ASSUME NEW q \in Proc, Kill(q)
      PROVE  \/ Deadlocked(p)' /\ Writers' = {}
             \/ \A v \in Thread : process[v] = p => ~alive'[v]
  <2>1. CASE q = p
    BY <1>9, <2>1 DEF Kill
  <2>2. CASE q # p
    <3>1. alive'[t] /\ gil'[p] = u /\ UNCHANGED <<pc, process, callback>>
      BY <1>1, <1>9, <2>2 DEF Kill, GilInv, GilTypes
    <3>2. QED
      BY <1>4, <3>1
  <2>3. QED
    BY <2>1, <2>2
<1>10. CASE UNCHANGED gilVars
  BY <1>1, <1>4, <1>10 DEF gilVars, vars
<1>11. CASE \E v \in Thread : SpinsOnItself(v)
  BY <1>10, <1>11 DEF SpinsOnItself
<1>12. QED
  BY <1>5, <1>6, <1>7, <1>8, <1>9, <1>10, <1>11 DEF GilNext

\* Once Python code under the read lock waits for itself, or for a GIL whose owner
\* waits for the write lock, only a kill of the process ends it, and until then no
\* process writes (src/mixed.rs, extract of a count; src/rwlock.rs, write_lock).
THEOREM DeadlockIsForEver ==
  ASSUME WhileHeld = FALSE
  PROVE  GilSpec => DeadlockLasts
<1> DEFINE Lasts == \A p \in Proc : Deadlocked(p) =>
      \/ Deadlocked(p)' /\ Writers' = {}
      \/ \A t \in Thread : process[t] = p => ~alive'[t]
<1>1. IInv /\ IInv' /\ GilInv /\ [GilNext]_gilVars => [Lasts]_gilVars
  BY DeadlockedStep
<1>2. IInv /\ [GilNext]_gilVars => IInv'
  BY GilNextIInv
<1>3. GilInv /\ [GilNext]_gilVars => GilInv'
  BY NextGilInv
<1>4. GilInit => IInv
  BY InitIInv DEF GilInit
<1>5. QED
  BY InitGilInv, <1>1, <1>2, <1>3, <1>4, PTL DEF GilSpec, DeadlockLasts

=============================================================================
