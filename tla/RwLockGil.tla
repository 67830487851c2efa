------------------------------ MODULE RwLockGil ------------------------------
(***************************************************************************)
(* The lock of RwLock.tla between Python processes: a thread makes a call    *)
(* with the interpreter lock (GIL) of its process, and no method of          *)
(* MappedView gives it back, not while it spins and not while it copies.     *)
(*                                                                          *)
(* The one way out of a call is read_mixed: the count of a schema entry is   *)
(* extracted through __index__, which may be Python code.  It runs with the  *)
(* read lock held, other threads may get the GIL meanwhile, and it may call  *)
(* a method of the same view itself.                                        *)
(*                                                                          *)
(* Killing a process kills all its threads.  map() on a creator handle is    *)
(* the one of RwLockRemap.tla.  Without a GIL (free-threaded Python) every    *)
(* thread would be a process of its own here.                               *)
(***************************************************************************)
EXTENDS RwLockRemap

CONSTANTS
  Proc,     \* the processes
  Layouts,  \* which thread may belong to which process: functions on Thread
  Callers   \* the threads that may read with a count that is Python code

Nobody == "nobody"
ASSUME ProcessAssumption ==
  Layouts \subseteq [Thread -> Proc] /\ Callers \subseteq Thread /\ Nobody \notin Thread

VARIABLES
  process,  \* process[t]: the process of t, the same for ever
  gil,      \* gil[p]: the thread of p that has its interpreter lock
  callback  \* callback[t]: the Python code that a call of t runs

gilVars == <<vars, process, gil, callback>>

GilInit ==
  /\ Init
  /\ process \in Layouts
  /\ gil \in {g \in [Proc -> Thread \cup {Nobody}] : \A p \in Proc :
               IF g[p] = Nobody THEN \A t \in Thread : process[t] # p ELSE process[g[p]] = p}
  /\ callback = [t \in Thread |-> "none"]

HasGil(t) == alive[t] /\ gil[process[t]] = t

-----------------------------------------------------------------------------
(* The interpreter.                                                         *)

\* A thread can be switched out between two bytecodes: outside of calls, or in the
\* Python code that a call runs.
Switchable(u) == pc[u] = "idle" \/ callback[u] = "running"

TakeGilAnywhere(t) ==
  /\ alive[t] /\ ~HasGil(t)
  /\ gil' = [gil EXCEPT ![process[t]] = t]
  /\ UNCHANGED <<vars, process, callback>>

\* t gets the GIL of its process, which another thread gives up.
TakeGil(t) ==
  /\ alive[t] /\ ~HasGil(t) /\ Switchable(gil[process[t]])
  /\ gil' = [gil EXCEPT ![process[t]] = t]
  /\ UNCHANGED <<vars, process, callback>>

\* A step in the lock's code: the thread has the GIL, and no Python code of its own
\* on top.  Calls begins a call, Runs is the rest of it.
InLock(t) == HasGil(t) /\ callback[t] \in {"none", "returned"} /\ UNCHANGED <<process, gil>>
Calls(t) == InLock(t) /\ (ReadLock(t) \/ WriteLock(t)) /\ UNCHANGED callback
Runs(t) ==
  /\ InLock(t)
  /\ \/ Acquire(t) /\ UNCHANGED callback
     \/ Unlock(t) /\ callback' = [callback EXCEPT ![t] = "none"]

GilMap(t) ==
  /\ HasGil(t)
  /\ Map(t)
  /\ UNCHANGED <<process, gil, callback>>

-----------------------------------------------------------------------------
(* Python code under the read lock.                                         *)

Continues(t, from, to) ==
  /\ HasGil(t) /\ callback[t] = from
  /\ callback' = [callback EXCEPT ![t] = to]

\* read_mixed extracts a count; one count of a schema is Python code here.
CallBack(t) ==
  /\ t \in Callers /\ pc[t] = "reading" /\ Continues(t, "none", "running")
  /\ UNCHANGED <<vars, process, gil>>

CallBackReturns(t) ==
  /\ Continues(t, "running", "returned")
  /\ UNCHANGED <<vars, process, gil>>

\* The code calls write or zero on the view that is reading ...  (A read or read_mixed
\* there is a second hold of the same thread, gone when the code goes on; it blocks
\* whom the first one blocks, and MappedView.tla has its effect on the cursor.)
Reenters(t) ==
  /\ Continues(t, "running", "spinning")
  /\ UNCHANGED <<vars, process, gil>>

\* ... and write_lock spins, because the word counts the reader that waits for it.
SpinsOnItself(t) ==
  /\ HasGil(t) /\ callback[t] = "spinning" /\ state # 0
  /\ UNCHANGED gilVars

\* The process of t is killed.
Kill(p) ==
  /\ \E t \in Thread : process[t] = p /\ alive[t]
  /\ alive' = [t \in Thread |-> alive[t] /\ process[t] # p]
  /\ gil' = [gil EXCEPT ![p] = Nobody]
  /\ UNCHANGED <<state, pc, cur, process, callback>>

GilNext ==
  \/ \E t \in Thread :
       \/ TakeGil(t) \/ Calls(t) \/ Runs(t) \/ GilMap(t)
       \/ CallBack(t) \/ CallBackReturns(t) \/ Reenters(t) \/ SpinsOnItself(t)
  \/ \E p \in Proc : Kill(p)

GilSpec == GilInit /\ [][GilNext]_gilVars

\* A thread inside a call keeps executing; the interpreter passes the GIL round
\* among the threads that ask for it; the Python code that a call runs comes to an
\* end, or to the call that it never comes back from.  And somebody maps a creator
\* handle, if that can be done again and again.
GilFairness ==
  /\ \A t \in Thread :
       /\ WF_gilVars(Runs(t))
       /\ SF_gilVars(TakeGil(t))
       /\ SF_gilVars(CallBackReturns(t) \/ Reenters(t))
  /\ SF_gilVars(\E t \in Thread : GilMap(t))

FairGilSpec == GilSpec /\ GilFairness

-----------------------------------------------------------------------------
(* Properties.                                                              *)

\* What a reader in Python code waits for in vain: itself, or the GIL that a thread of
\* its process keeps while it spins (for the write lock, or for the read lock when
\* others change the word each time it looks).
Spins(u) == HasGil(u) /\ (Waiting(u) \/ callback[u] = "spinning")
Stuck(t) ==
  /\ callback[t] \in {"running", "spinning"}
  /\ \E u \in Thread : process[u] = process[t] /\ Spins(u)

\* Guards are released: every call that got the lock gives it back unless its process is
\* killed, and only a read_mixed that runs Python code can be stuck for ever.
HoldersLeave ==
  \A t \in Thread :
    alive[t] /\ Holding(t) ~> ~alive[t] \/ ~Holding(t) \/ []Stuck(t)

\* Process p has deadlocked: one of its threads reads and is in Python code, and the
\* thread that has the GIL (the reader itself or another one) spins for the write lock.
Deadlocked(p) ==
  \E t \in Thread :
    /\ process[t] = p /\ alive[t] /\ pc[t] = "reading" /\ callback[t] \in {"running", "spinning"}
    /\ \E u \in Thread : gil[p] = u /\ (pc[u] = "write_cas" \/ callback[u] = "spinning")

\* Nothing ends that deadlock short of a kill of the process, whatever its other
\* threads and the other processes do: read, leave, map, or die.  And as long as it
\* lasts nobody in any process writes.
DeadlockLasts ==
  [][\A p \in Proc : Deadlocked(p) =>
       \/ Deadlocked(p)' /\ Writers' = {}
       \/ \A t \in Thread : process[t] = p => ~alive'[t]]_gilVars

\* A lock left behind by a killed holder is usable again once a creator handle
\* has been mapped with no live holder.  The GIL makes that harder than it looks: a
\* process with a thread that spins cannot map anything, so it must be another one.
MapRecoversLock ==
  (\E t \in Thread : Blocked(t)) ~>
     \/ LiveHolders # {}
     \/ \A t \in Thread : ~Blocked(t)
     \/ \A t \in Thread : alive[t] => \E u \in Thread : process[u] = process[t] /\ Blocked(u)

=============================================================================
