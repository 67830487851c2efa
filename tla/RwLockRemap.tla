----------------------------- MODULE RwLockRemap -----------------------------
(***************************************************************************)
(* The lock of RwLock.tla together with SharedMemory::map() on a creator    *)
(* handle.  Every such call makes a new MappedView, and MappedView::new     *)
(* stores 0 into the lock word (ShmRwLock::init), whoever is inside.        *)
(* A handle is a creator's when it came from SharedMemory::create, which    *)
(* also succeeds on a name that exists, so the call can come from any live  *)
(* process and any number of times.                                         *)
(*                                                                          *)
(* The program counter of a killed thread only records what its process     *)
(* held; the store of 0 wipes that, so the counter goes back to "idle".     *)
(***************************************************************************)
EXTENDS RwLock

CONSTANT WhileHeld  \* BOOLEAN: may map() be called while a live thread holds the lock?

ASSUME WhileHeldAssumption == WhileHeld \in BOOLEAN

LiveHolders == {t \in Thread : alive[t] /\ Holding(t)}

\* init() that keeps what it finds in the segment.
MapNoInit(t) ==
  /\ alive[t] /\ pc[t] = "idle"
  /\ WhileHeld \/ LiveHolders = {}
  /\ UNCHANGED vars

\* SharedMemory::map() by thread t on a creator handle.
Map(t) ==
  /\ alive[t] /\ pc[t] = "idle"
  /\ WhileHeld \/ LiveHolders = {}
  /\ state' = 0
  /\ pc' = [u \in Thread |-> IF alive[u] THEN pc[u] ELSE "idle"]
  /\ UNCHANGED <<cur, alive>>

MapNext == Next \/ \E t \in Thread : Map(t)

RemapSpec == Init /\ [][MapNext]_vars /\ Fairness

Blocked(t) == alive[t] /\ Waiting(t)

=============================================================================
