----------------------------- MODULE SharedMemory -----------------------------
(***************************************************************************)
(* The part of SharedMemory (src/shared_memory.rs) that is the same on every *)
(* platform: one name, the shared memory objects it has led to, and what     *)
(* processes have of them: a handle, a MappedView, an SpscRingBuffer.  How a *)
(* handle is made, and when the kernel grants a mapping, is in Segment.tla   *)
(* (Unix) and SegmentWin32.tla.                                             *)
(*                                                                          *)
(* A process keeps at most one handle, one view and one ring here; each      *)
(* comes and goes by itself.  What is in the memory is reduced to the        *)
(* capacity field of a ring; the lock word is in RwLockRemap.tla, the rest   *)
(* in the modules of its users.                                             *)
(***************************************************************************)
EXTENDS Integers, FiniteSets

CONSTANTS
  Proc,             \* processes
  Sizes,            \* the sizes callers pass to create, and on Windows to open
  RWLOCK_SIZE,      \* bytes of the lock header
  SPSC_HEADER_SIZE, \* bytes of the ring header
  AgreedSize,       \* BOOLEAN: do all creators of a segment ask for one size?
  MaxObjects,       \* bound: shared memory objects made in a behaviour
  MaxLost           \* bound: mappings that one process has lost

ASSUME SizeAssumption ==
  /\ Sizes \subseteq Nat
  /\ RWLOCK_SIZE \in Nat \ {0} /\ SPSC_HEADER_SIZE \in Nat \ {0}
ASSUME BoundAssumption == AgreedSize \in BOOLEAN /\ MaxObjects \in Nat /\ MaxLost \in Nat

Object == 1 .. MaxObjects
NoObject == 0
None == [obj |-> NoObject]

VARIABLES
  link,     \* the object the name leads to
  made,     \* objects made so far
  size,     \* size[o]: its size
  cap,      \* cap[o]: the capacity field of the ring in it
  handle,   \* handle[p]: its SharedMemory
  view,     \* view[p]: the mapping of its MappedView
  ring,     \* ring[p]: the mapping of its SpscRingBuffer
  lost      \* lost[p]: mappings nothing in p refers to

kernel == <<link, made, size>>
mapped == <<view, ring, lost>>
shmVars == <<kernel, cap, handle, mapped>>

Handle(o, n, creator) == [obj |-> o, size |-> n, creator |-> creator]
Mapping(h) == [obj |-> h.obj, len |-> h.size]
Mappings(p) == ({view[p], ring[p]} \ {None}) \cup lost[p]

ShmInit ==
  /\ link = NoObject /\ made = 0
  /\ size = [o \in Object |-> 0]
  /\ cap = [o \in Object |-> 0]
  /\ handle = [p \in Proc |-> None]
  /\ view = [p \in Proc |-> None]
  /\ ring = [p \in Proc |-> None]
  /\ lost = [p \in Proc |-> {}]

\* A call hands its caller the handle it made, or none.
Returns(p, h) == handle' = [handle EXCEPT ![p] = h]

\* create, open or remove with a bad name, create with size 0, open without a size on
\* Windows, a mapping that the kernel refuses, or another of its errors: an exception,
\* and nothing else.
Refused == UNCHANGED shmVars

-----------------------------------------------------------------------------
(* Once the kernel has granted a mapping as long as the handle's size.       *)

Lose(p, m) ==
  /\ lost' = [lost EXCEPT ![p] = @ \cup {m}]
  /\ Cardinality(lost'[p]) <= MaxLost

\* map: MappedView::new, which fails without giving the mapping back.
ViewNew(p) ==
  /\ LET m == Mapping(handle[p]) IN
     \/ /\ m.len > RWLOCK_SIZE /\ view[p] = None
        /\ view' = [view EXCEPT ![p] = m]
        /\ UNCHANGED lost
     \/ /\ m.len <= RWLOCK_SIZE
        /\ Lose(p, m)
        /\ UNCHANGED view
  /\ UNCHANGED <<kernel, cap, handle, ring>>

IsPowerOfTwo(n) == \E k \in 0 .. n : n = 2 ^ k
RingCapacityWhole(len) == len
RingCapacity(len) == len - SPSC_HEADER_SIZE

\* spsc: SpscRingBuffer::new, which also fails without giving the mapping back.  Its
\* three stores to the header are one step here.
RingNew(p) ==
  /\ LET h == handle[p]
         m == Mapping(h)
         c == RingCapacity(h.size)
         fits == h.size > SPSC_HEADER_SIZE /\ (h.creator => IsPowerOfTwo(c))
     IN
     \/ /\ fits /\ ring[p] = None
        /\ ring' = [ring EXCEPT ![p] = m]
        /\ cap' = IF h.creator THEN [cap EXCEPT ![h.obj] = c] ELSE cap
        /\ UNCHANGED lost
     \/ /\ ~fits
        /\ Lose(p, m)
        /\ UNCHANGED <<cap, ring>>
  /\ UNCHANGED <<kernel, handle, view>>

\* The SharedMemory object goes: its descriptor is closed.
HandleDropped(p) ==
  /\ handle[p] # None
  /\ handle' = [handle EXCEPT ![p] = None]
  /\ UNCHANGED <<kernel, cap, mapped>>

\* The MappedView goes: it is unmapped.
ViewDropped(p) ==
  /\ view[p] # None
  /\ view' = [view EXCEPT ![p] = None]
  /\ UNCHANGED <<kernel, cap, handle, ring, lost>>

\* The SpscRingBuffer goes: it has no Drop, and its mapping stays.
RingDropped(p) ==
  /\ ring[p] # None
  /\ ring' = [ring EXCEPT ![p] = None]
  /\ Lose(p, ring[p])
  /\ UNCHANGED <<kernel, cap, handle, view>>

\* The process ends or is killed, and another one takes its place: the kernel closes
\* and unmaps what it had.
ProcessEnds(p) ==
  /\ Returns(p, None)
  /\ view' = [view EXCEPT ![p] = None]
  /\ ring' = [ring EXCEPT ![p] = None]
  /\ lost' = [lost EXCEPT ![p] = {}]
  /\ UNCHANGED <<kernel, cap>>

-----------------------------------------------------------------------------
(* Properties.                                                              *)

HandleType == [obj : Object, size : Nat, creator : BOOLEAN]
MappingType == [obj : Object, len : Nat]

\* Types; a creator's handle has the size that its caller gave.
ShmTypeOK ==
  /\ made \in 0 .. MaxObjects /\ link \in 0 .. made
  /\ size \in [Object -> Nat] /\ cap \in [Object -> Nat]
  /\ handle \in [Proc -> {None} \cup HandleType]
  /\ \A p \in Proc : handle[p] # None /\ handle[p].creator => handle[p].size \in Sizes \ {0}
  /\ view \in [Proc -> {None} \cup MappingType]
  /\ ring \in [Proc -> {None} \cup MappingType]
  /\ lost \in [Proc -> SUBSET MappingType]

\* push and pop take the capacity from the segment, not from their mapping: what
\* the last creator wrote there fits what each process has mapped.
RingFitsMapping ==
  \A p \in Proc : ring[p] # None => SPSC_HEADER_SIZE + cap[ring[p].obj] <= ring[p].len

\* The capacity is written once and then read-only: no later creator changes it under
\* a ring, and nothing else does.
CapacityIsConstant ==
  [][\A o \in Object : cap[o] # 0 => cap'[o] = cap[o]]_shmVars

=============================================================================
