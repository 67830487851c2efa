------------------------------- MODULE Segment -------------------------------
(***************************************************************************)
(* SharedMemory.tla on Unix (src/platform/unix.rs).  create is shm_open and  *)
(* then ftruncate, open is shm_open and then fstat: two steps each, and the  *)
(* other processes run between them.  Kernel calls may fail.                *)
(***************************************************************************)
EXTENDS SharedMemory

VARIABLES
  asked,    \* asked[o]: the size its first creator asked for
  pc,       \* where p stands in create or open
  at,       \* at[p]: the locals of that call
  panicked  \* the processes in which a call has panicked

vars == <<shmVars, asked, pc, at, panicked>>

Init ==
  /\ ShmInit
  /\ asked = [o \in Object |-> 0]
  /\ pc = [p \in Proc |-> "idle"]
  /\ at = [p \in Proc |-> None]
  /\ panicked = {}

-----------------------------------------------------------------------------
(* Names and handles.                                                       *)

\* p is in no call; what it does now is one step.
Idle(p) == pc[p] = "idle" /\ UNCHANGED <<asked, pc, at, panicked>>

\* A call is over.
Ends(p, h) ==
  /\ pc' = [pc EXCEPT ![p] = "idle"]
  /\ at' = [at EXCEPT ![p] = None]
  /\ Returns(p, h)
  /\ UNCHANGED panicked

Enters(p, step, h) ==
  /\ pc' = [pc EXCEPT ![p] = step]
  /\ at' = [at EXCEPT ![p] = h]
  /\ UNCHANGED <<handle, panicked>>

CallRefused(p) == Idle(p) /\ Refused

CreateTruncates(p, n) ==
  /\ pc[p] = "idle" /\ handle[p] = None /\ n > 0
  /\ \/ /\ link # NoObject /\ (AgreedSize => n = asked[link])
        /\ Enters(p, "truncate", Handle(link, n, TRUE))
        /\ size' = [size EXCEPT ![link] = 0]
        /\ cap' = [cap EXCEPT ![link] = 0]
        /\ UNCHANGED <<link, made, asked>>
     \/ /\ link = NoObject /\ made < MaxObjects
        /\ made' = made + 1 /\ link' = made + 1
        /\ asked' = [asked EXCEPT ![made + 1] = n]
        /\ Enters(p, "truncate", Handle(made + 1, n, TRUE))
        /\ UNCHANGED <<size, cap>>
  /\ UNCHANGED mapped

\* create: shm_open(O_CREAT | O_RDWR), without O_EXCL, so an object that the name
\* leads to is taken as it is.  A new object has size 0.
Create(p, n) ==
  /\ pc[p] = "idle" /\ handle[p] = None /\ n > 0
  /\ \/ /\ link # NoObject /\ (AgreedSize => n = asked[link])
        /\ Enters(p, "truncate", Handle(link, n, TRUE))
        /\ UNCHANGED <<kernel, asked>>
     \/ /\ link = NoObject /\ made < MaxObjects
        /\ made' = made + 1 /\ link' = made + 1
        /\ asked' = [asked EXCEPT ![made + 1] = n]
        /\ Enters(p, "truncate", Handle(made + 1, n, TRUE))
        /\ UNCHANGED size
  /\ UNCHANGED <<cap, mapped>>

\* ftruncate, of an object that others may have mapped.  What it cuts off is
\* zero if it ever grows back.
CreateTruncate(p) ==
  /\ pc[p] = "truncate"
  /\ LET h == at[p] IN
     /\ size' = [size EXCEPT ![h.obj] = h.size]
     /\ cap' = [cap EXCEPT ![h.obj] = IF h.size < SPSC_HEADER_SIZE THEN 0 ELSE @]
     /\ Ends(p, h)
  /\ UNCHANGED <<link, made, asked, mapped>>

\* ftruncate fails ...
CreateFails(p) ==
  /\ pc[p] = "truncate"
  /\ Enters(p, "unlink", None)
  /\ UNCHANGED <<kernel, asked, cap, mapped>>

\* ... and create unlinks the name, whatever it leads to by now.
CreateUnlinks(p) ==
  /\ pc[p] = "unlink"
  /\ link' = NoObject
  /\ Ends(p, None)
  /\ UNCHANGED <<made, size, asked, cap, mapped>>

Open(p) ==
  /\ pc[p] = "idle" /\ handle[p] = None
  /\ \/ link # NoObject /\ Enters(p, "fstat", Handle(link, 0, FALSE))
     \/ link = NoObject /\ Ends(p, None)
  /\ UNCHANGED <<kernel, asked, cap, mapped>>

OpenTrustsCaller(p) ==
  /\ pc[p] = "fstat"
  /\ LET o == at[p].obj IN Ends(p, Handle(o, asked[o], FALSE))
  /\ UNCHANGED <<kernel, asked, cap, mapped>>

OpenStatInPages(p) ==
  /\ pc[p] = "fstat"
  /\ LET o == at[p].obj IN
     \/ Ends(p, Handle(o, 2 * ((size[o] + 1) \div 2), FALSE))
     \/ Ends(p, None)
  /\ UNCHANGED <<kernel, asked, cap, mapped>>

\* fstat: the size it finds is the handle's from now on.
OpenStat(p) ==
  /\ pc[p] = "fstat"
  /\ LET o == at[p].obj IN
     \/ Ends(p, Handle(o, size[o], FALSE))
     \/ Ends(p, None)
  /\ UNCHANGED <<kernel, asked, cap, mapped>>

\* remove: shm_unlink.
Remove(p) ==
  /\ Idle(p)
  /\ link' = NoObject
  /\ UNCHANGED <<made, size, cap, handle, mapped>>

-----------------------------------------------------------------------------
(* Mappings.  No kernel call here looks at the object's size.               *)

\* p calls map or spsc.
Maps(p) == Idle(p) /\ handle[p] # None /\ handle[p].size > 0

\* NonZeroUsize::new(0).unwrap(): a handle opened before the creator's ftruncate.
MapPanics(p) ==
  /\ pc[p] = "idle" /\ handle[p] # None /\ handle[p].size = 0
  /\ panicked' = panicked \cup {p}
  /\ UNCHANGED <<shmVars, asked, pc, at>>

MmapFails(p) == Maps(p) /\ Refused
Map(p) == Maps(p) /\ ViewNew(p)
Spsc(p) == Maps(p) /\ RingNew(p)

DropHandle(p) == Idle(p) /\ HandleDropped(p)
DropView(p) == Idle(p) /\ ViewDropped(p)
DropRing(p) == Idle(p) /\ RingDropped(p)

\* Killed anywhere; the objects and the name stay.
Exit(p) ==
  /\ ProcessEnds(p)
  /\ pc' = [pc EXCEPT ![p] = "idle"]
  /\ at' = [at EXCEPT ![p] = None]
  /\ panicked' = panicked \ {p}
  /\ UNCHANGED asked

Next ==
  \E p \in Proc :
    \/ \E n \in Sizes : Create(p, n)
    \/ CallRefused(p) \/ CreateTruncate(p) \/ CreateFails(p) \/ CreateUnlinks(p)
    \/ Open(p) \/ OpenStat(p) \/ Remove(p)
    \/ MapPanics(p) \/ MmapFails(p) \/ Map(p) \/ Spsc(p)
    \/ DropHandle(p) \/ DropView(p) \/ DropRing(p) \/ Exit(p)

Spec == Init /\ [][Next]_vars

-----------------------------------------------------------------------------
(* Properties.                                                              *)

\* Type invariant.
TypeOK ==
  /\ ShmTypeOK
  /\ asked \in [Object -> Nat]
  /\ pc \in [Proc -> {"idle", "truncate", "unlink", "fstat"}]
  /\ at \in [Proc -> {None} \cup HandleType]
  /\ \A p \in Proc : \A m \in Mappings(p) : m.len # 0
  /\ panicked \subseteq Proc

\* Every byte of every mapping is there ("valid mapped region of size map_size"):
\* no process maps more than the object has, however stale the size in its handle,
\* and no object shrinks under a mapping.  An access beyond the object kills the
\* process that makes it.
MappingsAreBacked ==
  \A p \in Proc : \A m \in Mappings(p) : m.len <= size[m.obj]

\* Two views of one object have the same data_size, so that an offset that one side
\* writes at is one the other can read at.
ViewsAgree ==
  \A p, q \in Proc :
    view[p] # None /\ view[q] # None /\ view[p].obj = view[q].obj => view[p].len = view[q].len

\* map and spsc raise documented errors; they do not panic.
MapRaises == panicked = {}

=============================================================================
