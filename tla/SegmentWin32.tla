----------------------------- MODULE SegmentWin32 -----------------------------
(***************************************************************************)
(* SharedMemory.tla on Windows (src/platform/win32.rs).  create and open are *)
(* one kernel call each.  CreateFileMapping takes an object that the name    *)
(* leads to as it is, with the size it has; OpenFileMapping does not tell    *)
(* the size, so open believes its caller.  MapViewOfFile refuses to map more *)
(* than the object's pages, and for 0 bytes maps all of it.                 *)
(*                                                                          *)
(* An object lives as long as there are handles on it or mappings of it.     *)
(* Its name is safe as long as there are handles; with mappings alone the    *)
(* kernel may drop it or not, and both are modelled.                        *)
(***************************************************************************)
EXTENDS SharedMemory

CONSTANT PAGE  \* bytes of a page

ASSUME PageAssumption == PAGE \in Nat \ {0}

Init == ShmInit

Pages(n) == ((n + PAGE - 1) \div PAGE) * PAGE

\* The object that a kernel call finds by the name.
Handles(o) == {p \in Proc : handle[p].obj = o}
Lives(o) == Handles(o) # {} \/ \E p \in Proc : \E m \in Mappings(p) : m.obj = o
Found == IF Lives(link) THEN link ELSE NoObject

NameDropped ==
  /\ link # NoObject /\ Handles(link) = {}
  /\ link' = NoObject
  /\ UNCHANGED <<made, size, cap, handle, mapped>>

-----------------------------------------------------------------------------

CallRefused == Refused

\* create: the handle has the size of the call, whatever the object's is, and is a
\* creator's in both cases.
Create(p, n) ==
  /\ handle[p] = None /\ n > 0
  /\ \/ /\ Found # NoObject /\ (AgreedSize => n = size[Found])
        /\ Returns(p, Handle(Found, n, TRUE))
        /\ UNCHANGED kernel
     \/ /\ Found = NoObject /\ made < MaxObjects
        /\ made' = made + 1 /\ link' = made + 1
        /\ size' = [size EXCEPT ![made + 1] = n]
        /\ Returns(p, Handle(made + 1, n, TRUE))
  /\ UNCHANGED <<cap, mapped>>

\* open: any size.
Open(p, n) ==
  /\ handle[p] = None
  /\ \/ Found # NoObject /\ Returns(p, Handle(Found, n, FALSE))
     \/ Found = NoObject /\ Returns(p, None)
  /\ UNCHANGED <<kernel, cap, mapped>>

RemoveUnlinks ==
  /\ link' = NoObject
  /\ UNCHANGED <<made, size, cap, handle, mapped>>

\* remove does nothing.
Remove == UNCHANGED shmVars

\* Bound: a process has a view or a ring, not both.
Unmapped(p) == view[p] = None /\ ring[p] = None

\* map with 0 in place of the size: the kernel maps all that there is.
MapsWhole(p) == Unmapped(p) /\ handle[p] # None

\* p calls map or spsc, and MapViewOfFile grants what the handle asks for.
Maps(p) ==
  /\ Unmapped(p) /\ handle[p] # None
  /\ handle[p].size <= Pages(size[handle[p].obj])

Map(p) == Maps(p) /\ ViewNew(p)
Spsc(p) == Maps(p) /\ RingNew(p)

DropHandle(p) == HandleDropped(p)
DropView(p) == ViewDropped(p)
DropRing(p) == RingDropped(p)
Exit(p) == ProcessEnds(p)

Next ==
  \/ NameDropped \/ CallRefused \/ Remove
  \/ \E p \in Proc :
       \/ \E n \in Sizes : Create(p, n) \/ Open(p, n)
       \/ Map(p) \/ Spsc(p)
       \/ DropHandle(p) \/ DropView(p) \/ DropRing(p) \/ Exit(p)

Spec == Init /\ [][Next]_shmVars

-----------------------------------------------------------------------------
(* Properties.                                                              *)

\* Type invariant.
TypeOK == ShmTypeOK

\* Whatever sizes the creators of a segment ask for and in which order they call spsc,
\* the capacity that is in it never reaches beyond its last page: push and pop, which
\* take the capacity from there, stay in the object.  (They need not stay in their own
\* mapping: open must be given the size of the creation, and nobody checks that.)
RingFitsPages ==
  \A o \in Object : cap[o] # 0 => SPSC_HEADER_SIZE + cap[o] <= Pages(size[o])

\* As long as somebody keeps a handle the name leads to one object: nobody can end
\* up with another segment of that name by create, open or remove.  (Somebody who
\* keeps only a view or a ring can be left alone with it.)
OneSegmentPerName ==
  \A p, q \in Proc :
    handle[p] # None /\ handle[q] # None => handle[p].obj = handle[q].obj

=============================================================================
