-------------------------- MODULE SegmentWin32Proofs --------------------------
(***************************************************************************)
(* The properties of SegmentWin32.tla for any processes, sizes, pages and     *)
(* number of objects.  What holds them together: every handle is on the       *)
(* object that the name leads to (NameKept), so a new object can only be made *)
(* when there is no handle at all.                                          *)
(***************************************************************************)
EXTENDS SegmentWin32, TLAPS

NameKept == \A p \in Proc : handle[p] # None => handle[p].obj = link
CreatorsAgree ==
  AgreedSize => \A p \in Proc :
    handle[p] # None /\ handle[p].creator => handle[p].size = size[handle[p].obj]
CapacityOfSize ==
  \A o \in Object : cap[o] # 0 =>
    /\ o <= made /\ (AgreedSize => cap[o] = RingCapacity(size[o]))
    /\ SPSC_HEADER_SIZE + cap[o] <= Pages(size[o])

\* The inductive invariant.
IInv ==
  /\ TypeOK /\ NameKept /\ CreatorsAgree /\ CapacityOfSize

-----------------------------------------------------------------------------

\* A handle or a mapping is None if and only if it is on no object.
LEMMA NoneIsNoObject ==
  /\ None.obj = 0
  /\ \A h \in {None} \cup HandleType : h # None => h \in HandleType /\ h.obj \in Object
  /\ \A m \in {None} \cup MappingType : m # None => m \in MappingType /\ m.obj \in Object
  /\ \A o \in Object : o # 0 /\ o \in Nat /\ o <= MaxObjects
BY BoundAssumption DEF None, NoObject, HandleType, MappingType, Object

\* A handle is made, and it is on the object of the name.
LEMMA HandleMade ==
  ASSUME NEW o \in Object, NEW n \in Nat, NEW c \in BOOLEAN
  PROVE  /\ Handle(o, n, c) \in HandleType /\ Handle(o, n, c) # None
         /\ Handle(o, n, c).obj = o /\ Handle(o, n, c).size = n /\ Handle(o, n, c).creator = c
BY NoneIsNoObject DEF Handle, HandleType

LEMMA MappingMade ==
  ASSUME NEW h \in HandleType
  PROVE  /\ Mapping(h) \in MappingType /\ Mapping(h) # None
         /\ Mapping(h).obj = h.obj /\ Mapping(h).len = h.size
BY NoneIsNoObject DEF Mapping, HandleType, MappingType

-----------------------------------------------------------------------------

LEMMA InitIInv == Init => IInv
BY BoundAssumption
   DEF Init, ShmInit, IInv, TypeOK, ShmTypeOK, NameKept, CreatorsAgree, CapacityOfSize, Object, None, NoObject

\* Without a handle on the name's object there is no handle.
LEMMA NoHandles ==
  ASSUME IInv, Handles(link) = {}
  PROVE  \A p \in Proc : handle[p] = None
BY DEF IInv, NameKept, Handles

\* A kernel call that finds nothing by the name: the name has no handle on it.
LEMMA NothingFound ==
  ASSUME IInv, Found = NoObject
  PROVE  \A p \in Proc : handle[p] = None
<1>1. CASE Handles(link) = {}
  BY <1>1, NoHandles
<1>2. CASE Handles(link) # {}
  <2>1. link = NoObject
    BY <1>2 DEF Found, Lives
  <2>2. QED
    BY <2>1, NoneIsNoObject DEF IInv, NameKept, TypeOK, ShmTypeOK, NoObject
<1>3. QED
  BY <1>1, <1>2

LEMMA NextIInv == ASSUME IInv, [Next]_shmVars PROVE IInv'
<1> USE BoundAssumption, SizeAssumption DEF TypeOK
<1>1. CASE UNCHANGED shmVars
  BY <1>1 DEF IInv, ShmTypeOK, NameKept, CreatorsAgree,
     CapacityOfSize, shmVars, kernel, mapped
<1>2. CASE NameDropped
  <2>1. \A p \in Proc : handle[p] = None
    BY <1>2, NoHandles DEF NameDropped
  <2>2. QED
    BY <1>2, <2>1 DEF NameDropped, IInv, ShmTypeOK, NameKept, CreatorsAgree, CapacityOfSize, NoObject, mapped
<1>3. ASSUME NEW p \in Proc, NEW n \in Sizes, Create(p, n) PROVE IInv'
  <2>1. CASE UNCHANGED kernel /\ Found # NoObject /\ (AgreedSize => n = size[Found])
             /\ Returns(p, Handle(Found, n, TRUE))
    <3>1. Found = link /\ link \in Object /\ n \in Nat \ {0}
      BY <1>3, <2>1 DEF Found, Create, IInv, ShmTypeOK, Object, NoObject
    <3> DEFINE h == Handle(link, n, TRUE)
    <3>2. /\ h \in HandleType /\ h # None /\ h.obj = link /\ h.size = n
          /\ AgreedSize => h.size = size[link]
      <4>1. n \in Nat /\ TRUE \in BOOLEAN
        BY <3>1
      <4>2. /\ Handle(link, n, TRUE) \in HandleType /\ Handle(link, n, TRUE) # None
            /\ Handle(link, n, TRUE).obj = link /\ Handle(link, n, TRUE).size = n
        BY <3>1, <4>1, HandleMade
      <4>3. AgreedSize => n = size[link]
        BY <2>1, <3>1
      <4>4. QED
        BY <4>2, <4>3
    <3>3. /\ handle' = [handle EXCEPT ![p] = h]
          /\ UNCHANGED <<link, made, size, cap, view, ring, lost>>
      BY <1>3, <2>1, <3>1 DEF Create, Returns, kernel, mapped
    <3> HIDE DEF h
    <3>4. ShmTypeOK'
      BY <3>1, <3>2, <3>3 DEF IInv, ShmTypeOK
    <3>5. NameKept' /\ CreatorsAgree'
      BY <3>2, <3>3 DEF IInv, ShmTypeOK, NameKept, CreatorsAgree
    <3>6. QED
      BY <3>3, <3>4, <3>5 DEF IInv, CapacityOfSize
  <2>2. CASE /\ Found = NoObject /\ made < MaxObjects
             /\ made' = made + 1 /\ link' = made + 1
             /\ size' = [size EXCEPT ![made + 1] = n]
             /\ Returns(p, Handle(made + 1, n, TRUE))
    <3> DEFINE o == made + 1
    <3>1. \A q \in Proc : handle[q] = None
      BY <2>2, NothingFound
    <3>2. o \in Object /\ n \in Nat \ {0}
      BY <1>3, <2>2 DEF Create, IInv, ShmTypeOK, Object
    <3>3. /\ handle' = [handle EXCEPT ![p] = Handle(o, n, TRUE)]
          /\ UNCHANGED <<cap, view, ring, lost>>
      BY <1>3, <2>2 DEF Create, Returns, mapped
    <3> DEFINE h == Handle(o, n, TRUE)
    <3>4. h \in HandleType /\ h # None /\ h.obj = o /\ h.size = n
      BY <3>2, HandleMade
    <3> HIDE DEF h
    <3>5. handle' \in [Proc -> {None} \cup HandleType]
          /\ \A q \in Proc : handle'[q] # None => handle'[q] = h
      BY <3>1, <3>3, <3>4 DEF IInv, ShmTypeOK, h
    <3>6. size' \in [Object -> Nat] /\ size'[o] = n /\ \A x \in Object : x # o => size'[x] = size[x]
      BY <2>2, <3>2 DEF IInv, ShmTypeOK
    <3>7. ShmTypeOK'
      <4>1. made' \in 0 .. MaxObjects /\ link' \in 0 .. made'
        BY <2>2 DEF IInv, ShmTypeOK
      <4>2. \A q \in Proc : handle'[q] # None /\ handle'[q].creator => handle'[q].size \in Sizes \ {0}
        BY <3>2, <3>4, <3>5
      <4>3. QED
        BY <3>3, <3>5, <3>6, <4>1, <4>2 DEF IInv, ShmTypeOK
    <3>8. NameKept' /\ CreatorsAgree'
      BY <2>2, <3>4, <3>5, <3>6 DEF NameKept, CreatorsAgree
    <3>9. CapacityOfSize'
      <4>1. \A x \in Object : cap[x] # 0 => x \in Nat /\ x # o
        BY <3>2, NoneIsNoObject DEF IInv, ShmTypeOK, CapacityOfSize
      <4>2. QED
        BY <2>2, <3>3, <3>6, <4>1 DEF IInv, ShmTypeOK, CapacityOfSize
    <3>10. QED
      BY <3>7, <3>8, <3>9 DEF IInv
  <2>3. QED
    BY <1>3, <2>1, <2>2 DEF Create
<1>4. ASSUME NEW p \in Proc, NEW n \in Sizes, Open(p, n) PROVE IInv'
  <2>1. CASE Found # NoObject /\ Returns(p, Handle(Found, n, FALSE))
    <3>1. Found = link /\ link \in Object /\ n \in Nat
      BY <2>1 DEF Found, IInv, ShmTypeOK, Object, NoObject
    <3> DEFINE h == Handle(link, n, FALSE)
    <3>2. h \in HandleType /\ h # None /\ h.obj = link /\ ~h.creator
      BY <3>1, HandleMade
    <3>3. /\ handle' = [handle EXCEPT ![p] = h]
          /\ UNCHANGED <<link, made, size, cap, view, ring, lost>>
      BY <1>4, <2>1, <3>1 DEF Open, Returns, kernel, mapped
    <3> HIDE DEF h
    <3>4. ShmTypeOK'
      BY <3>2, <3>3 DEF IInv, ShmTypeOK
    <3>5. NameKept' /\ CreatorsAgree'
      BY <3>2, <3>3 DEF IInv, ShmTypeOK, NameKept, CreatorsAgree
    <3>6. QED
      BY <3>3, <3>4, <3>5 DEF IInv, CapacityOfSize
  <2>2. CASE Found = NoObject /\ Returns(p, None)
    BY <1>4, <2>2 DEF Open, Returns, IInv, ShmTypeOK, NameKept,
       CreatorsAgree, CapacityOfSize, kernel, mapped
  <2>3. QED
    BY <1>4, <2>1, <2>2 DEF Open
<1>5. ASSUME NEW p \in Proc, Map(p) PROVE IInv'
  <2> DEFINE m == Mapping(handle[p])
  <2>1. /\ handle[p] \in HandleType /\ handle[p].obj = link /\ m \in MappingType
        /\ m # None /\ m.obj = link /\ m.len <= Pages(size[m.obj])
    BY <1>5, NoneIsNoObject, MappingMade DEF Map, Maps, IInv, ShmTypeOK, NameKept
  <2>2. /\ \/ view' = [view EXCEPT ![p] = m] /\ UNCHANGED lost
           \/ lost' = [lost EXCEPT ![p] = @ \cup {m}] /\ UNCHANGED view
        /\ UNCHANGED <<link, made, size, cap, handle, ring>>
    BY <1>5 DEF Map, ViewNew, Lose, kernel
  <2>3. QED
    BY <2>1, <2>2 DEF IInv, ShmTypeOK, NameKept, CreatorsAgree,
       CapacityOfSize
<1>6. ASSUME NEW p \in Proc, Spsc(p) PROVE IInv'
  <2> DEFINE m == Mapping(handle[p])
             c == RingCapacity(handle[p].size)
  <2>1. /\ handle[p] \in HandleType /\ handle[p].obj = link /\ link \in Object /\ m \in MappingType
        /\ m # None /\ m.obj = link /\ m.len <= Pages(size[m.obj])
    BY <1>6, NoneIsNoObject, MappingMade DEF Spsc, Maps, IInv, ShmTypeOK, NameKept
  <2>2. UNCHANGED <<link, made, size, handle, view>>
    BY <1>6 DEF Spsc, RingNew, kernel
  <2>3. CASE /\ ring' = [ring EXCEPT ![p] = m] /\ UNCHANGED lost
             /\ handle[p].size > SPSC_HEADER_SIZE
             /\ cap' = IF handle[p].creator THEN [cap EXCEPT ![handle[p].obj] = c] ELSE cap
    <3>1. handle[p].size \in Nat /\ c \in Nat
      BY <2>1, <2>3 DEF HandleType, RingCapacity
    <3>2. ShmTypeOK' /\ NameKept' /\ CreatorsAgree'
      BY <2>1, <2>2, <2>3, <3>1 DEF IInv, ShmTypeOK, NameKept, CreatorsAgree
    <3>3. CapacityOfSize'
      <4>1. link <= made /\ (AgreedSize /\ handle[p].creator => handle[p].size = size[link])
        BY <2>1, NoneIsNoObject DEF IInv, ShmTypeOK, CreatorsAgree
      <4>2. SPSC_HEADER_SIZE + c = handle[p].size /\ handle[p].size <= Pages(size[link])
        BY <1>6, <2>1, SizeAssumption DEF Spsc, Maps, HandleType, RingCapacity
      <4> HIDE DEF c
      <4>3. \A o \in Object : cap'[o] = cap[o] \/ (cap'[o] = c /\ o = link /\ handle[p].creator)
        BY <2>1, <2>3 DEF IInv, ShmTypeOK
      <4>4. ASSUME NEW o \in Object, cap'[o] # 0
            PROVE  SPSC_HEADER_SIZE + cap'[o] <= Pages(size'[o])
        BY <2>2, <4>2, <4>3, <4>4 DEF IInv, CapacityOfSize
      <4>5. ASSUME NEW o \in Object, cap'[o] # 0
            PROVE  o <= made' /\ (AgreedSize => cap'[o] = RingCapacity(size'[o]))
        BY <2>2, <4>1, <4>3, <4>5 DEF IInv, CapacityOfSize, c
      <4>6. QED
        BY <4>4, <4>5 DEF CapacityOfSize
    <3>4. QED
      BY <3>2, <3>3 DEF IInv
  <2>4. CASE lost' = [lost EXCEPT ![p] = @ \cup {m}] /\ UNCHANGED <<cap, ring>>
    BY <2>1, <2>2, <2>4 DEF IInv, ShmTypeOK, NameKept, CreatorsAgree,
       CapacityOfSize
  <2>5. QED
    BY <1>6, <2>3, <2>4 DEF Spsc, RingNew, Lose
<1>7. ASSUME NEW p \in Proc, DropHandle(p) PROVE IInv'
  BY <1>7 DEF DropHandle, HandleDropped, IInv, ShmTypeOK, NameKept, CreatorsAgree, CapacityOfSize, kernel, mapped
<1>8. ASSUME NEW p \in Proc, DropView(p) PROVE IInv'
  BY <1>8, NoneIsNoObject DEF DropView, ViewDropped, IInv, ShmTypeOK, NameKept, CreatorsAgree, CapacityOfSize, kernel
<1>9. ASSUME NEW p \in Proc, DropRing(p) PROVE IInv'
  BY <1>9, NoneIsNoObject DEF DropRing, RingDropped, Lose, IInv, ShmTypeOK, NameKept, CreatorsAgree, CapacityOfSize, kernel
<1>10. ASSUME NEW p \in Proc, Exit(p) PROVE IInv'
  BY <1>10, NoneIsNoObject DEF Exit, ProcessEnds, Returns, IInv, ShmTypeOK, NameKept, CreatorsAgree, CapacityOfSize, kernel
<1>11. QED
  BY <1>1, <1>2, <1>3, <1>4, <1>5, <1>6, <1>7, <1>8, <1>9, <1>10 DEF Next, CallRefused, Refused, Remove

-----------------------------------------------------------------------------

\* Handles, mappings and sizes keep their types whatever openers pass (src/shared_memory.rs).
THEOREM Win32Types == Spec => []TypeOK
<1>1. IInv => TypeOK
  BY DEF IInv
<1>2. QED
  BY InitIInv, NextIInv, <1>1, PTL DEF Spec

\* While handles are kept the name leads all of them to one object: create, open and
\* remove cannot part them (src/platform/win32.rs).
THEOREM NameLeadsToOne == Spec => []OneSegmentPerName
<1>1. IInv => OneSegmentPerName
  BY DEF IInv, NameKept, OneSegmentPerName
<1>2. QED
  BY InitIInv, NextIInv, <1>1, PTL DEF Spec

\* Creators that ask for different sizes and call spsc in any order leave a capacity
\* that ends within the pages of the object (src/spsc.rs, new, on a handle of
\* src/platform/win32.rs, create).
THEOREM CapacityFits == Spec => []RingFitsPages
<1>1. IInv => RingFitsPages
  BY DEF IInv, CapacityOfSize, RingFitsPages
<1>2. QED
  BY InitIInv, NextIInv, <1>1, PTL DEF Spec

\* With creators that agree on a size the capacity, once written, is never changed under a ring ("written once at
\* init, then read-only", src/spsc.rs).
THEOREM CapacityStays == AgreedSize => (Spec => CapacityIsConstant)
<1> SUFFICES ASSUME AgreedSize PROVE Spec => CapacityIsConstant
  OBVIOUS
<1> DEFINE Keeps == \A o \in Object : cap[o] # 0 => cap'[o] = cap[o]
<1>1. ASSUME IInv, IInv', [Next]_shmVars PROVE Keeps
  <2> SUFFICES ASSUME NEW o \in Object, cap[o] # 0 PROVE cap'[o] = cap[o]
    OBVIOUS
  <2>1. CASE cap' = cap
    BY <2>1
  <2>2. ASSUME NEW p \in Proc, Spsc(p), cap' # cap PROVE cap'[o] = cap[o]
    <3> DEFINE c == RingCapacity(handle[p].size)
    <3>1. /\ cap' = [cap EXCEPT ![handle[p].obj] = c] /\ UNCHANGED size
          /\ handle[p].size > SPSC_HEADER_SIZE /\ handle[p] # None
      BY <2>2 DEF Spsc, Maps, RingNew, kernel
    <3>2. handle[p].size \in Nat /\ c # 0
      BY <1>1, <3>1, NoneIsNoObject, SizeAssumption
         DEF IInv, TypeOK, ShmTypeOK, HandleType, RingCapacity
    <3>3. cap \in [Object -> Nat]
      BY <1>1 DEF IInv, TypeOK, ShmTypeOK
    <3>4. cap'[o] # 0
      BY <1>1, <3>1, <3>2, <3>3
    <3>5. QED
      BY <1>1, <3>1, <3>4 DEF IInv, CapacityOfSize
  <2>3. QED
    BY <1>1, <2>1, <2>2 DEF Next, NameDropped, CallRefused, Refused, Remove, Create, Open, Map,
       ViewNew, DropHandle, HandleDropped, DropView, ViewDropped, DropRing, RingDropped, Exit,
       ProcessEnds, shmVars
<1>2. QED
  BY InitIInv, NextIInv, <1>1, PTL DEF Spec, CapacityIsConstant

=============================================================================
