----------------------------- MODULE SegmentProofs -----------------------------
(***************************************************************************)
(* The properties of Segment.tla for any processes and any sizes, if those    *)
(* who create one segment ask for one size.  The argument: an object is        *)
(* empty until the first ftruncate and has that one size ever after           *)
(* (ObjectsOK), so a size in a handle is 0, which cannot be mapped, or the    *)
(* one there is (HandlesOK); hence a mapping is as long as its object         *)
(* (MappingsOK).                                                            *)
(***************************************************************************)
EXTENDS Segment, TLAPS

ObjectsOK ==
  \A o \in Object :
    /\ size[o] \in {0, asked[o]}
    /\ asked[o] # 0 => o <= made
    /\ cap[o] # 0 => size[o] # 0 /\ cap[o] = RingCapacity(size[o])

\* Where the calls of create and open are.
CallsOK ==
  \A p \in Proc :
    /\ pc[p] = "truncate" =>
         /\ at[p] # None /\ at[p].creator /\ at[p].obj <= made
         /\ at[p].size = asked[at[p].obj] /\ at[p].size \in Sizes \ {0}
    /\ pc[p] = "fstat" => at[p] # None

HandlesOK ==
  \A p \in Proc : handle[p] # None /\ handle[p].size # 0 =>
    handle[p].size = size[handle[p].obj]

MappingsOK ==
  \A p \in Proc :
    /\ \A m \in Mappings(p) : m.len # 0 /\ m.len = size[m.obj]
    /\ ring[p] # None => ring[p].len > SPSC_HEADER_SIZE

\* The inductive invariant.
IInv == TypeOK /\ ObjectsOK /\ CallsOK /\ HandlesOK /\ MappingsOK

-----------------------------------------------------------------------------

\* A handle or a mapping is None if and only if it is on no object.
LEMMA NoneIsNoObject ==
  /\ None.obj = 0
  /\ \A h \in {None} \cup HandleType : h # None => h \in HandleType /\ h.obj \in Object
  /\ \A m \in {None} \cup MappingType : m # None => m \in MappingType /\ m.obj \in Object
  /\ \A o \in Object : o # 0 /\ o \in Nat /\ o <= MaxObjects
BY BoundAssumption DEF None, NoObject, HandleType, MappingType, Object

LEMMA HandleMade ==
  ASSUME NEW o \in Object, NEW n \in Nat, NEW c \in BOOLEAN
  PROVE  /\ Handle(o, n, c) \in HandleType /\ Handle(o, n, c) # None
         /\ Handle(o, n, c).obj = o /\ Handle(o, n, c).size = n /\ Handle(o, n, c).creator = c
BY NoneIsNoObject DEF Handle, HandleType

LEMMA MappingMade ==
  ASSUME NEW h \in HandleType
  PROVE  /\ Mapping(h) \in MappingType /\ Mapping(h) # None
         /\ Mapping(h).obj = h.obj /\ Mapping(h).len = h.size
BY NoneIsNoObject DEF Mapping, HandleType, MappingType

\* Mappings are on objects.
LEMMA MappingsTyped ==
  ASSUME TypeOK
  PROVE  \A p \in Proc : \A m \in Mappings(p) : m \in MappingType /\ m.obj \in Object
BY NoneIsNoObject DEF TypeOK, ShmTypeOK, Mappings, MappingType

-----------------------------------------------------------------------------

LEMMA InitIInv == Init => IInv
BY BoundAssumption
   DEF Init, ShmInit, IInv, TypeOK, ShmTypeOK, ObjectsOK, CallsOK, HandlesOK, MappingsOK, Mappings,
       Object, None, NoObject

\* What p has is all that it touches: handles and mappings stay, sizes and asked sizes
\* of objects that are in use stay.
LEMMA SizesKept ==
  ASSUME IInv, UNCHANGED mapped,
         \A o \in Object : size[o] # 0 => size'[o] = size[o]
  PROVE  MappingsOK'
<1>1. \A p \in Proc : Mappings(p)' = Mappings(p)
  BY DEF mapped, Mappings
<1>2. QED
  BY <1>1, MappingsTyped DEF IInv, MappingsOK, mapped

\* A call enters a step, or ends, and the objects stay as they are.
LEMMA ObjectsStay ==
  ASSUME IInv, UNCHANGED <<kernel, asked, cap, mapped>>
  PROVE  ObjectsOK' /\ MappingsOK'
BY SizesKept DEF IInv, ObjectsOK, kernel

LEMMA CreateOK ==
  ASSUME AgreedSize, IInv, NEW p \in Proc, NEW n \in Sizes, Create(p, n)
  PROVE  IInv'
<1> DEFINE o == IF link # NoObject THEN link ELSE made + 1
           h == Handle(o, n, TRUE)
<1>1. /\ o \in Object /\ n \in Nat \ {0}
      /\ pc' = [pc EXCEPT ![p] = "truncate"] /\ at' = [at EXCEPT ![p] = h]
      /\ UNCHANGED <<handle, panicked, cap, mapped, size>>
      /\ link # NoObject => n = asked[link] /\ UNCHANGED <<made, link, asked>>
      /\ link = NoObject => /\ made' = made + 1 /\ link' = made + 1 /\ made < MaxObjects
                            /\ asked' = [asked EXCEPT ![made + 1] = n]
  <2>1. n \in Nat \ {0} /\ UNCHANGED <<cap, mapped>>
    BY SizeAssumption DEF Create
  <2>2. CASE /\ link # NoObject /\ n = asked[link] /\ Enters(p, "truncate", Handle(link, n, TRUE))
             /\ UNCHANGED <<kernel, asked>>
    BY <2>1, <2>2, BoundAssumption DEF Enters, kernel, IInv, TypeOK, ShmTypeOK, Object, NoObject
  <2>3. CASE /\ link = NoObject /\ made < MaxObjects
             /\ made' = made + 1 /\ link' = made + 1
             /\ asked' = [asked EXCEPT ![made + 1] = n]
             /\ Enters(p, "truncate", Handle(made + 1, n, TRUE))
             /\ UNCHANGED size
    BY <2>1, <2>3, BoundAssumption DEF Enters, IInv, TypeOK, ShmTypeOK, Object, NoObject
  <2>4. QED
    BY <2>2, <2>3 DEF Create
<1>2. h \in HandleType /\ h # None /\ h.obj = o /\ h.size = n /\ h.creator
  BY <1>1, HandleMade
<1>3. asked' \in [Object -> Nat] /\ asked'[o] = n /\ o <= made' /\ made' \in 0 .. MaxObjects
      /\ link' \in 0 .. made' /\ made <= made'
  <2>1. CASE link = NoObject
    <3>1. made \in Nat /\ o = made + 1 /\ asked \in [Object -> Nat]
      BY <2>1, BoundAssumption DEF IInv, TypeOK, ShmTypeOK
    <3>2. made' = made + 1 /\ link' = made + 1 /\ made < MaxObjects /\ MaxObjects \in Nat
      BY <1>1, <2>1, BoundAssumption
    <3>3. asked' \in [Object -> Nat] /\ asked'[o] = n
      BY <1>1, <2>1, <3>1
    <3>4. QED
      BY <3>1, <3>2, <3>3
  <2>2. CASE link # NoObject
    BY <1>1, <2>2 DEF IInv, TypeOK, ShmTypeOK, NoObject
  <2>3. QED
    BY <2>1, <2>2
<1>4. \A x \in Object : x <= made => asked'[x] = asked[x]
  BY <1>1, NoneIsNoObject DEF IInv, TypeOK, ShmTypeOK
<1>5. \A x \in Object : asked'[x] # 0 => x <= made'
  BY <1>1, <1>3, <1>4, NoneIsNoObject DEF IInv, TypeOK, ShmTypeOK, ObjectsOK
<1> HIDE DEF h, o
<1>6. TypeOK'
  <2>1. MappingsOK'
    BY <1>1, SizesKept
  <2>2. QED
    BY <1>1, <1>2, <1>3, <2>1 DEF IInv, TypeOK, ShmTypeOK, MappingsOK, mapped
<1>7. ObjectsOK'
  BY <1>1, <1>3, <1>4, <1>5 DEF IInv, TypeOK, ShmTypeOK, ObjectsOK
<1>8. CallsOK'
  <2>1. \A q \in Proc : at[q] # None => at[q].obj \in Object /\ at[q].obj \in Nat
    BY NoneIsNoObject DEF IInv, TypeOK
  <2>2. QED
    BY <1>1, <1>2, <1>3, <1>4, <2>1 DEF IInv, TypeOK, ShmTypeOK, CallsOK
<1>9. HandlesOK' /\ MappingsOK'
  BY <1>1, SizesKept DEF IInv, HandlesOK
<1>10. QED
  BY <1>6, <1>7, <1>8, <1>9 DEF IInv

-----------------------------------------------------------------------------
(* Steps that leave objects and mappings alone, except perhaps the name.     *)

\* A call comes to another step, other than ftruncate.
LEMMA EntersOK ==
  ASSUME IInv, NEW p \in Proc, NEW step \in {"unlink", "fstat"}, NEW h \in {None} \cup HandleType,
         step = "fstat" => h # None, Enters(p, step, h), UNCHANGED <<kernel, asked, cap, mapped>>
  PROVE  IInv'
<1>1. TypeOK'
  <2>1. MappingsOK'
    BY SizesKept DEF kernel
  <2>2. QED
    BY <2>1 DEF Enters, kernel, mapped, IInv, TypeOK, ShmTypeOK, MappingsOK
<1>2. ObjectsOK' /\ MappingsOK'
  BY ObjectsStay
<1>3. CallsOK' /\ HandlesOK'
  BY DEF Enters, kernel, IInv, TypeOK, CallsOK, HandlesOK
<1>4. QED
  BY <1>1, <1>2, <1>3 DEF IInv

\* A call ends with a handle h, or with None.
LEMMA EndsOK ==
  ASSUME IInv, NEW p \in Proc, NEW h \in {None} \cup HandleType, Ends(p, h),
         h # None => ~h.creator /\ (h.size # 0 => h.size = size[h.obj]),
         UNCHANGED <<made, size, asked, cap, mapped>>, link' \in {link, NoObject}
  PROVE  IInv'
<1>1. MappingsOK'
  BY SizesKept
<1>2. TypeOK'
  BY <1>1 DEF Ends, Returns, mapped, NoObject, IInv, TypeOK, ShmTypeOK, MappingsOK
<1>3. ObjectsOK'
  BY DEF IInv, ObjectsOK
<1>4. CallsOK'
  BY DEF Ends, IInv, TypeOK, CallsOK
<1>5. HandlesOK'
  BY DEF Ends, Returns, IInv, TypeOK, ShmTypeOK, HandlesOK
<1>6. QED
  BY <1>1, <1>2, <1>3, <1>4, <1>5 DEF IInv

\* A step that changes neither objects nor what processes have of them.
LEMMA NothingMoves ==
  ASSUME IInv, UNCHANGED <<made, size, asked, cap, handle, mapped, pc, at>>,
         link' \in {link, NoObject}, panicked' \subseteq Proc
  PROVE  IInv'
<1>1. MappingsOK'
  BY SizesKept
<1>2. TypeOK'
  BY <1>1 DEF mapped, NoObject, IInv, TypeOK, ShmTypeOK, MappingsOK
<1>3. ObjectsOK' /\ CallsOK' /\ HandlesOK'
  BY DEF IInv, ObjectsOK, CallsOK, HandlesOK
<1>4. QED
  BY <1>1, <1>2, <1>3 DEF IInv

-----------------------------------------------------------------------------
(* ftruncate.                                                               *)

\* It gives an object the size it has, or its first one.
LEMMA TruncateKeepsSize ==
  ASSUME IInv, NEW p \in Proc, CreateTruncate(p)
  PROVE  /\ at[p] \in HandleType /\ at[p] # None /\ at[p].obj \in Object /\ at[p].creator
         /\ at[p].size = asked[at[p].obj] /\ at[p].size \in Sizes \ {0}
         /\ size' = [size EXCEPT ![at[p].obj] = at[p].size]
         /\ \A o \in Object : size[o] # 0 => size'[o] = size[o]
         /\ cap' \in [Object -> Nat]
         /\ \A o \in Object : cap'[o] \in {0, cap[o]} /\ (size[o] # 0 => cap'[o] = cap[o])
<1>1. /\ at[p] \in HandleType /\ at[p] # None /\ at[p].obj \in Object /\ at[p].creator
      /\ at[p].size = asked[at[p].obj] /\ at[p].size \in Sizes \ {0}
  BY NoneIsNoObject DEF CreateTruncate, IInv, TypeOK, CallsOK
<1>2. size' = [size EXCEPT ![at[p].obj] = at[p].size]
  BY DEF CreateTruncate
<1>3. \A o \in Object : size[o] # 0 => size'[o] = size[o]
  BY <1>1, <1>2 DEF IInv, TypeOK, ShmTypeOK, ObjectsOK
<1>4. cap' = [cap EXCEPT ![at[p].obj] = IF at[p].size < SPSC_HEADER_SIZE THEN 0 ELSE @]
  BY DEF CreateTruncate
<1>5. cap' \in [Object -> Nat] /\ \A o \in Object : cap'[o] \in {0, cap[o]}
  BY <1>1, <1>4 DEF IInv, TypeOK, ShmTypeOK
<1>6. ASSUME NEW o \in Object, size[o] # 0
      PROVE  cap'[o] = cap[o]
  <2>1. CASE o # at[p].obj
    BY <1>1, <1>4, <2>1 DEF IInv, TypeOK, ShmTypeOK
  <2>2. CASE o = at[p].obj /\ cap[o] = 0
    BY <1>5, <2>2
  <2>3. CASE o = at[p].obj /\ cap[o] # 0
    <3>1. cap[o] = size[o] - SPSC_HEADER_SIZE /\ cap[o] \in Nat /\ size[o] = asked[o]
      BY <1>6, <2>3 DEF IInv, TypeOK, ShmTypeOK, ObjectsOK, RingCapacity
    <3>2. ~(at[p].size < SPSC_HEADER_SIZE)
      BY <1>1, <2>3, <3>1, SizeAssumption DEF IInv, TypeOK, ShmTypeOK
    <3>3. QED
      BY <1>1, <1>4, <2>3, <3>2 DEF IInv, TypeOK, ShmTypeOK
  <2>4. QED
    BY <2>1, <2>2, <2>3
<1>7. QED
  BY <1>1, <1>2, <1>3, <1>5, <1>6

LEMMA CreateTruncateOK ==
  ASSUME IInv, NEW p \in Proc, CreateTruncate(p)
  PROVE  IInv'
<1> DEFINE h == at[p]
<1>1. /\ pc' = [pc EXCEPT ![p] = "idle"] /\ at' = [at EXCEPT ![p] = None]
      /\ handle' = [handle EXCEPT ![p] = h] /\ UNCHANGED <<panicked, link, made, asked, mapped>>
  BY DEF CreateTruncate, Ends, Returns
<1>2. MappingsOK'
  BY <1>1, TruncateKeepsSize, SizesKept
<1>3. size' \in [Object -> Nat] /\ cap' \in [Object -> Nat]
  BY TruncateKeepsSize, SizeAssumption DEF IInv, TypeOK, ShmTypeOK
<1>4. TypeOK'
  BY <1>1, <1>2, <1>3, TruncateKeepsSize DEF mapped, IInv, TypeOK, ShmTypeOK, MappingsOK
<1>5. ObjectsOK'
  BY <1>1, TruncateKeepsSize DEF IInv, TypeOK, ShmTypeOK, ObjectsOK
<1>6. CallsOK'
  BY <1>1 DEF IInv, TypeOK, CallsOK
<1>7. HandlesOK'
  <2>1. \A q \in Proc : handle[q] # None => handle[q].obj \in Object
    BY NoneIsNoObject DEF IInv, TypeOK, ShmTypeOK
  <2>2. \A q \in Proc : handle[q] # None /\ handle[q].size # 0 =>
          handle[q].size = size[handle[q].obj] /\ handle[q].size = size'[handle[q].obj]
    BY <2>1, TruncateKeepsSize DEF IInv, HandlesOK
  <2>3. h.size = size'[h.obj]
    BY TruncateKeepsSize DEF IInv, TypeOK, ShmTypeOK
  <2>4. QED
    BY <1>1, <2>2, <2>3 DEF IInv, TypeOK, ShmTypeOK, HandlesOK
<1>8. QED
  BY <1>2, <1>4, <1>5, <1>6, <1>7 DEF IInv

-----------------------------------------------------------------------------
(* Mappings come and go.                                                    *)

\* What is mapped after a step was mapped before it, or comes from a handle; and so
\* is a capacity.
LEMMA MappingsMove ==
  ASSUME IInv, NEW p \in Proc, Idle(p), UNCHANGED <<kernel, handle>>,
         view' \in [Proc -> {None} \cup MappingType], ring' \in [Proc -> {None} \cup MappingType],
         lost' \in [Proc -> SUBSET MappingType], cap' \in [Object -> Nat],
         \A q \in Proc : \A m \in Mappings(q)' :
           m \in Mappings(q) \/ (m.len # 0 /\ m.len = size[m.obj]),
         \A q \in Proc : ring'[q] # None => ring'[q] = ring[q] \/ ring'[q].len > SPSC_HEADER_SIZE,
         \A o \in Object : cap'[o] = cap[o] \/ (size[o] # 0 /\ cap'[o] = RingCapacity(size[o]))
  PROVE  IInv'
<1>1. MappingsOK'
  BY DEF IInv, MappingsOK, kernel
<1>2. TypeOK'
  BY <1>1 DEF Idle, kernel, IInv, TypeOK, ShmTypeOK, MappingsOK
<1>3. ObjectsOK'
  BY DEF Idle, kernel, IInv, ObjectsOK
<1>4. CallsOK' /\ HandlesOK'
  BY DEF Idle, kernel, IInv, CallsOK, HandlesOK
<1>5. QED
  BY <1>1, <1>2, <1>3, <1>4 DEF IInv

\* The mapping that map and spsc get is as long as the object.
LEMMA MapsBacked ==
  ASSUME IInv, NEW p \in Proc, Maps(p)
  PROVE  /\ Mapping(handle[p]) \in MappingType /\ Mapping(handle[p]) # None
         /\ Mapping(handle[p]).len # 0
         /\ Mapping(handle[p]).len = size[Mapping(handle[p]).obj]
         /\ Mapping(handle[p]).len = handle[p].size /\ Mapping(handle[p]).obj = handle[p].obj
         /\ handle[p].obj \in Object /\ handle[p].size \in Nat \ {0}
<1>1. handle[p] \in HandleType /\ handle[p] # None /\ handle[p].obj \in Object
  BY NoneIsNoObject DEF Maps, IInv, TypeOK, ShmTypeOK
<1>2. handle[p].size \in Nat \ {0}
  BY <1>1 DEF Maps, HandleType
<1>3. handle[p].size = size[handle[p].obj]
  BY <1>1, <1>2 DEF IInv, HandlesOK
<1>4. QED
  BY <1>1, <1>2, <1>3, MappingMade

LEMMA MapOK ==
  ASSUME IInv, NEW p \in Proc, Map(p)
  PROVE  IInv'
<1> DEFINE m == Mapping(handle[p])
<1>1. Maps(p) /\ ViewNew(p)
  BY DEF Map
<1>2. m \in MappingType /\ m # None /\ m.len # 0 /\ m.len = size[m.obj]
  BY <1>1, MapsBacked
<1>3. Idle(p) /\ UNCHANGED <<kernel, handle, cap, ring>>
  BY <1>1 DEF Maps, ViewNew
<1>4. /\ view' = view \/ view' = [view EXCEPT ![p] = m]
      /\ lost' = lost \/ lost' = [lost EXCEPT ![p] = @ \cup {m}]
  BY <1>1 DEF ViewNew, Lose
<1> HIDE DEF m
<1>5. /\ view' \in [Proc -> {None} \cup MappingType] /\ ring' \in [Proc -> {None} \cup MappingType]
      /\ lost' \in [Proc -> SUBSET MappingType] /\ cap' \in [Object -> Nat]
  BY <1>2, <1>3, <1>4 DEF IInv, TypeOK, ShmTypeOK
<1>6. \A q \in Proc : \A x \in Mappings(q)' : x \in Mappings(q) \/ x = m
  BY <1>3, <1>4 DEF IInv, TypeOK, ShmTypeOK, Mappings
<1>7. QED
  BY <1>2, <1>3, <1>5, <1>6, MappingsMove

\* A capacity that is written is that of the object's size, which never changes: it is
\* the one that is there, or the first one.
LEMMA CapacityOfRing ==
  ASSUME IInv, NEW p \in Proc, Spsc(p)
  PROVE  \A o \in Object :
           cap'[o] = cap[o] \/ (size[o] # 0 /\ cap'[o] = RingCapacity(size[o]))
<1>1. Maps(p) /\ RingNew(p)
  BY DEF Spsc
<1>2. cap' = cap \/ cap' = [cap EXCEPT ![handle[p].obj] = RingCapacity(handle[p].size)]
  BY <1>1 DEF RingNew
<1>3. QED
  BY <1>1, <1>2, MapsBacked DEF IInv, TypeOK, ShmTypeOK

LEMMA SpscOK ==
  ASSUME IInv, NEW p \in Proc, Spsc(p)
  PROVE  IInv'
<1> DEFINE m == Mapping(handle[p])
<1>1. Maps(p) /\ RingNew(p)
  BY DEF Spsc
<1>2. /\ m \in MappingType /\ m # None /\ m.len # 0 /\ m.len = size[m.obj]
      /\ m.len = handle[p].size /\ handle[p].obj \in Object /\ handle[p].size \in Nat
  BY <1>1, MapsBacked
<1>3. Idle(p) /\ UNCHANGED <<kernel, handle, view>>
  BY <1>1 DEF Maps, RingNew
<1>4. /\ ring' = ring \/ (ring' = [ring EXCEPT ![p] = m] /\ handle[p].size > SPSC_HEADER_SIZE)
      /\ lost' = lost \/ lost' = [lost EXCEPT ![p] = @ \cup {m}]
  BY <1>1 DEF RingNew, Lose
<1>5. cap' \in [Object -> Nat]
  <2>1. CASE cap' = cap
    BY <2>1 DEF IInv, TypeOK, ShmTypeOK
  <2>2. CASE /\ cap' = [cap EXCEPT ![handle[p].obj] = RingCapacity(handle[p].size)]
             /\ handle[p].size > SPSC_HEADER_SIZE
    BY <1>2, <2>2, SizeAssumption DEF IInv, TypeOK, ShmTypeOK, RingCapacity
  <2>3. QED
    BY <1>1, <2>1, <2>2 DEF RingNew
<1> HIDE DEF m
<1>6. /\ view' \in [Proc -> {None} \cup MappingType] /\ ring' \in [Proc -> {None} \cup MappingType]
      /\ lost' \in [Proc -> SUBSET MappingType]
  BY <1>2, <1>3, <1>4 DEF IInv, TypeOK, ShmTypeOK
<1>7. \A q \in Proc : \A x \in Mappings(q)' : x \in Mappings(q) \/ x = m
  BY <1>3, <1>4 DEF IInv, TypeOK, ShmTypeOK, Mappings
<1>8. \A q \in Proc : ring'[q] # None => ring'[q] = ring[q] \/ ring'[q].len > SPSC_HEADER_SIZE
  BY <1>2, <1>4 DEF IInv, TypeOK, ShmTypeOK
<1>9. QED
  BY <1>2, <1>3, <1>5, <1>6, <1>7, <1>8, CapacityOfRing, MappingsMove

LEMMA DropsOK ==
  ASSUME IInv, NEW p \in Proc, DropView(p) \/ DropRing(p)
  PROVE  IInv'
<1>1. Idle(p) /\ UNCHANGED <<kernel, handle, cap>>
  BY DEF DropView, DropRing, ViewDropped, RingDropped
<1>2. /\ view' = view \/ view' = [view EXCEPT ![p] = None]
      /\ \/ UNCHANGED <<ring, lost>>
         \/ /\ ring[p] # None /\ ring' = [ring EXCEPT ![p] = None]
            /\ lost' = [lost EXCEPT ![p] = @ \cup {ring[p]}]
  BY DEF DropView, DropRing, ViewDropped, RingDropped, Lose
<1>3. /\ view' \in [Proc -> {None} \cup MappingType] /\ ring' \in [Proc -> {None} \cup MappingType]
      /\ lost' \in [Proc -> SUBSET MappingType] /\ cap' \in [Object -> Nat]
  BY <1>1, <1>2 DEF IInv, TypeOK, ShmTypeOK
<1>4. \A q \in Proc : \A x \in Mappings(q)' : x \in Mappings(q)
  BY <1>2 DEF IInv, TypeOK, ShmTypeOK, Mappings
<1>5. \A q \in Proc : ring'[q] # None => ring'[q] = ring[q]
  BY <1>2 DEF IInv, TypeOK, ShmTypeOK
<1>6. QED
  BY <1>1, <1>3, <1>4, <1>5, MappingsMove

LEMMA DropHandleOK ==
  ASSUME IInv, NEW p \in Proc, DropHandle(p)
  PROVE  IInv'
<1>1. /\ handle' = [handle EXCEPT ![p] = None]
      /\ UNCHANGED <<made, link, size, asked, cap, mapped, pc, at, panicked>>
  BY DEF DropHandle, HandleDropped, Idle, kernel
<1>2. MappingsOK'
  BY <1>1, SizesKept
<1>3. TypeOK'
  BY <1>1, <1>2 DEF mapped, IInv, TypeOK, ShmTypeOK, MappingsOK
<1>4. ObjectsOK' /\ CallsOK' /\ HandlesOK'
  BY <1>1 DEF IInv, TypeOK, ShmTypeOK, ObjectsOK, CallsOK, HandlesOK
<1>5. QED
  BY <1>2, <1>3, <1>4 DEF IInv

LEMMA ExitOK ==
  ASSUME IInv, NEW p \in Proc, Exit(p)
  PROVE  IInv'
<1>1. /\ handle' = [handle EXCEPT ![p] = None] /\ view' = [view EXCEPT ![p] = None]
      /\ ring' = [ring EXCEPT ![p] = None] /\ lost' = [lost EXCEPT ![p] = {}]
      /\ pc' = [pc EXCEPT ![p] = "idle"] /\ at' = [at EXCEPT ![p] = None]
      /\ panicked' = panicked \ {p} /\ UNCHANGED <<made, link, size, asked, cap>>
  BY DEF Exit, ProcessEnds, Returns, kernel
<1>2. \A q \in Proc : \A m \in Mappings(q)' : m \in Mappings(q)
  BY <1>1 DEF IInv, TypeOK, ShmTypeOK, Mappings
<1>3. MappingsOK'
  BY <1>1, <1>2 DEF IInv, TypeOK, ShmTypeOK, MappingsOK
<1>4. TypeOK'
  BY <1>1, <1>3 DEF IInv, TypeOK, ShmTypeOK, MappingsOK
<1>5. ObjectsOK' /\ CallsOK' /\ HandlesOK'
  BY <1>1 DEF IInv, TypeOK, ShmTypeOK, ObjectsOK, CallsOK, HandlesOK
<1>6. QED
  BY <1>3, <1>4, <1>5 DEF IInv

-----------------------------------------------------------------------------
(* Every step.                                                              *)

LEMMA NextIInv ==
  ASSUME AgreedSize, IInv, [Next]_vars
  PROVE  IInv'
<1>1. CASE UNCHANGED vars
  BY <1>1, NothingMoves DEF vars, shmVars, kernel, IInv, TypeOK
<1>2. ASSUME NEW p \in Proc, NEW n \in Sizes, Create(p, n)
      PROVE  IInv'
  BY <1>2, CreateOK
<1>3. ASSUME NEW p \in Proc, CreateTruncate(p)
      PROVE  IInv'
  BY <1>3, CreateTruncateOK
<1>4. ASSUME NEW p \in Proc, CallRefused(p) \/ MmapFails(p) \/ Remove(p) \/ MapPanics(p)
      PROVE  IInv'
  BY <1>4, NothingMoves
     DEF CallRefused, MmapFails, Remove, MapPanics, Maps, Idle, Refused, shmVars, kernel, IInv, TypeOK
<1>5. ASSUME NEW p \in Proc, CreateFails(p)
      PROVE  IInv'
  BY <1>5, EntersOK DEF CreateFails
<1>6. ASSUME NEW p \in Proc, CreateUnlinks(p)
      PROVE  IInv'
  BY <1>6, EndsOK DEF CreateUnlinks
<1>7. ASSUME NEW p \in Proc, Open(p)
      PROVE  IInv'
  <2>1. CASE link # NoObject /\ Enters(p, "fstat", Handle(link, 0, FALSE))
    <3>1. link \in Object
      BY <2>1, BoundAssumption DEF IInv, TypeOK, ShmTypeOK, Object, NoObject
    <3>2. Handle(link, 0, FALSE) \in HandleType /\ Handle(link, 0, FALSE) # None
      BY <3>1, HandleMade
    <3>3. QED
      BY <1>7, <2>1, <3>2, EntersOK DEF Open
  <2>2. CASE Ends(p, None)
    BY <1>7, <2>2, EndsOK DEF Open, kernel
  <2>3. QED
    BY <1>7, <2>1, <2>2 DEF Open
<1>8. ASSUME NEW p \in Proc, OpenStat(p)
      PROVE  IInv'
  <2>1. at[p] # None /\ at[p].obj \in Object
    BY <1>8, NoneIsNoObject DEF OpenStat, IInv, TypeOK, CallsOK
  <2>2. size[at[p].obj] \in Nat
    BY <2>1 DEF IInv, TypeOK, ShmTypeOK
  <2>3. CASE Ends(p, Handle(at[p].obj, size[at[p].obj], FALSE))
    <3> DEFINE h == Handle(at[p].obj, size[at[p].obj], FALSE)
    <3>1. h \in HandleType /\ h.obj = at[p].obj /\ h.size = size[at[p].obj] /\ h.creator = FALSE
      BY <2>1, <2>2, HandleMade
    <3> HIDE DEF h
    <3>2. QED
      BY <1>8, <2>3, <3>1, EndsOK DEF OpenStat, kernel, h
  <2>4. CASE Ends(p, None)
    BY <1>8, <2>4, EndsOK DEF OpenStat, kernel
  <2>5. QED
    BY <1>8, <2>3, <2>4 DEF OpenStat
<1>9. ASSUME NEW p \in Proc, Map(p) \/ Spsc(p)
      PROVE  IInv'
  BY <1>9, MapOK, SpscOK
<1>10. ASSUME NEW p \in Proc, DropView(p) \/ DropRing(p) \/ DropHandle(p) \/ Exit(p)
      PROVE  IInv'
  BY <1>10, DropsOK, DropHandleOK, ExitOK
<1>11. QED
  BY <1>1, <1>2, <1>3, <1>4, <1>5, <1>6, <1>7, <1>8, <1>9, <1>10 DEF Next

LEMMA AlwaysIInv == AgreedSize => (Spec => []IInv)
<1>1. AgreedSize /\ IInv /\ [Next]_vars => IInv'
  BY NextIInv
<1>2. SUFFICES ASSUME AgreedSize PROVE Spec => []IInv
  OBVIOUS
<1>3. IInv /\ [Next]_vars => IInv'
  BY <1>1, <1>2
<1>4. QED
  BY <1>3, InitIInv, PTL DEF Spec

-----------------------------------------------------------------------------
(* The theorems.                                                            *)

LEMMA BackedFromIInv == IInv => MappingsAreBacked
BY MappingsTyped DEF IInv, TypeOK, ShmTypeOK, MappingsOK, MappingsAreBacked

LEMMA RingFitsFromIInv == IInv => RingFitsMapping
<1>1. SUFFICES ASSUME IInv, NEW p \in Proc, ring[p] # None
               PROVE  SPSC_HEADER_SIZE + cap[ring[p].obj] <= ring[p].len
  BY DEF RingFitsMapping
<1>2. ring[p] \in Mappings(p) /\ ring[p] \in MappingType /\ ring[p].obj \in Object
  BY <1>1, MappingsTyped DEF IInv, Mappings
<1>3. ring[p].len = size[ring[p].obj] /\ ring[p].len > SPSC_HEADER_SIZE /\ ring[p].len \in Nat
  BY <1>1, <1>2 DEF IInv, MappingsOK, MappingType
<1>4. cap[ring[p].obj] # 0 => cap[ring[p].obj] = ring[p].len - SPSC_HEADER_SIZE
  BY <1>1, <1>2, <1>3 DEF IInv, ObjectsOK, RingCapacity
<1>5. QED
  BY <1>3, <1>4, SizeAssumption

\* Types.
THEOREM SegmentTypes == AgreedSize => (Spec => []TypeOK)
<1>1. QED
  BY AlwaysIInv, PTL DEF IInv

\* Whatever fails, ends or races, every byte of every mapping exists (SharedMemory on
\* Unix, from shm_open to munmap), if those who create one segment ask for one size.
THEOREM MappingsBacked == AgreedSize => (Spec => []MappingsAreBacked)
<1>1. QED
  BY AlwaysIInv, BackedFromIInv, PTL

\* The capacity that push and pop find in the segment never exceeds what their process
\* has mapped, though the creator may write it again at any time.
THEOREM RingFits == AgreedSize => (Spec => []RingFitsMapping)
<1>1. QED
  BY AlwaysIInv, RingFitsFromIInv, PTL

\* All views of one segment are equally long, including those of a handle that was
\* opened while create was half done.
THEOREM ViewsAreEqual == AgreedSize => (Spec => []ViewsAgree)
<1>1. IInv => ViewsAgree
  BY DEF IInv, MappingsOK, Mappings, ViewsAgree
<1>2. QED
  BY <1>1, AlwaysIInv, PTL

\* Once a ring has a capacity, no create, spsc or ftruncate changes it.
THEOREM CapacityNeverChanges == AgreedSize => (Spec => CapacityIsConstant)
<1>1. ASSUME IInv, [Next]_vars
      PROVE  [\A o \in Object : cap[o] # 0 => cap'[o] = cap[o]]_shmVars
  <2>1. ASSUME NEW p \in Proc, CreateTruncate(p), NEW o \in Object, cap[o] # 0
        PROVE  cap'[o] = cap[o]
    BY <1>1, <2>1, TruncateKeepsSize DEF IInv, ObjectsOK
  <2>2. ASSUME NEW p \in Proc, Spsc(p), NEW o \in Object, cap[o] # 0
        PROVE  cap'[o] = cap[o]
    BY <1>1, <2>2, CapacityOfRing DEF IInv, ObjectsOK
  <2>3. CASE \/ \E p \in Proc : CreateTruncate(p)
             \/ \E p \in Proc : Spsc(p)
    BY <2>1, <2>2, <2>3
  <2>4. CASE UNCHANGED cap
    BY <2>4
  <2>5. \/ UNCHANGED cap
        \/ \E p \in Proc : CreateTruncate(p)
        \/ \E p \in Proc : Spsc(p)
    BY <1>1
       DEF Next, vars, shmVars, Create, CallRefused, CreateFails, CreateUnlinks, Open, OpenStat,
           Remove, MapPanics, MmapFails, Map, DropHandle, DropView, DropRing, Exit, Refused,
           ViewNew, HandleDropped, ViewDropped, RingDropped, ProcessEnds
  <2>6. QED
    BY <2>3, <2>4, <2>5
<1>2. QED
  BY <1>1, AlwaysIInv, PTL DEF Spec, CapacityIsConstant

=============================================================================
