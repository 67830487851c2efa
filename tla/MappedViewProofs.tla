-------------------------- MODULE MappedViewProofs --------------------------
(***************************************************************************)
(* For any number of threads and views, any area and any calls: as long as   *)
(* no two threads share a view, and the Python code of a count keeps to views *)
(* of its own, the cursor of a view stays in the area, a call finds it where  *)
(* it left it when it took the lock, and moves it by exactly what it          *)
(* transferred.  And the calls are atomic: see below.                         *)
(***************************************************************************)
EXTENDS MappedView, TLAPS

FieldType == [kind : {"fixed", "prefix", "unknown", "index"}, width : Nat]
Fields == Seq(FieldType)

\* The number that a length prefix decodes to.
LEMMA LastNumberType ==
  ASSUME NEW b \in Seq(Byte), Len(b) >= PrefixBytes
  PROVE  LastNumber(b) \in Nat
<1> DEFINE digit(i) == IF i <= PrefixBytes THEN b[Len(b) - PrefixBytes + i] ELSE 0
<1>1. \A i \in 1 .. 4 : digit(i) \in Nat
  <2> SUFFICES ASSUME NEW i \in 1 .. 4, i <= PrefixBytes
               PROVE  b[Len(b) - PrefixBytes + i] \in Nat
    OBVIOUS
  <2>1. Len(b) - PrefixBytes + i \in 1 .. Len(b)
    BY SizeAssumption
  <2>2. b[Len(b) - PrefixBytes + i] \in Byte
    BY <2>1
  <2>3. Byte \subseteq Nat
    BY DEF Byte
  <2>4. QED
    BY <2>2, <2>3
<1>2. LastNumber(b) = digit(1) + 256 * digit(2) + 65536 * digit(3) + 16777216 * digit(4)
  BY DEF LastNumber
<1> HIDE DEF digit
<1>3. QED
  BY <1>1, <1>2

\* What is left when the first field is done with.
LEMMA FieldsTailOK ==
  ASSUME NEW fields \in Fields, fields # <<>>, NEW m \in Nat, NEW n \in Nat, FieldsOK(fields, m)
  PROVE  /\ Tail(fields) \in Fields
         /\ FieldsOK(Tail(fields), n)
         /\ \A k \in 1 .. Len(Tail(fields)) :
              \/ Tail(fields)[k].kind \in {"unknown", "index"}
              \/ Tail(fields)[k].kind = "fixed" /\ Tail(fields)[k].width > 0
              \/ Tail(fields)[k].kind = "prefix" /\ Tail(fields)[k].width = PrefixBytes
<1> DEFINE rest == Tail(fields)
<1>1. /\ rest \in Fields /\ Len(rest) = Len(fields) - 1
      /\ \A k \in 1 .. Len(rest) : rest[k] = fields[k + 1]
      /\ Len(fields) \in Nat \ {0}
  BY DEF Fields
<1>2. ASSUME NEW k \in 1 .. Len(rest)
      PROVE  \/ rest[k].kind \in {"unknown", "index"}
             \/ rest[k].kind = "fixed" /\ rest[k].width > 0
             \/ rest[k].kind = "prefix" /\ rest[k].width = PrefixBytes
  <2>1. k + 1 \in 1 .. Len(fields) /\ k + 1 > 1 /\ rest[k] = fields[k + 1]
    BY <1>1
  <2>2. QED
    BY <2>1 DEF FieldsOK
<1>3. QED
  BY <1>1, <1>2, SizeAssumption DEF FieldsOK

\* The conditions of FieldsOK for one field, first or not.
LEMMA FieldsAfterByteOK ==
  ASSUME NEW fields \in Fields, fields # <<>>, NEW b \in Seq(Byte), Len(b) > 0,
         FieldsOK(fields, Len(b) - 1), Head(fields).kind \notin {"unknown", "index"}
  PROVE  /\ FieldsAfterByte(fields, b) \in Fields
         /\ FieldsOK(FieldsAfterByte(fields, b), Len(b))
<1> DEFINE f == Head(fields)
           rest == Tail(fields)
<1>1. /\ f = fields[1] /\ f \in FieldType
      /\ rest \in Fields /\ Len(rest) = Len(fields) - 1
      /\ \A k \in 1 .. Len(rest) : rest[k] = fields[k + 1]
      /\ Len(fields) \in Nat \ {0}
  BY DEF Fields
<1>2. f.width > 0 /\ (f.kind = "prefix" => Len(b) - 1 + f.width >= PrefixBytes)
  BY <1>1 DEF FieldsOK, FieldType
<1>3. \A k \in 1 .. Len(rest) :
        \/ rest[k].kind \in {"unknown", "index"}
        \/ rest[k].kind = "fixed" /\ rest[k].width > 0
        \/ rest[k].kind = "prefix" /\ rest[k].width = PrefixBytes
  BY FieldsTailOK
<1>4. FieldsOK(rest, Len(b))
  BY FieldsTailOK
<1>5. ASSUME NEW g \in [kind : {"fixed", "prefix"}, width : Nat], g.width > 0,
             g.kind = "prefix" => Len(b) + g.width >= PrefixBytes
      PROVE  <<g>> \o rest \in Fields /\ FieldsOK(<<g>> \o rest, Len(b))
  <2> DEFINE all == <<g>> \o rest
  <2>1. /\ all \in Fields /\ Len(all) = Len(rest) + 1 /\ all[1] = g
        /\ \A k \in 2 .. Len(all) : all[k] = rest[k - 1]
    <3>1. g \in FieldType
      BY DEF FieldType
    <3>2. QED
      BY <3>1, <1>1 DEF Fields
  <2>2. ASSUME NEW k \in 1 .. Len(all)
        PROVE  \/ all[k].kind \in {"unknown", "index"}
               \/ all[k].kind = "fixed" /\ all[k].width > 0
               \/ /\ all[k].kind = "prefix" /\ all[k].width > 0
                  /\ k = 1 => Len(b) + all[k].width >= PrefixBytes
                  /\ k > 1 => all[k].width = PrefixBytes
    <3>1. CASE k = 1
      BY <3>1, <1>5, <2>1
    <3>2. CASE k # 1
      <4>1. k - 1 \in 1 .. Len(rest) /\ all[k] = rest[k - 1]
        BY <3>2, <2>1, <1>1
      <4>2. QED
        BY <4>1, <3>2, <1>3, SizeAssumption
    <3>3. QED
      BY <3>1, <3>2
  <2>3. QED
    BY <2>1, <2>2 DEF FieldsOK
<1>6. CASE f.width > 1
  <2> DEFINE g == [f EXCEPT !.width = @ - 1]
  <2>1. /\ g \in [kind : {"fixed", "prefix"}, width : Nat] /\ g.width = f.width - 1
        /\ g.kind = f.kind
    BY <1>1, <1>2, <1>6 DEF FieldType
  <2>2. g.width > 0 /\ (g.kind = "prefix" => Len(b) + g.width >= PrefixBytes)
    BY <2>1, <1>2, <1>6, <1>1, SizeAssumption DEF FieldType
  <2> HIDE DEF g
  <2>5. <<g>> \o rest \in Fields /\ FieldsOK(<<g>> \o rest, Len(b))
    BY <2>1, <2>2, <1>5
  <2> USE DEF g
  <2>3. FieldsAfterByte(fields, b) = <<g>> \o rest
    BY <1>6 DEF FieldsAfterByte
  <2>4. QED
    BY <2>5, <2>3
<1>7. CASE f.width = 1 /\ f.kind = "prefix" /\ LastNumber(b) > 0
  <2>1. LastNumber(b) \in Nat
    BY <1>2, <1>7, LastNumberType
  <2>2. Fixed(LastNumber(b)) \in [kind : {"fixed", "prefix"}, width : Nat]
    BY <2>1 DEF Fixed
  <2>3. <<Fixed(LastNumber(b))>> \o rest \in Fields /\ FieldsOK(<<Fixed(LastNumber(b))>> \o rest, Len(b))
    BY <2>2, <1>5, <1>7 DEF Fixed
  <2>4. FieldsAfterByte(fields, b) = <<Fixed(LastNumber(b))>> \o rest
    BY <1>7 DEF FieldsAfterByte
  <2>5. QED
    BY <2>3, <2>4
<1>8. CASE ~(f.width > 1) /\ ~(f.width = 1 /\ f.kind = "prefix" /\ LastNumber(b) > 0)
  <2>1. FieldsAfterByte(fields, b) = rest
    BY <1>8 DEF FieldsAfterByte
  <2>2. QED
    BY <2>1, <1>1, <1>4
<1>9. QED
  BY <1>6, <1>7, <1>8

-----------------------------------------------------------------------------
(* The invariant, split in what is said of everything and of one thread.    *)

GlobalOK ==
  /\ AbsTypeOK
  /\ area \in [Address -> Byte]
  /\ cursor \in [View -> 0 .. DataSize]
  /\ pc \in [Thread -> {"idle"} \cup WritePc \cup (ReadPc \ {"undefined"})]
  /\ call \in [Thread -> {NoCall} \cup WriteCalls \cup ReadCalls]
  /\ res \in [Thread -> {"none", "ok", "error"}]
  /\ out \in [Thread -> Seq(Byte)]
  /\ alive \in [Thread -> BOOLEAN]
  /\ calls \in 0 .. MaxCalls

Transferred(t) ==
  IF pc[t] \in {"write_unlock", "read_unlock"} THEN Len(call[t].bytes) ELSE 0

ThreadOK(t) ==
  /\ pc[t] \in WritePc => call[t] \in WriteCalls
  /\ pc[t] \in ReadPc => call[t] \in ReadCalls
  /\ pc[t] # "idle" =>
       /\ call[t].view \in Uses[t]
       /\ call[t].pos + Len(call[t].bytes) <= DataSize
       /\ call[t].auto => cursor[call[t].view] = call[t].pos + Transferred(t)
  /\ pc[t] \in {"write_lock", "writing"} => call[t].done < Len(call[t].bytes)
  /\ pc[t] \in {"read_lock", "reading", "python"} => FieldsOK(call[t].fields, Len(call[t].bytes))

Parts == GlobalOK /\ \A u \in Thread : ThreadOK(u)

LEMMA PartsIInv == Parts => IInv
<1> SUFFICES ASSUME GlobalOK, \A t \in Thread : ThreadOK(t) PROVE IInv
  BY DEF Parts
<1>1. \A v \in View : cursor[v] \in Nat /\ cursor[v] <= DataSize
  BY SizeAssumption DEF GlobalOK
<1>2. \A t \in Thread : pc[t] # "undefined" /\ pc[t] \in {"idle"} \cup WritePc \cup ReadPc
  BY DEF GlobalOK, WritePc, ReadPc
<1>3. TypeOK
  BY <1>1, <1>2 DEF GlobalOK, TypeOK, ThreadOK
<1>4. CallsFitArea
  BY <1>1 DEF CallsFitArea, ThreadOK, Transferred, WritePc, ReadPc
<1>5. QED
  BY <1>2, <1>3, <1>4 DEF IInv, ReadsStayInArea, ThreadOK, WritePc, ReadPc

\* What thread t does to its own call and to the cursors of its own views is
\* nothing to another thread.
LEMMA OtherThread ==
  ASSUME PrivateViews, NEW t \in Thread, NEW u \in Thread, u # t, ThreadOK(u), GlobalOK,
         pc'[u] = pc[u], call'[u] = call[u],
         \A v \in View \ Uses[t] : cursor'[v] = cursor[v]
  PROVE  ThreadOK(u)'
<1>1. pc[u] # "idle" => call[u].view \in View \ Uses[t]
  BY UsesAssumption DEF PrivateViews, ThreadOK
<1>2. Transferred(u)' = Transferred(u)
  BY DEF Transferred
<1>3. QED
  BY <1>1, <1>2 DEF ThreadOK, FieldsOK

LEMMA InitParts == Init => Parts
<1> SUFFICES ASSUME Init PROVE GlobalOK /\ \A t \in Thread : ThreadOK(t)
  BY DEF Parts
<1>1. GlobalOK
  BY SizeAssumption, CallAssumption
     DEF Init, GlobalOK, AbsInit, AbsTypeOK, HoldModes, Byte, Address
<1>2. \A t \in Thread : ThreadOK(t)
  BY DEF Init, ThreadOK, WritePc, ReadPc
<1>3. QED
  BY <1>1, <1>2

-----------------------------------------------------------------------------
(* Steps.                                                                   *)

\* A step of t keeps the invariant if it keeps the common part and t's own, and
\* touches no other thread's call and no other thread's view.
LEMMA StepOfThread ==
  ASSUME PrivateViews, Parts, NEW t \in Thread, GlobalOK', ThreadOK(t)',
         \A u \in Thread \ {t} : pc'[u] = pc[u] /\ call'[u] = call[u],
         \A v \in View \ Uses[t] : cursor'[v] = cursor[v]
  PROVE  Parts'
<1>1. \A u \in Thread \ {t} : ThreadOK(u)'
  BY OtherThread DEF Parts
<1>2. QED
  BY <1>1 DEF Parts

\* A call that returns.
LEMMA ReturnsOK ==
  ASSUME GlobalOK, NEW t \in Thread, NEW result \in {"ok", "error"}, Returns(t, result)
  PROVE  /\ pc' \in [Thread -> {"idle"} \cup WritePc \cup (ReadPc \ {"undefined"})]
         /\ call' \in [Thread -> {NoCall} \cup WriteCalls \cup ReadCalls]
         /\ res' \in [Thread -> {"none", "ok", "error"}]
         /\ \A u \in Thread \ {t} : pc'[u] = pc[u] /\ call'[u] = call[u]
         /\ ThreadOK(t)'
<1>1. pc'[t] = "idle"
  BY DEF Returns, GlobalOK
<1>2. ThreadOK(t)'
  BY <1>1 DEF ThreadOK, WritePc, ReadPc
<1>3. QED
  BY <1>2 DEF Returns, GlobalOK

\* A call that goes for a lock, with bytes that fit at its position.
LEMMA ProceedsOK ==
  ASSUME GlobalOK, NEW t \in Thread, NEW v \in Uses[t], NEW off, NEW p \in 0 .. DataSize,
         UNCHANGED cursor, off = None => p = cursor[v],
         \/ \E b \in Seq(Byte) : /\ b # <<>> /\ p + Len(b) <= DataSize
                                 /\ Proceeds(t, "write_lock", WriteCall(v, off, p, b))
         \/ \E fs \in Seq(Field) : Proceeds(t, "read_lock", ReadCall(v, off, p, fs))
  PROVE  /\ pc' \in [Thread -> {"idle"} \cup WritePc \cup (ReadPc \ {"undefined"})]
         /\ call' \in [Thread -> {NoCall} \cup WriteCalls \cup ReadCalls]
         /\ UNCHANGED res
         /\ \A u \in Thread \ {t} : pc'[u] = pc[u] /\ call'[u] = call[u]
         /\ ThreadOK(t)'
<1>0. v \in View /\ p \in Nat
  BY UsesAssumption, SizeAssumption
<1>1. CASE \E b \in Seq(Byte) : /\ b # <<>> /\ p + Len(b) <= DataSize
                                /\ Proceeds(t, "write_lock", WriteCall(v, off, p, b))
  <2> PICK b \in Seq(Byte) : /\ b # <<>> /\ p + Len(b) <= DataSize
                             /\ Proceeds(t, "write_lock", WriteCall(v, off, p, b))
    BY <1>1
  <2> DEFINE c == WriteCall(v, off, p, b)
  <2>1. c \in WriteCalls
    BY <1>0 DEF WriteCall, WriteCalls
  <2>2. c.view = v /\ c.pos = p /\ c.bytes = b /\ c.done = 0 /\ (c.auto => off = None)
    BY DEF WriteCall
  <2>3. Len(b) > 0
    OBVIOUS
  <2> HIDE DEF c
  <2>4. pc'[t] = "write_lock" /\ call'[t] = c
    BY DEF Proceeds, GlobalOK, c
  <2>5. ThreadOK(t)'
    BY <2>1, <2>2, <2>3, <2>4, <1>0 DEF ThreadOK, Transferred, WritePc, ReadPc
  <2>6. QED
    BY <2>1, <2>5 DEF Proceeds, GlobalOK, WritePc, c
<1>2. CASE \E fs \in Seq(Field) : Proceeds(t, "read_lock", ReadCall(v, off, p, fs))
  <2> PICK fs \in Seq(Field) : Proceeds(t, "read_lock", ReadCall(v, off, p, fs))
    BY <1>2
  <2> DEFINE c == ReadCall(v, off, p, fs)
  <2>0. fs \in Fields /\ FieldsOK(fs, 0)
    <3>1. Field \subseteq FieldType
      BY SizeAssumption DEF Field, FieldType, Prefixed, Unknown, Index
    <3>2. \A k \in 1 .. Len(fs) : fs[k] \in Field
      OBVIOUS
    <3>3. fs \in Fields
      BY <3>1, <3>2 DEF Fields
    <3>4. QED
      BY <3>2, <3>3, SizeAssumption DEF FieldsOK, Field, Prefixed, Unknown, Index
  <2>1. c \in ReadCalls
    BY <1>0, <2>0 DEF ReadCall, ReadCalls, Fields, FieldType
  <2>2. c.view = v /\ c.pos = p /\ c.bytes = <<>> /\ c.fields = fs /\ (c.auto => off = None)
    BY DEF ReadCall
  <2> HIDE DEF c
  <2>4. pc'[t] = "read_lock" /\ call'[t] = c
    BY DEF Proceeds, GlobalOK, c
  <2>5. ThreadOK(t)'
    BY <2>0, <2>1, <2>2, <2>4, <1>0, SizeAssumption DEF ThreadOK, Transferred, FieldsOK, WritePc, ReadPc
  <2>6. QED
    BY <2>1, <2>5 DEF Proceeds, GlobalOK, ReadPc, c
<1>3. QED
  BY <1>1, <1>2

\* A step that starts a call: its checks leave it a position and bytes that fit.
LEMMA BeginsOK ==
  ASSUME PrivateViews, Parts, NEW t \in Thread, NEW v \in View, Begins(t, v)
  PROVE  Parts'
<1>1. /\ GlobalOK /\ v \in Uses[t]
      /\ calls' \in 0 .. MaxCalls
  <2>1. Calls(t, v)
    BY DEF Begins, Seek, BeginWrite, WriteUnpackable, Zero, ReadRange, Read, ReadMixed
  <2>2. GlobalOK
    BY DEF Parts
  <2>3. QED
    BY <2>1, <2>2, CallAssumption DEF Calls, GlobalOK
<1>2. cursor[v] \in 0 .. DataSize
  BY <1>1 DEF GlobalOK
<1>3. ASSUME NEW result \in {"ok", "error"}, Returns(t, result),
             UNCHANGED <<area, out, alive, hold>>,
             cursor' \in [View -> 0 .. DataSize],
             \A w \in View \ Uses[t] : cursor'[w] = cursor[w]
      PROVE  Parts'
  <2>1. GlobalOK'
    BY <1>1, <1>3, ReturnsOK DEF GlobalOK, AbsTypeOK
  <2>2. QED
    BY <1>1, <1>3, <2>1, ReturnsOK, StepOfThread
<1>4. ASSUME NEW result \in {"ok", "error"}, Returns(t, result),
             UNCHANGED <<area, cursor, out, alive, hold>>
      PROVE  Parts'
  BY <1>1, <1>3, <1>4 DEF GlobalOK
<1>5. ASSUME NEW off, NEW p \in 0 .. DataSize, off = None => p = cursor[v],
             UNCHANGED <<area, cursor, out, alive, hold>>,
             \/ \E b \in Seq(Byte) : /\ b # <<>> /\ p + Len(b) <= DataSize
                                     /\ Proceeds(t, "write_lock", WriteCall(v, off, p, b))
             \/ \E fs \in Seq(Field) : Proceeds(t, "read_lock", ReadCall(v, off, p, fs))
      PROVE  Parts'
  <2>1. /\ pc' \in [Thread -> {"idle"} \cup WritePc \cup (ReadPc \ {"undefined"})]
        /\ call' \in [Thread -> {NoCall} \cup WriteCalls \cup ReadCalls]
        /\ UNCHANGED res
        /\ \A u \in Thread \ {t} : pc'[u] = pc[u] /\ call'[u] = call[u]
        /\ ThreadOK(t)'
    BY <1>1, <1>5, ProceedsOK
  <2>2. GlobalOK'
    BY <1>1, <1>5, <2>1 DEF GlobalOK, AbsTypeOK
  <2>3. QED
    BY <1>5, <2>1, <2>2, StepOfThread
<1>6. ASSUME NEW off \in Offsets \cup {None}
      PROVE  At(v, off) \in Nat /\ (off = None => At(v, off) = cursor[v])
  BY <1>2, SizeAssumption, CallAssumption DEF At
<1>7. CASE \E p \in Offsets : Seek(t, v, p)
  <2> PICK p \in Offsets : Seek(t, v, p)
    BY <1>7
  <2>1. CASE p <= DataSize /\ cursor' = [cursor EXCEPT ![v] = p] /\ Returns(t, "ok")
    <3>1. p \in 0 .. DataSize
      BY <2>1, CallAssumption, SizeAssumption
    <3>2. /\ cursor' \in [View -> 0 .. DataSize]
          /\ \A w \in View \ Uses[t] : cursor'[w] = cursor[w]
      BY <1>1, <2>1, <3>1 DEF GlobalOK
    <3>3. QED
      BY <1>3, <2>1, <3>2 DEF Seek
  <2>2. CASE UNCHANGED cursor /\ Returns(t, "error")
    BY <1>4, <2>2 DEF Seek
  <2>3. QED
    BY <2>1, <2>2 DEF Seek
<1>8. CASE \E off \in Offsets \cup {None}, b \in Payloads : BeginWrite(t, v, off, b)
  <2> PICK off \in Offsets \cup {None}, b \in Payloads : BeginWrite(t, v, off, b)
    BY <1>8
  <2> DEFINE p == At(v, off)
  <2>1. CASE InBounds(p, Len(b)) /\ Proceeds(t, "write_lock", WriteCall(v, off, p, b))
    <3>1. b \in Seq(Byte) /\ b # <<>> /\ p + Len(b) <= DataSize
      BY <2>1, CallAssumption DEF InBounds
    <3>2. p \in 0 .. DataSize /\ (off = None => p = cursor[v])
      BY <1>6, <3>1, SizeAssumption
    <3> HIDE DEF p
    <3>3. QED
      BY <1>5, <2>1, <3>1, <3>2 DEF BeginWrite
  <2>2. CASE Returns(t, "error")
    BY <1>4, <2>2 DEF BeginWrite
  <2>3. QED
    BY <2>1, <2>2 DEF BeginWrite
<1>9. CASE WriteUnpackable(t, v)
  BY <1>4, <1>9 DEF WriteUnpackable
<1>10. CASE Zero(t, v)
  <2>1. Zeros \in Seq(Byte) /\ Zeros # <<>> /\ 0 + Len(Zeros) <= DataSize
    <3>1. Zeros \in [1 .. DataSize -> Byte]
      BY DEF Zeros, Byte
    <3>2. Zeros \in Seq(Byte) /\ Len(Zeros) = DataSize
      BY <3>1, SizeAssumption
    <3>3. QED
      BY <3>2, SizeAssumption
  <2>2. 0 \in 0 .. DataSize /\ 0 # None
    BY SizeAssumption DEF None
  <2>3. QED
    BY <1>5, <1>10, <2>1, <2>2 DEF Zero
<1>11. ASSUME NEW off \in Nat, NEW n \in Nat, ReadRange(t, v, off, n)
       PROVE  Parts'
  <2>1. CASE InBounds(off, n) /\ Proceeds(t, "read_lock", ReadCall(v, off, off, <<Fixed(n)>>))
    <3>1. off \in 0 .. DataSize /\ off # None /\ n \in Nat \ {0}
      BY <2>1, SizeAssumption DEF InBounds, None
    <3>2. <<Fixed(n)>> \in Seq(Field)
      BY <3>1 DEF Fixed, Field
    <3>3. QED
      BY <1>5, <1>11, <2>1, <3>1, <3>2 DEF ReadRange
  <2>2. CASE Returns(t, "error")
    BY <1>4, <1>11, <2>2 DEF ReadRange
  <2>3. QED
    BY <1>11, <2>1, <2>2 DEF ReadRange
<1>12. CASE \E f \in {Fixed(1), Prefixed, Unknown} : Read(t, v, f)
  <2> PICK f \in {Fixed(1), Prefixed, Unknown} : Read(t, v, f)
    BY <1>12
  <2>1. <<f>> \in Seq(Field)
    BY DEF Fixed, Field
  <2>2. QED
    BY <1>2, <1>5, <2>1 DEF Read
<1>13. CASE \E off \in Offsets \cup {None}, schema \in Schemas : ReadMixed(t, v, off, schema)
  <2> PICK off \in Offsets \cup {None}, schema \in Schemas : ReadMixed(t, v, off, schema)
    BY <1>13
  <2> DEFINE p == At(v, off)
  <2>1. CASE p < DataSize /\ Proceeds(t, "read_lock", ReadCall(v, off, p, schema))
    <3>1. p \in 0 .. DataSize /\ (off = None => p = cursor[v]) /\ schema \in Seq(Field)
      BY <1>6, <2>1, SizeAssumption, CallAssumption
    <3> HIDE DEF p
    <3>2. QED
      BY <1>5, <2>1, <3>1 DEF ReadMixed
  <2>2. CASE Returns(t, "error")
    BY <1>4, <2>2 DEF ReadMixed
  <2>3. QED
    BY <2>1, <2>2 DEF ReadMixed
<1>14. QED
  <2>1. 0 \in Nat /\ DataSize \in Nat
    BY SizeAssumption
  <2>2. QED
    BY <1>7, <1>8, <1>9, <1>10, <1>11, <1>12, <1>13, <2>1, CallAssumption DEF Begins

\* A step inside a call: only its own call, its own view's cursor, and the bytes
\* of the area change.
LEMMA RunsOK ==
  ASSUME PrivateViews, Parts, NEW t \in Thread, Runs(t)
  PROVE  Parts'
<1> DEFINE c == call[t]
<1>1. GlobalOK /\ ThreadOK(t) /\ Uses[t] \subseteq View
  BY UsesAssumption DEF Parts
<1>2. pc[t] \in WritePc \cup ReadPc
  BY DEF Runs, WriteLocked, WriteByte, Written, WriteReturns, ReadLocked, ReadBeyondEnd,
     ReadByte, CallsPython, PythonReturns, PythonRaises, ReadFails, ReadEnds, ReadReturns,
     Goes, WritePc, ReadPc
<1>3. /\ c.view \in Uses[t] /\ c.pos \in Nat /\ c.bytes \in Seq(Byte) /\ c.auto \in BOOLEAN
      /\ c.pos + Len(c.bytes) <= DataSize
      /\ c.auto => cursor[c.view] = c.pos + Transferred(t)
  <2>1. c \in WriteCalls \/ c \in ReadCalls
    BY <1>1, <1>2 DEF ThreadOK
  <2>2. pc[t] # "idle"
    BY <1>2 DEF WritePc, ReadPc
  <2>3. c.pos \in Nat /\ c.bytes \in Seq(Byte) /\ c.auto \in BOOLEAN
    BY <2>1 DEF WriteCalls, ReadCalls
  <2>4. QED
    BY <1>1, <2>2, <2>3 DEF ThreadOK
\* The lock only is taken, or given back.
<1>4. ASSUME AcquireExclusive(t) \/ AcquireShared(t) \/ Release(t)
      PROVE  AbsTypeOK'
  BY <1>1, <1>4 DEF GlobalOK, AbsTypeOK, HoldModes, AcquireExclusive, AcquireShared, Release
\* The call goes on at another place, with the same locals.
<1>5. ASSUME NEW to \in WritePc \cup (ReadPc \ {"undefined"}), pc' = [pc EXCEPT ![t] = to],
             ThreadOK(t)', AbsTypeOK', UNCHANGED <<area, call, res, alive, calls>>,
             out' \in [Thread -> Seq(Byte)],
             cursor' \in [View -> 0 .. DataSize],
             \A v \in View \ Uses[t] : cursor'[v] = cursor[v]
      PROVE  Parts'
  <2>1. GlobalOK' /\ \A u \in Thread \ {t} : pc'[u] = pc[u] /\ call'[u] = call[u]
    BY <1>1, <1>5 DEF GlobalOK
  <2>2. QED
    BY <1>5, <2>1, StepOfThread
\* The call is over.
<1>6. ASSUME NEW result \in {"ok", "error"}, Returns(t, result), AbsTypeOK',
             UNCHANGED <<area, cursor, out, alive, calls>>
      PROVE  Parts'
  <2>1. GlobalOK'
    BY <1>1, <1>6, ReturnsOK DEF GlobalOK
  <2>2. QED
    BY <1>1, <1>6, <2>1, ReturnsOK, StepOfThread
<1>7. CASE WriteLocked(t)
  <2>1. pc[t] = "write_lock" /\ pc'[t] = "writing" /\ UNCHANGED <<call, cursor>>
    BY <1>1, <1>7 DEF WriteLocked, Goes, GlobalOK
  <2>2. ThreadOK(t)'
    BY <1>1, <2>1 DEF ThreadOK, Transferred, WritePc, ReadPc
  <2>3. QED
    BY <1>1, <1>4, <1>5, <1>7, <2>2 DEF WriteLocked, Goes, GlobalOK, WritePc
<1>8. CASE WriteByte(t)
  <2>1. /\ pc[t] = "writing" /\ c \in WriteCalls /\ c.done \in Nat /\ c.done < Len(c.bytes)
    BY <1>1, <1>8 DEF WriteByte, ThreadOK, WritePc, WriteCalls
  <2>2. /\ c.pos + c.done \in Address /\ c.bytes[c.done + 1] \in Byte
    <3>1. c.pos \in Nat /\ c.bytes \in Seq(Byte) /\ c.pos + Len(c.bytes) <= DataSize
      BY <1>3
    <3> HIDE DEF c
    <3>2. c.done + 1 \in 1 .. Len(c.bytes) /\ c.pos + c.done \in 0 .. DataSize - 1
      BY <2>1, <3>1, SizeAssumption
    <3>3. QED
      BY <3>1, <3>2 DEF Address
  <2>3. area' \in [Address -> Byte]
    BY <1>1, <1>8, <2>2 DEF WriteByte, GlobalOK
  <2> DEFINE d == [c EXCEPT !.done = @ + 1]
             to == IF c.done + 1 = Len(c.bytes) THEN "written" ELSE "writing"
  <2>4. /\ d \in WriteCalls /\ d.done = c.done + 1 /\ d.view = c.view /\ d.pos = c.pos
        /\ d.bytes = c.bytes /\ d.auto = c.auto
    BY <2>1 DEF WriteCalls
  <2>5. call' = [call EXCEPT ![t] = d] /\ pc' = [pc EXCEPT ![t] = to] /\ UNCHANGED cursor
    BY <1>8 DEF WriteByte
  <2> HIDE DEF c, d
  <2>6. /\ call'[t] = d /\ pc'[t] = to /\ to \in {"writing", "written"}
        /\ \A u \in Thread \ {t} : pc'[u] = pc[u] /\ call'[u] = call[u]
    BY <1>1, <2>5 DEF GlobalOK
  <2>7. Transferred(t) = 0 /\ Transferred(t)' = 0
    BY <2>1, <2>6 DEF Transferred
  <2>8. to = "writing" => d.done < Len(d.bytes)
    BY <1>3, <2>1, <2>4
  <2> HIDE DEF to
  <2>9. ThreadOK(t)'
    BY <1>3, <2>4, <2>5, <2>6, <2>7, <2>8 DEF ThreadOK, WritePc, ReadPc
  <2>10. GlobalOK'
    <3>1. pc' \in [Thread -> {"idle"} \cup WritePc \cup (ReadPc \ {"undefined"})]
      BY <1>1, <2>5, <2>6 DEF GlobalOK, WritePc
    <3>2. call' \in [Thread -> {NoCall} \cup WriteCalls \cup ReadCalls]
      BY <1>1, <2>4, <2>5 DEF GlobalOK
    <3>3. UNCHANGED <<cursor, res, out, alive, calls, hold>>
      BY <1>8 DEF WriteByte
    <3>4. QED
      BY <1>1, <2>3, <3>1, <3>2, <3>3 DEF GlobalOK, AbsTypeOK
  <2>11. QED
    BY <2>5, <2>6, <2>9, <2>10, StepOfThread
\* The fetch_add at the end of a call.
<1>9. ASSUME cursor' = Advanced(c), Transferred(t) = 0
      PROVE  /\ cursor' \in [View -> 0 .. DataSize]
             /\ \A v \in View \ Uses[t] : cursor'[v] = cursor[v]
             /\ c.auto => cursor'[c.view] = c.pos + Len(c.bytes)
  <2> DEFINE new == IF c.auto THEN cursor[c.view] + Len(c.bytes) ELSE cursor[c.view]
  <2>1. cursor' = [cursor EXCEPT ![c.view] = new]
    BY <1>9 DEF Advanced
  <2>2. c.view \in View /\ cursor \in [View -> 0 .. DataSize]
    BY <1>1, <1>3 DEF GlobalOK
  <2>3. new \in 0 .. DataSize /\ (c.auto => new = c.pos + Len(c.bytes))
    <3>1. cursor[c.view] \in 0 .. DataSize
      BY <2>2
    <3>2. CASE c.auto
      BY <1>3, <1>9, <3>2, SizeAssumption
    <3>3. CASE ~c.auto
      BY <3>1, <3>3
    <3>4. QED
      BY <3>2, <3>3
  <2> HIDE DEF new, c
  <2>4. QED
    BY <1>3, <2>1, <2>2, <2>3
<1>10. CASE Written(t)
  <2>1. /\ pc[t] = "written" /\ pc' = [pc EXCEPT ![t] = "write_unlock"] /\ pc'[t] = "write_unlock"
        /\ UNCHANGED call /\ cursor' = Advanced(c)
    BY <1>1, <1>10 DEF Written, Goes, GlobalOK
  <2>2. Transferred(t) = 0 /\ Transferred(t)' = Len(c.bytes)
    BY <2>1 DEF Transferred
  <2>3. ThreadOK(t)'
    BY <1>1, <1>3, <1>9, <2>1, <2>2 DEF ThreadOK, WritePc, ReadPc
  <2>4. QED
    BY <1>1, <1>5, <1>9, <1>10, <2>1, <2>2, <2>3 DEF Written, GlobalOK, AbsTypeOK, WritePc
<1>11. CASE WriteReturns(t)
  BY <1>4, <1>6, <1>11 DEF WriteReturns
<1>12. CASE ReadLocked(t)
  <2>1. pc[t] = "read_lock" /\ pc'[t] = "reading" /\ UNCHANGED <<call, cursor>>
    BY <1>1, <1>12 DEF ReadLocked, Goes, GlobalOK
  <2>2. ThreadOK(t)'
    BY <1>1, <2>1 DEF ThreadOK, Transferred, FieldsOK, WritePc, ReadPc
  <2>3. QED
    BY <1>1, <1>4, <1>5, <1>12, <2>2 DEF ReadLocked, Goes, GlobalOK, ReadPc
<1>13. CASE ReadBeyondEnd(t)
  \* Its guard is false: a call starts inside the area.
  <2>1. c.pos > DataSize
    BY <1>13 DEF ReadBeyondEnd
  <2>2. QED
    BY <1>3, <2>1, SizeAssumption
<1>14. CASE ReadByte(t)
  <2> DEFINE n == Len(c.bytes)
             b == Append(c.bytes, area[c.pos + n])
             d == [c EXCEPT !.bytes = b, !.fields = FieldsAfterByte(c.fields, b)]
  <2>1. /\ pc[t] = "reading" /\ c \in ReadCalls /\ c.fields \in Fields
        /\ FieldsOK(c.fields, n) /\ c.fields # <<>> /\ Head(c.fields).kind \notin {"unknown", "index"}
        /\ c.pos + n + Head(c.fields).width <= DataSize
    BY <1>1, <1>14 DEF ReadByte, ThreadOK, ReadPc, ReadCalls, Readable, Fields, FieldType
  <2>2. Head(c.fields).width \in Nat /\ Head(c.fields).width > 0
    <3>1. Head(c.fields) = c.fields[1] /\ c.fields[1] \in FieldType /\ 1 \in 1 .. Len(c.fields)
      BY <2>1 DEF Fields
    <3>2. QED
      BY <2>1, <3>1 DEF FieldsOK, FieldType
  <2>3. n \in Nat /\ c.pos + n \in Address /\ c.pos + n + 1 <= DataSize
    <3>1. c.pos \in Nat /\ n \in Nat
      BY <1>3
    <3> HIDE DEF c, n
    <3>2. QED
      BY <2>1, <2>2, <3>1, SizeAssumption DEF Address
  <2>4. area[c.pos + n] \in Byte
    BY <1>1, <2>3 DEF GlobalOK
  <2>5. b \in Seq(Byte) /\ Len(b) = n + 1
    BY <1>3, <2>4
  <2>6. FieldsAfterByte(c.fields, b) \in Fields /\ FieldsOK(FieldsAfterByte(c.fields, b), Len(b))
    <3> HIDE DEF b, c, n
    <3>1. Len(b) > 0 /\ Len(b) - 1 = n
      BY <2>3, <2>5
    <3>2. QED
      BY <2>1, <2>5, <3>1, FieldsAfterByteOK
  <2>7. /\ call' = [call EXCEPT ![t] = d] /\ UNCHANGED <<pc, cursor>>
    BY <1>14 DEF ReadByte
  <2> HIDE DEF b
  <2>8. /\ d \in ReadCalls /\ d.view = c.view /\ d.pos = c.pos /\ d.auto = c.auto
        /\ d.bytes = b /\ d.fields = FieldsAfterByte(c.fields, b)
    BY <2>1, <2>5, <2>6 DEF ReadCalls, Fields, FieldType
  <2> HIDE DEF c, d
  <2>9. /\ call'[t] = d
        /\ \A u \in Thread \ {t} : call'[u] = call[u]
    BY <1>1, <2>7 DEF GlobalOK
  <2>10. Transferred(t) = 0 /\ Transferred(t)' = 0
    BY <2>1, <2>7 DEF Transferred
  <2>11. c.pos + Len(b) <= DataSize
    BY <1>3, <2>3, <2>5
  <2>12. FieldsOK(d.fields, Len(d.bytes))
    BY <2>6, <2>8
  <2>13. ThreadOK(t)'
    BY <1>3, <2>1, <2>7, <2>8, <2>9, <2>10, <2>11, <2>12 DEF ThreadOK, FieldsOK, WritePc, ReadPc
  <2>14. GlobalOK'
    BY <1>1, <1>14, <2>7, <2>8 DEF GlobalOK, ReadByte, AbsTypeOK
  <2>15. QED
    BY <2>7, <2>9, <2>13, <2>14, StepOfThread
<1>15. CASE ReadFails(t)
  BY <1>4, <1>6, <1>15 DEF ReadFails
<1>16. CASE ReadEnds(t)
  <2>1. /\ pc[t] = "reading" /\ pc' = [pc EXCEPT ![t] = "read_unlock"] /\ pc'[t] = "read_unlock"
        /\ UNCHANGED call /\ cursor' = Advanced(c)
    BY <1>1, <1>16 DEF ReadEnds, Goes, GlobalOK
  <2>2. Transferred(t) = 0 /\ Transferred(t)' = Len(c.bytes)
    BY <2>1 DEF Transferred
  <2>3. ThreadOK(t)'
    BY <1>1, <1>3, <1>9, <2>1, <2>2 DEF ThreadOK, WritePc, ReadPc
  <2>4. out' \in [Thread -> Seq(Byte)]
    BY <1>1, <1>3, <1>16 DEF ReadEnds, GlobalOK
  <2>5. QED
    BY <1>1, <1>5, <1>9, <1>16, <2>1, <2>2, <2>3, <2>4 DEF ReadEnds, GlobalOK, AbsTypeOK, ReadPc
<1>17. CASE ReadReturns(t)
  BY <1>4, <1>6, <1>17 DEF ReadReturns
\* Python code runs in the middle of the read: the position is the one that was loaded.
<1>18. CASE CallsPython(t)
  <2> DEFINE d == [c EXCEPT !.fields = Tail(@)]
  <2>1. /\ pc[t] = "reading" /\ pc' = [pc EXCEPT ![t] = "python"]
        /\ call' = [call EXCEPT ![t] = d] /\ c.fields # <<>> /\ UNCHANGED cursor
    BY <1>18 DEF CallsPython, Goes
  <2>2. c \in ReadCalls /\ c.fields \in Fields /\ FieldsOK(c.fields, Len(c.bytes))
    BY <1>1, <2>1 DEF ThreadOK, ReadPc, ReadCalls, Fields, FieldType
  <2>3. Tail(c.fields) \in Fields /\ FieldsOK(Tail(c.fields), Len(c.bytes))
    <3>1. Len(c.bytes) \in Nat
      BY <1>3
    <3>2. QED
      BY <2>1, <2>2, <3>1, FieldsTailOK
  <2>4. /\ d \in ReadCalls /\ d.view = c.view /\ d.pos = c.pos /\ d.auto = c.auto
        /\ d.bytes = c.bytes /\ d.fields = Tail(c.fields)
    BY <2>2, <2>3 DEF ReadCalls, Fields, FieldType
  <2> HIDE DEF c, d
  <2>5. /\ call'[t] = d /\ pc'[t] = "python"
        /\ \A u \in Thread \ {t} : pc'[u] = pc[u] /\ call'[u] = call[u]
    BY <1>1, <2>1 DEF GlobalOK
  <2>6. Transferred(t) = 0 /\ Transferred(t)' = 0
    BY <2>1, <2>5 DEF Transferred
  <2>7. FieldsOK(d.fields, Len(d.bytes)) /\ d.pos + Len(d.bytes) <= DataSize
    BY <1>3, <2>3, <2>4
  <2>8. ThreadOK(t)'
    BY <1>3, <2>1, <2>4, <2>5, <2>6, <2>7 DEF ThreadOK, FieldsOK, WritePc, ReadPc
  <2>9. GlobalOK'
    BY <1>1, <1>18, <2>1, <2>4 DEF GlobalOK, CallsPython, AbsTypeOK, ReadPc
  <2>10. QED
    BY <2>1, <2>5, <2>8, <2>9, StepOfThread
<1>19. CASE PythonReturns(t)
  <2>1. pc[t] = "python" /\ pc'[t] = "reading" /\ UNCHANGED <<call, cursor>>
    BY <1>1, <1>19 DEF PythonReturns, Goes, GlobalOK
  <2>2. ThreadOK(t)'
    BY <1>1, <2>1 DEF ThreadOK, Transferred, FieldsOK, WritePc, ReadPc
  <2>3. QED
    BY <1>1, <1>5, <1>19, <2>2 DEF PythonReturns, Goes, GlobalOK, AbsTypeOK, ReadPc
<1>20. CASE PythonRaises(t)
  BY <1>4, <1>6, <1>20 DEF PythonRaises
<1>21. QED
  BY <1>7, <1>8, <1>10, <1>11, <1>12, <1>13, <1>14, <1>15, <1>16, <1>17, <1>18, <1>19, <1>20 DEF Runs

LEMMA NextParts ==
  ASSUME PrivateViews, Parts, [Next]_vars
  PROVE  Parts'
<1>1. CASE UNCHANGED vars
  BY <1>1 DEF vars, Parts, GlobalOK, AbsTypeOK, ThreadOK, Transferred, FieldsOK
<1>2. ASSUME NEW t \in Thread, Crash(t) PROVE Parts'
  BY <1>2 DEF Crash, Parts, GlobalOK, AbsTypeOK, ThreadOK, Transferred, FieldsOK
<1>3. QED
  BY <1>1, <1>2, BeginsOK, RunsOK DEF Next

\* The invariant, for views that no two flows share (PrivateViews).
THEOREM Invariance == PrivateViews => (Spec => []IInv)
<1> SUFFICES ASSUME PrivateViews PROVE Spec => []IInv
  OBVIOUS
<1>1. Parts /\ [Next]_vars => Parts'
  BY NextParts
<1>2. QED
  BY <1>1, InitParts, PartsIInv, PTL DEF Spec

\* Cursors, locals and results keep their types, and with them every index into the area
\* (src/mapped_view.rs).
THEOREM ViewTypes == PrivateViews => (Spec => []TypeOK)
<1> SUFFICES ASSUME PrivateViews PROVE Spec => []TypeOK
  OBVIOUS
<1>1. IInv => TypeOK
  BY DEF IInv
<1>2. QED
  BY <1>1, Invariance, PTL

\* Whatever calls are made, `data_size - pos` in read never underflows: no read
\* starts beyond the end of the area (src/mapped_view.rs, read).
THEOREM ReadsAreInArea == PrivateViews => (Spec => []ReadsStayInArea)
<1> SUFFICES ASSUME PrivateViews PROVE Spec => []ReadsStayInArea
  OBVIOUS
<1>1. IInv => ReadsStayInArea
  BY DEF IInv
<1>2. QED
  BY <1>1, Invariance, PTL

\* What check_bounds found before the lock is taken holds until it is released
\* (src/mapped_view.rs, write, write_mixed, read_range, read_mixed).
THEOREM CallsFit == PrivateViews => (Spec => [](TypeOK /\ CallsFitArea))
<1> SUFFICES ASSUME PrivateViews PROVE Spec => [](TypeOK /\ CallsFitArea)
  OBVIOUS
<1>1. IInv => TypeOK /\ CallsFitArea
  BY DEF IInv
<1>2. QED
  BY <1>1, Invariance, PTL

\* A call that ends has moved its view's cursor by what it transferred, and by
\* nothing if it fails (src/mapped_view.rs, the fetch_add of each call).
THEOREM CursorFollows == PrivateViews => (Spec => CursorFollowsCalls)
<1> DEFINE End(t) ==
      pc[t] # "idle" /\ pc'[t] = "idle" /\ call[t].auto =>
        cursor'[call[t].view] = call[t].pos + IF res'[t] = "ok" THEN Len(call[t].bytes) ELSE 0
<1> SUFFICES ASSUME PrivateViews PROVE Spec => CursorFollowsCalls
  OBVIOUS
<1>1. ASSUME Parts, [Next]_vars PROVE \A t \in Thread : End(t)
  <2> SUFFICES ASSUME NEW t \in Thread, pc[t] # "idle", pc'[t] = "idle", call[t].auto
               PROVE  End(t)
    OBVIOUS
  <2>1. /\ GlobalOK /\ call[t].pos \in Nat
        /\ cursor[call[t].view] = call[t].pos + Transferred(t)
    BY <1>1 DEF Parts, GlobalOK, ThreadOK, WritePc, ReadPc, WriteCalls, ReadCalls
  <2>2. PICK u \in Thread : Runs(u) \/ (\E v \in View : Begins(u, v)) \/ Crash(u)
    BY <1>1 DEF Next, vars
  <2>3. ~Crash(u)
    BY DEF Crash
  <2>4. ASSUME NEW v \in View, Begins(u, v) PROVE FALSE
    <3>1. pc[u] = "idle"
      BY <2>4 DEF Begins, Calls, Seek, BeginWrite, WriteUnpackable, Zero, ReadRange, Read, ReadMixed
    <3>2. \/ \E result \in {"ok", "error"} : Returns(u, result)
          \/ \E lock, c : Proceeds(u, lock, c)
      BY <2>4 DEF Begins, Seek, BeginWrite, WriteUnpackable, Zero, ReadRange, Read, ReadMixed
    <3>3. QED
      BY <2>1, <3>1, <3>2 DEF Returns, Proceeds, GlobalOK
  <2>5. WriteReturns(u) \/ PythonRaises(u) \/ ReadFails(u) \/ ReadReturns(u)
    BY <2>1, <2>2, <2>3, <2>4 DEF Runs, WriteLocked, WriteByte, Written, ReadLocked, ReadBeyondEnd,
       ReadByte, CallsPython, PythonReturns, ReadEnds, Goes, GlobalOK
  <2>6. u = t /\ UNCHANGED cursor
    BY <2>1, <2>5 DEF WriteReturns, PythonRaises, ReadFails, ReadReturns, Returns, GlobalOK
  <2>7. CASE ReadFails(t) \/ PythonRaises(t)
    <3>1. res'[t] = "error" /\ Transferred(t) = 0
      BY <2>1, <2>7 DEF PythonRaises, ReadFails, Returns, Transferred, GlobalOK
    <3>2. QED
      BY <2>1, <2>6, <3>1
  <2>8. CASE WriteReturns(t) \/ ReadReturns(t)
    <3>1. res'[t] = "ok" /\ Transferred(t) = Len(call[t].bytes)
      BY <2>1, <2>8 DEF WriteReturns, ReadReturns, Returns, Transferred, GlobalOK
    <3>2. QED
      BY <2>1, <2>6, <3>1
  <2>9. QED
    BY <2>5, <2>6, <2>7, <2>8
<1>2. Parts /\ [Next]_vars => Parts'
  BY NextParts
<1>3. QED
  BY <1>1, <1>2, InitParts, PTL DEF Spec, CursorFollowsCalls

-----------------------------------------------------------------------------
(* The calls are atomic, for any number of threads and views, any area and    *)
(* any calls: on the area whoever shares views, and on the area with its      *)
(* positions if no two flows share one.                                      *)
(*                                                                          *)
(* A write takes effect when it gets the lock, although its bytes come one    *)
(* by one; a read when it has its last byte.  It holds together because the   *)
(* bytes that a call has copied are those of the area (CopiesOK), and because *)
(* only a thread that is alone in the lock changes the area.                 *)

Exclusive == {"writing", "written", "write_unlock"}
Shared == {"reading", "python", "read_unlock", "undefined"}

CommonOK ==
  /\ hold \in [Thread -> HoldModes]
  /\ \A t \in Thread : /\ hold[t] = "exclusive" <=> pc[t] \in Exclusive
                       /\ hold[t] = "shared" <=> pc[t] \in Shared
  /\ \A t, u \in Thread : t # u /\ hold[t] = "exclusive" => hold[u] = "none"
  /\ area \in [Address -> Byte]
  /\ cursor \in [View -> Nat]
  /\ pc \in [Thread -> {"idle"} \cup WritePc \cup ReadPc]
  /\ call \in [Thread -> {NoCall} \cup WriteCalls \cup ReadCalls]
  /\ out \in [Thread -> Seq(Byte)]

\* What is in the area or in the call already is where it belongs.
CopiesOK(t) ==
  LET c == call[t] IN
  /\ pc[t] \in WritePc =>
       c \in WriteCalls /\ c.bytes \in Payloads \cup {Zeros} /\ c.pos + Len(c.bytes) <= DataSize
  /\ pc[t] \in ReadPc => c \in ReadCalls
  /\ pc[t] = "write_lock" => c.done = 0
  /\ pc[t] \in {"write_lock", "writing"} => c.done < Len(c.bytes)
  /\ pc[t] = "writing" => \A k \in 1 .. c.done : area[c.pos + k - 1] = c.bytes[k]
  /\ pc[t] = "read_lock" => c.bytes = <<>>
  /\ pc[t] \in {"read_lock", "reading", "python"} => FieldsOK(c.fields, Len(c.bytes))
  /\ pc[t] \in {"reading", "python", "read_unlock"} => c.pos + Len(c.bytes) <= DataSize
  /\ pc[t] \in {"reading", "python"} => \A k \in 1 .. Len(c.bytes) : c.bytes[k] = area[c.pos + k - 1]

\* The inductive invariant.
AtomicInv == CommonOK /\ \A t \in Thread : CopiesOK(t)

LEMMA InitAtomicInv == Init => AtomicInv
<1> SUFFICES ASSUME Init PROVE AtomicInv
  OBVIOUS
<1>1. CommonOK
  BY SizeAssumption DEF Init, AbsInit, CommonOK, HoldModes, Exclusive, Shared, Address, Byte
<1>2. \A t \in Thread : CopiesOK(t)
  BY DEF Init, CopiesOK, WritePc, ReadPc
<1>3. QED
  BY <1>1, <1>2 DEF AtomicInv

\* A step of t keeps what is true of the copies of another thread: only a thread
\* that is alone in the lock changes the area.
LEMMA StepKeepsCopies ==
  ASSUME AtomicInv, NEW t \in Thread, CommonOK', CopiesOK(t)',
         \A u \in Thread \ {t} : pc'[u] = pc[u] /\ call'[u] = call[u],
         UNCHANGED area \/ pc[t] = "writing"
  PROVE  AtomicInv'
<1>1. ASSUME NEW u \in Thread \ {t} PROVE CopiesOK(u)'
  <2>0. CopiesOK(u) /\ pc'[u] = pc[u] /\ call'[u] = call[u]
    BY <1>1 DEF AtomicInv
  <2>1. CASE UNCHANGED area
    BY <2>0, <2>1 DEF CopiesOK, FieldsOK
  <2>2. CASE pc[t] = "writing"
    <3>1. hold[t] = "exclusive"
      BY <2>2 DEF AtomicInv, CommonOK, Exclusive
    <3>2. pc[u] \notin Exclusive \cup Shared
      BY <1>1, <3>1 DEF AtomicInv, CommonOK
    <3>3. QED
      BY <2>0, <3>2 DEF CopiesOK, FieldsOK, Exclusive, Shared
  <2>3. QED
    BY <2>1, <2>2
<1>2. QED
  BY <1>1 DEF AtomicInv

\* Whatever step t makes: it keeps the lock as its place in the call has it.
LEMMA StepAtomic ==
  ASSUME AtomicInv, NEW t \in Thread,
         NEW to \in {"idle"} \cup WritePc \cup ReadPc, pc' = [pc EXCEPT ![t] = to],
         NEW c \in {NoCall} \cup WriteCalls \cup ReadCalls, call' = [call EXCEPT ![t] = c],
         NEW mode \in HoldModes, hold' = [hold EXCEPT ![t] = mode],
         mode = "exclusive" <=> to \in Exclusive,
         mode = "shared" <=> to \in Shared,
         mode = "exclusive" => hold[t] = "exclusive" \/ \A u \in Thread : hold[u] = "none",
         mode = "shared" => hold[t] = "shared" \/ \A u \in Thread : hold[u] # "exclusive",
         area' \in [Address -> Byte], UNCHANGED area \/ pc[t] = "writing",
         cursor' \in [View -> Nat], out' \in [Thread -> Seq(Byte)],
         CopiesOK(t)'
  PROVE  AtomicInv' /\ \A u \in Thread \ {t} : pc'[u] = pc[u] /\ call'[u] = call[u]
<1>1. CommonOK
  BY DEF AtomicInv
<1>2. /\ pc'[t] = to /\ hold'[t] = mode
      /\ \A u \in Thread \ {t} : pc'[u] = pc[u] /\ call'[u] = call[u] /\ hold'[u] = hold[u]
      /\ pc' \in [Thread -> {"idle"} \cup WritePc \cup ReadPc]
      /\ call' \in [Thread -> {NoCall} \cup WriteCalls \cup ReadCalls]
      /\ hold' \in [Thread -> HoldModes]
  BY <1>1 DEF CommonOK
<1>3. \A u \in Thread : /\ hold'[u] = "exclusive" <=> pc'[u] \in Exclusive
                        /\ hold'[u] = "shared" <=> pc'[u] \in Shared
  BY <1>1, <1>2 DEF CommonOK
<1>4. ASSUME NEW u \in Thread, NEW w \in Thread, u # w, hold'[u] = "exclusive"
      PROVE  hold'[w] = "none"
  <2>1. CASE u = t
    BY <1>1, <1>2, <1>4, <2>1 DEF CommonOK
  <2>2. CASE w = t
    BY <1>1, <1>2, <1>4, <2>2 DEF CommonOK, HoldModes
  <2>3. CASE u # t /\ w # t
    BY <1>1, <1>2, <1>4, <2>3 DEF CommonOK
  <2>4. QED
    BY <2>1, <2>2, <2>3
<1>5. CommonOK'
  BY <1>2, <1>3, <1>4 DEF CommonOK
<1>6. QED
  BY <1>2, <1>5, StepKeepsCopies

-----------------------------------------------------------------------------
(* A call begins.                                                           *)

\* All that the methods do before the lock: return, or go for it with bytes that fit,
\* or with a schema.
LEMMA BeginsEffect ==
  ASSUME cursor \in [View -> Nat], NEW t \in Thread, NEW v \in View, Begins(t, v)
  PROVE  /\ pc[t] = "idle" /\ v \in Uses[t] /\ UNCHANGED <<area, out, hold>>
         /\ \/ /\ \E result \in {"ok", "error"} : Returns(t, result)
               /\ \/ UNCHANGED cursor
                  \/ \E p \in 0 .. DataSize : cursor' = [cursor EXCEPT ![v] = p]
            \/ /\ UNCHANGED cursor
               /\ \E off \in Int, p \in Nat, b \in Payloads \cup {Zeros} :
                    /\ b # <<>> /\ p + Len(b) <= DataSize
                    /\ Proceeds(t, "write_lock", WriteCall(v, off, p, b))
            \/ /\ UNCHANGED cursor
               /\ \E off \in Int, p \in Nat, fs \in Seq(Field) :
                    Proceeds(t, "read_lock", ReadCall(v, off, p, fs))
<1>1. Calls(t, v)
  BY DEF Begins, Seek, BeginWrite, WriteUnpackable, Zero, ReadRange, Read, ReadMixed
<1>2. UNCHANGED <<area, out, hold>>
  BY DEF Begins, Seek, BeginWrite, WriteUnpackable, Zero, ReadRange, Read, ReadMixed
<1>3. \A off \in Offsets \cup {None} : off \in Int /\ At(v, off) \in Nat
  BY CallAssumption DEF At, None
<1>4. DataSize \in Nat /\ 0 \in Nat /\ None \in Int
  BY SizeAssumption DEF None
<1> DEFINE Goal ==
         \/ /\ \E result \in {"ok", "error"} : Returns(t, result)
            /\ \/ UNCHANGED cursor
               \/ \E p \in 0 .. DataSize : cursor' = [cursor EXCEPT ![v] = p]
         \/ /\ UNCHANGED cursor
            /\ \E off \in Int, p \in Nat, b \in Payloads \cup {Zeros} :
                 /\ b # <<>> /\ p + Len(b) <= DataSize
                 /\ Proceeds(t, "write_lock", WriteCall(v, off, p, b))
         \/ /\ UNCHANGED cursor
            /\ \E off \in Int, p \in Nat, fs \in Seq(Field) :
                 Proceeds(t, "read_lock", ReadCall(v, off, p, fs))
<1>5. ASSUME NEW p \in Offsets, Seek(t, v, p) PROVE Goal
  <2>1. p \in Nat
    BY CallAssumption
  <2>2. CASE p <= DataSize /\ cursor' = [cursor EXCEPT ![v] = p] /\ Returns(t, "ok")
    <3>1. p \in 0 .. DataSize
      BY <1>4, <2>1, <2>2
    <3>2. QED
      BY <2>2, <3>1
  <2>3. CASE UNCHANGED cursor /\ Returns(t, "error")
    BY <2>3
  <2>4. QED
    BY <1>5, <2>2, <2>3 DEF Seek
<1>6. ASSUME NEW off \in Offsets \cup {None}, NEW b \in Payloads, BeginWrite(t, v, off, b)
      PROVE  Goal
  <2> DEFINE p == At(v, off)
  <2>1. p \in Nat /\ off \in Int /\ b \in Seq(Byte) /\ UNCHANGED cursor
    BY <1>3, <1>6, CallAssumption DEF BeginWrite
  <2>2. \/ InBounds(p, Len(b)) /\ Proceeds(t, "write_lock", WriteCall(v, off, p, b))
        \/ Returns(t, "error")
    BY <1>6 DEF BeginWrite
  <2> HIDE DEF p
  <2>3. InBounds(p, Len(b)) => b # <<>> /\ p + Len(b) <= DataSize
    BY <2>1 DEF InBounds
  <2>4. QED
    BY <2>1, <2>2, <2>3
<1>7. ASSUME WriteUnpackable(t, v) PROVE Goal
  BY <1>7 DEF WriteUnpackable
<1>8. ASSUME Zero(t, v) PROVE Goal
  <2>1. Zeros # <<>> /\ 0 + Len(Zeros) <= DataSize
    <3>1. Zeros \in [1 .. DataSize -> {0}]
      BY DEF Zeros
    <3>2. Zeros \in Seq({0}) /\ Len(Zeros) = DataSize
      BY <3>1, SizeAssumption
    <3>3. QED
      BY <3>2, SizeAssumption
  <2>2. UNCHANGED cursor /\ Proceeds(t, "write_lock", WriteCall(v, 0, 0, Zeros))
    BY <1>8 DEF Zero
  <2>3. Zeros \in Payloads \cup {Zeros} /\ 0 \in Int /\ 0 \in Nat
    OBVIOUS
  <2>4. QED
    BY <2>1, <2>2, <2>3
<1>9. ASSUME NEW off \in Nat, NEW n \in Nat, ReadRange(t, v, off, n) PROVE Goal
  <2>1. UNCHANGED cursor
    BY <1>9 DEF ReadRange
  <2>2. CASE InBounds(off, n) /\ Proceeds(t, "read_lock", ReadCall(v, off, off, <<Fixed(n)>>))
    <3>1. <<Fixed(n)>> \in Seq(Field)
      BY <2>2 DEF InBounds, Fixed, Field
    <3>2. off \in Int
      OBVIOUS
    <3>3. QED
      BY <2>1, <2>2, <3>1, <3>2
  <2>3. CASE Returns(t, "error")
    BY <2>1, <2>3
  <2>4. QED
    BY <1>9, <2>2, <2>3 DEF ReadRange
<1>10. ASSUME NEW f \in {Fixed(1), Prefixed, Unknown}, Read(t, v, f) PROVE Goal
  <2>1. <<f>> \in Seq(Field)
    BY DEF Fixed, Field
  <2>2. cursor[v] \in Nat /\ UNCHANGED cursor
        /\ Proceeds(t, "read_lock", ReadCall(v, None, cursor[v], <<f>>))
    BY <1>10 DEF Read
  <2>3. QED
    BY <1>4, <2>1, <2>2
<1>11. ASSUME NEW off \in Offsets \cup {None}, NEW schema \in Schemas, ReadMixed(t, v, off, schema)
       PROVE  Goal
  <2> DEFINE p == At(v, off)
  <2>1. p \in Nat /\ off \in Int /\ schema \in Seq(Field) /\ UNCHANGED cursor
    BY <1>3, <1>11, CallAssumption DEF ReadMixed
  <2>2. \/ Proceeds(t, "read_lock", ReadCall(v, off, p, schema))
        \/ Returns(t, "error")
    BY <1>11 DEF ReadMixed
  <2> HIDE DEF p
  <2>3. QED
    BY <2>1, <2>2
<1> HIDE DEF Goal
<1>12. Goal
  <2>1. ASSUME NEW off \in Offsets, NEW n \in Ranges, ReadRange(t, v, off, n) PROVE Goal
    BY <1>9, <2>1, CallAssumption
  <2>2. CASE ReadRange(t, v, 0, DataSize)
    BY <1>4, <1>9, <2>2
  <2>3. CASE \E off \in Offsets \cup {None}, b \in Payloads : BeginWrite(t, v, off, b)
    BY <1>6, <2>3
  <2>4. CASE \E f \in {Fixed(1), Prefixed, Unknown} : Read(t, v, f)
    BY <1>10, <2>4
  <2>5. CASE \E off \in Offsets \cup {None}, schema \in Schemas : ReadMixed(t, v, off, schema)
    BY <1>11, <2>5
  <2>6. CASE \E p \in Offsets : Seek(t, v, p)
    BY <1>5, <2>6
  <2>7. CASE \E off \in Offsets, n \in Ranges : ReadRange(t, v, off, n)
    BY <2>1, <2>7
  <2>8. QED
    BY <1>7, <1>8, <2>2, <2>3, <2>4, <2>5, <2>6, <2>7 DEF Begins
<1>13. QED
  BY <1>1, <1>2, <1>12 DEF Goal, Calls

LEMMA BeginsAtomic ==
  ASSUME AtomicInv, NEW t \in Thread, NEW v \in View, Begins(t, v)
  PROVE  /\ AtomicInv' /\ UNCHANGED <<area, out>>
         /\ pc[t] = "idle" /\ pc'[t] \in {"idle", "write_lock", "read_lock"}
         /\ \A u \in Thread \ {t} : pc'[u] = pc[u] /\ call'[u] = call[u]
<1>1. /\ cursor \in [View -> Nat] /\ v \in View
      /\ hold \in [Thread -> HoldModes] /\ area \in [Address -> Byte]
      /\ pc \in [Thread -> {"idle"} \cup WritePc \cup ReadPc]
      /\ call \in [Thread -> {NoCall} \cup WriteCalls \cup ReadCalls]
  BY DEF AtomicInv, CommonOK
<1>2. pc[t] = "idle" /\ UNCHANGED <<area, out, hold>>
  BY <1>1, BeginsEffect
<1>3. hold[t] = "none" /\ hold' = [hold EXCEPT ![t] = "none"]
  BY <1>1, <1>2 DEF AtomicInv, CommonOK, Exclusive, Shared, HoldModes
<1>4. ASSUME cursor' \in [View -> Nat],
             NEW to \in {"idle", "write_lock", "read_lock"}, pc' = [pc EXCEPT ![t] = to],
             NEW c \in {NoCall} \cup WriteCalls \cup ReadCalls, call' = [call EXCEPT ![t] = c],
             CopiesOK(t)'
      PROVE  /\ AtomicInv' /\ pc'[t] \in {"idle", "write_lock", "read_lock"}
             /\ \A u \in Thread \ {t} : pc'[u] = pc[u] /\ call'[u] = call[u]
  <2>1. /\ to \in {"idle"} \cup WritePc \cup ReadPc /\ "none" \in HoldModes
        /\ to \notin Exclusive /\ to \notin Shared
    BY DEF WritePc, ReadPc, Exclusive, Shared, HoldModes
  <2>2. area' \in [Address -> Byte] /\ out' \in [Thread -> Seq(Byte)]
    BY <1>2 DEF AtomicInv, CommonOK
  <2>3. pc'[t] \in {"idle", "write_lock", "read_lock"}
    BY <1>1, <1>4
  <2>4. QED
    BY <1>2, <1>3, <1>4, <2>1, <2>2, <2>3, StepAtomic
<1>5. CASE /\ \E result \in {"ok", "error"} : Returns(t, result)
           /\ \/ UNCHANGED cursor
              \/ \E p \in 0 .. DataSize : cursor' = [cursor EXCEPT ![v] = p]
  <2>1. cursor' \in [View -> Nat]
    BY <1>1, <1>5
  <2>2. pc' = [pc EXCEPT ![t] = "idle"] /\ call' = [call EXCEPT ![t] = NoCall] /\ pc'[t] = "idle"
    BY <1>1, <1>5 DEF Returns
  <2>3. CopiesOK(t)'
    BY <2>2 DEF CopiesOK, WritePc, ReadPc
  <2>4. QED
    BY <1>2, <1>4, <2>1, <2>2, <2>3
<1>6. ASSUME UNCHANGED cursor, NEW off \in Int, NEW p \in Nat, NEW b \in Payloads \cup {Zeros},
             b # <<>>, p + Len(b) <= DataSize,
             Proceeds(t, "write_lock", WriteCall(v, off, p, b))
      PROVE  /\ AtomicInv' /\ pc'[t] \in {"idle", "write_lock", "read_lock"}
             /\ \A u \in Thread \ {t} : pc'[u] = pc[u] /\ call'[u] = call[u]
  <2> DEFINE c == WriteCall(v, off, p, b)
  <2>1. b \in Seq(Byte)
    <3>1. Zeros \in [1 .. DataSize -> Byte]
      BY DEF Zeros, Byte
    <3>2. Zeros \in Seq(Byte)
      BY <3>1, SizeAssumption
    <3>3. QED
      BY <3>2, CallAssumption
  <2>2. c \in WriteCalls /\ c.pos = p /\ c.bytes = b /\ c.done = 0
    BY <1>6, <2>1 DEF WriteCall, WriteCalls
  <2>3. Len(b) > 0
    BY <1>6, <2>1
  <2>4. pc' = [pc EXCEPT ![t] = "write_lock"] /\ call' = [call EXCEPT ![t] = c]
    BY <1>6 DEF Proceeds
  <2> HIDE DEF c
  <2>5. pc'[t] = "write_lock" /\ call'[t] = c
    BY <1>1, <2>4
  <2>6. CopiesOK(t)'
    BY <1>6, <2>2, <2>3, <2>5 DEF CopiesOK, WritePc, ReadPc
  <2>7. QED
    BY <1>1, <1>4, <1>6, <2>2, <2>4, <2>6
<1>7. ASSUME UNCHANGED cursor, NEW off \in Int, NEW p \in Nat, NEW fs \in Seq(Field),
             Proceeds(t, "read_lock", ReadCall(v, off, p, fs))
      PROVE  /\ AtomicInv' /\ pc'[t] \in {"idle", "write_lock", "read_lock"}
             /\ \A u \in Thread \ {t} : pc'[u] = pc[u] /\ call'[u] = call[u]
  <2> DEFINE c == ReadCall(v, off, p, fs)
  <2>1. fs \in Fields /\ FieldsOK(fs, 0)
    <3>1. Field \subseteq FieldType
      BY SizeAssumption DEF Field, FieldType, Prefixed, Unknown, Index
    <3>2. \A k \in 1 .. Len(fs) : fs[k] \in Field
      OBVIOUS
    <3>3. fs \in Fields
      BY <3>1, <3>2 DEF Fields
    <3>4. QED
      BY <3>2, <3>3, SizeAssumption DEF FieldsOK, Field, Prefixed, Unknown, Index
  <2>2. c \in ReadCalls /\ c.bytes = <<>> /\ c.fields = fs
    BY <1>7, <2>1 DEF ReadCall, ReadCalls, Fields, FieldType
  <2>4. pc' = [pc EXCEPT ![t] = "read_lock"] /\ call' = [call EXCEPT ![t] = c]
    BY <1>7 DEF Proceeds
  <2> HIDE DEF c
  <2>5. pc'[t] = "read_lock" /\ call'[t] = c
    BY <1>1, <2>4
  <2>6. Len(<<>>) = 0
    OBVIOUS
  <2>7. CopiesOK(t)'
    BY <2>1, <2>2, <2>5, <2>6 DEF CopiesOK, FieldsOK, WritePc, ReadPc
  <2>8. QED
    BY <1>1, <1>4, <1>7, <2>2, <2>4, <2>7
<1>8. QED
  BY <1>1, <1>2, <1>5, <1>6, <1>7, BeginsEffect

-----------------------------------------------------------------------------
(* A call goes on.                                                          *)

\* What the fetch_add leaves is a cursor.
LEMMA AdvancedType ==
  ASSUME cursor \in [View -> Nat], NEW c \in WriteCalls \cup ReadCalls
  PROVE  Advanced(c) \in [View -> Nat]
<1>1. c.view \in View /\ c.bytes \in Seq(Byte)
  BY DEF WriteCalls, ReadCalls
<1>2. Len(c.bytes) \in Nat
  BY <1>1
<1> DEFINE new == IF c.auto THEN cursor[c.view] + Len(c.bytes) ELSE cursor[c.view]
<1>3. new \in Nat
  BY <1>1, <1>2
<1>4. Advanced(c) = [cursor EXCEPT ![c.view] = new]
  BY DEF Advanced
<1> HIDE DEF new
<1>5. QED
  BY <1>1, <1>3, <1>4

LEMMA RunsAtomic ==
  ASSUME AtomicInv, NEW t \in Thread, Runs(t)
  PROVE  AtomicInv' /\ \A u \in Thread \ {t} : pc'[u] = pc[u] /\ call'[u] = call[u]
<1> DEFINE c == call[t]
<1>1. CommonOK /\ CopiesOK(t)
  BY DEF AtomicInv
<1>2. /\ area \in [Address -> Byte] /\ cursor \in [View -> Nat] /\ out \in [Thread -> Seq(Byte)]
      /\ hold \in [Thread -> HoldModes]
      /\ pc \in [Thread -> {"idle"} \cup WritePc \cup ReadPc]
      /\ call \in [Thread -> {NoCall} \cup WriteCalls \cup ReadCalls]
      /\ c \in {NoCall} \cup WriteCalls \cup ReadCalls
      /\ hold[t] = "exclusive" <=> pc[t] \in Exclusive
      /\ hold[t] = "shared" <=> pc[t] \in Shared
      /\ hold[t] \in HoldModes
  BY <1>1 DEF CommonOK
<1> DEFINE Kept == AtomicInv' /\ \A u \in Thread \ {t} : pc'[u] = pc[u] /\ call'[u] = call[u]
\* Another place, the same hold.
<1>3. ASSUME NEW to \in WritePc \cup ReadPc, pc' = [pc EXCEPT ![t] = to],
             to \in Exclusive <=> pc[t] \in Exclusive, to \in Shared <=> pc[t] \in Shared,
             NEW d \in WriteCalls \cup ReadCalls, call' = [call EXCEPT ![t] = d], UNCHANGED hold,
             area' \in [Address -> Byte], UNCHANGED area \/ pc[t] = "writing",
             cursor' \in [View -> Nat], out' \in [Thread -> Seq(Byte)], CopiesOK(t)'
      PROVE  Kept
  <2>1. hold' = [hold EXCEPT ![t] = hold[t]]
    BY <1>2, <1>3
  <2>2. QED
    BY <1>2, <1>3, <2>1, StepAtomic
\* The lock is taken.
<1>4. ASSUME NEW to \in WritePc \cup ReadPc, pc' = [pc EXCEPT ![t] = to],
             UNCHANGED <<area, cursor, call, out>>, CopiesOK(t)',
             \/ AcquireExclusive(t) /\ to \in Exclusive /\ to \notin Shared
             \/ AcquireShared(t) /\ to \in Shared /\ to \notin Exclusive
      PROVE  Kept
  <2>1. call' = [call EXCEPT ![t] = c]
    BY <1>2, <1>4
  <2>2. CASE AcquireExclusive(t) /\ to \in Exclusive /\ to \notin Shared
    BY <1>2, <1>4, <2>1, <2>2, StepAtomic DEF AcquireExclusive, HoldModes
  <2>3. CASE AcquireShared(t) /\ to \in Shared /\ to \notin Exclusive
    BY <1>2, <1>4, <2>1, <2>3, StepAtomic DEF AcquireShared, HoldModes
  <2>4. QED
    BY <1>4, <2>2, <2>3
\* The call is over.
<1>5. ASSUME NEW result, Returns(t, result), Release(t), UNCHANGED <<area, cursor, out>>
      PROVE  Kept
  <2>1. /\ pc' = [pc EXCEPT ![t] = "idle"] /\ call' = [call EXCEPT ![t] = NoCall]
        /\ hold' = [hold EXCEPT ![t] = "none"] /\ pc'[t] = "idle"
    BY <1>2, <1>5 DEF Returns, Release
  <2>2. CopiesOK(t)'
    BY <2>1 DEF CopiesOK, WritePc, ReadPc
  <2>3. "idle" \notin Exclusive /\ "idle" \notin Shared /\ "none" \in HoldModes
    BY DEF Exclusive, Shared, HoldModes
  <2>4. QED
    BY <1>2, <1>5, <2>1, <2>2, <2>3, StepAtomic
<1>6. CASE WriteLocked(t)
  <2>1. /\ pc[t] = "write_lock" /\ pc' = [pc EXCEPT ![t] = "writing"] /\ pc'[t] = "writing"
        /\ UNCHANGED <<area, cursor, call, out>> /\ AcquireExclusive(t)
    BY <1>2, <1>6 DEF WriteLocked, Goes
  <2>2. CopiesOK(t)'
    BY <1>1, <2>1 DEF CopiesOK, WritePc, ReadPc
  <2>3. QED
    BY <1>4, <2>1, <2>2 DEF WritePc, Exclusive, Shared
<1>7. CASE WriteByte(t)
  <2> DEFINE d == [c EXCEPT !.done = @ + 1]
             to == IF c.done + 1 = Len(c.bytes) THEN "written" ELSE "writing"
  <2>1. /\ pc[t] = "writing" /\ pc' = [pc EXCEPT ![t] = to] /\ call' = [call EXCEPT ![t] = d]
        /\ area' = [area EXCEPT ![c.pos + c.done] = c.bytes[c.done + 1]]
        /\ UNCHANGED <<cursor, out, hold>>
    BY <1>7 DEF WriteByte
  <2>2. /\ c \in WriteCalls /\ c.bytes \in Payloads \cup {Zeros} /\ c.pos + Len(c.bytes) <= DataSize
        /\ c.done < Len(c.bytes)
        /\ \A k \in 1 .. c.done : area[c.pos + k - 1] = c.bytes[k]
    BY <1>1, <2>1 DEF CopiesOK, WritePc
  <2>3. c.pos \in Nat /\ c.bytes \in Seq(Byte) /\ c.done \in Nat /\ Len(c.bytes) \in Nat
    BY <2>2 DEF WriteCalls
  <2>4. /\ d \in WriteCalls /\ d.done = c.done + 1 /\ d.pos = c.pos /\ d.bytes = c.bytes
    BY <2>2, <2>3 DEF WriteCalls
  <2> HIDE DEF c, d, to
  <2>5. pc'[t] = to /\ call'[t] = d
    BY <1>2, <2>1
  <2>6. c.pos + c.done \in Address /\ c.bytes[c.done + 1] \in Byte
    BY <2>2, <2>3, SizeAssumption DEF Address
  <2>7. area' \in [Address -> Byte]
    BY <1>2, <2>1, <2>6
  <2>8. ASSUME NEW k \in 1 .. d.done PROVE area'[d.pos + k - 1] = d.bytes[k]
    <3>1. k \in Nat /\ 1 <= k /\ k <= c.done + 1 /\ c.pos + k - 1 \in Address
      BY <2>2, <2>3, <2>4, <2>8, SizeAssumption DEF Address
    <3>2. CASE k = c.done + 1
      BY <1>2, <2>1, <2>3, <2>4, <2>6, <3>2
    <3>3. CASE k <= c.done
      <4>1. c.pos + k - 1 # c.pos + c.done /\ k \in 1 .. c.done
        BY <2>3, <3>1, <3>3
      <4>2. area'[c.pos + k - 1] = area[c.pos + k - 1]
        BY <1>2, <2>1, <3>1, <4>1
      <4>3. QED
        BY <2>2, <2>4, <4>1, <4>2
    <3>4. QED
      BY <2>3, <3>1, <3>2, <3>3
  <2>9. to \in {"writing", "written"} /\ (to = "writing" => d.done < Len(d.bytes))
    <3>1. c.done \in Nat /\ Len(c.bytes) \in Nat /\ c.done < Len(c.bytes)
      BY <2>2, <2>3
    <3>2. d.done = c.done + 1 /\ d.bytes = c.bytes
      BY <2>4
    <3>3. QED
      BY <3>1, <3>2 DEF to
  <2>10. CopiesOK(t)'
    BY <2>2, <2>4, <2>5, <2>8, <2>9 DEF CopiesOK, WritePc, ReadPc
  <2>11. QED
    BY <1>2, <1>3, <2>1, <2>4, <2>7, <2>9, <2>10 DEF WritePc, Exclusive, Shared
<1>8. CASE Written(t)
  <2>1. /\ pc[t] = "written" /\ pc' = [pc EXCEPT ![t] = "write_unlock"] /\ pc'[t] = "write_unlock"
        /\ UNCHANGED <<area, call, out, hold>> /\ cursor' = Advanced(c)
    BY <1>2, <1>8 DEF Written, Goes
  <2>2. c \in WriteCalls /\ CopiesOK(t)'
    BY <1>1, <2>1 DEF CopiesOK, WritePc, ReadPc
  <2>3. cursor' \in [View -> Nat]
    BY <1>2, <2>1, <2>2, AdvancedType
  <2>4. call' = [call EXCEPT ![t] = c]
    BY <1>2, <2>1
  <2>5. QED
    BY <1>2, <1>3, <2>1, <2>2, <2>3, <2>4 DEF WritePc, Exclusive, Shared
<1>9. CASE WriteReturns(t)
  BY <1>5, <1>9 DEF WriteReturns
<1>10. CASE ReadLocked(t) \/ ReadBeyondEnd(t)
  <2>1. PICK to \in {"reading", "undefined"} :
          /\ pc[t] = "read_lock" /\ pc' = [pc EXCEPT ![t] = to] /\ pc'[t] = to
          /\ UNCHANGED <<area, cursor, call, out>> /\ AcquireShared(t)
          /\ to = "reading" => c.pos <= DataSize
    BY <1>2, <1>10 DEF ReadLocked, ReadBeyondEnd, Goes
  <2>2. c \in ReadCalls /\ c.bytes = <<>> /\ FieldsOK(c.fields, Len(c.bytes))
    BY <1>1, <2>1 DEF CopiesOK, ReadPc
  <2>3. c.pos \in Nat /\ Len(c.bytes) = 0
    BY <2>2 DEF ReadCalls
  <2>4. CopiesOK(t)'
    <3>1. call'[t] = c
      BY <2>1
    <3> HIDE DEF c
    <3>2. QED
      BY <2>1, <2>2, <2>3, <3>1 DEF CopiesOK, FieldsOK, WritePc, ReadPc
  <2>5. QED
    BY <1>4, <2>1, <2>4 DEF ReadPc, Exclusive, Shared
<1>11. CASE ReadByte(t)
  <2> DEFINE n == Len(c.bytes)
             b == Append(c.bytes, area[c.pos + n])
             d == [c EXCEPT !.bytes = b, !.fields = FieldsAfterByte(c.fields, b)]
  <2>1. /\ pc[t] = "reading" /\ call' = [call EXCEPT ![t] = d] /\ Readable(c)
        /\ UNCHANGED <<area, cursor, pc, out, hold>>
    BY <1>11 DEF ReadByte
  <2>2. /\ c \in ReadCalls /\ FieldsOK(c.fields, n)
        /\ \A k \in 1 .. n : c.bytes[k] = area[c.pos + k - 1]
    BY <1>1, <2>1 DEF CopiesOK, ReadPc
  <2>3. /\ c.pos \in Nat /\ c.bytes \in Seq(Byte) /\ n \in Nat /\ c.fields \in Fields
        /\ c.fields # <<>> /\ Head(c.fields).kind \notin {"unknown", "index"}
        /\ c.pos + n + Head(c.fields).width <= DataSize
    BY <2>1, <2>2 DEF ReadCalls, Readable, Fields, FieldType
  <2>4. Head(c.fields).width \in Nat /\ Head(c.fields).width > 0
    <3>1. Head(c.fields) = c.fields[1] /\ c.fields[1] \in FieldType /\ 1 \in 1 .. Len(c.fields)
      BY <2>3 DEF Fields
    <3>2. QED
      BY <2>2, <2>3, <3>1 DEF FieldsOK, FieldType
  <2> HIDE DEF c, n
  <2>5. c.pos + n \in Address /\ c.pos + n + 1 <= DataSize
    BY <2>3, <2>4, SizeAssumption DEF Address
  <2> USE DEF n
  <2>6. /\ b \in Seq(Byte) /\ Len(b) = n + 1 /\ b[n + 1] = area[c.pos + n]
        /\ \A k \in 1 .. n : b[k] = c.bytes[k]
    <3>1. area[c.pos + n] \in Byte
      BY <1>2, <2>5
    <3>2. QED
      BY <2>3, <3>1
  <2> HIDE DEF n, b
  <2>7. FieldsAfterByte(c.fields, b) \in Fields /\ FieldsOK(FieldsAfterByte(c.fields, b), Len(b))
    <3>1. Len(b) > 0 /\ Len(b) - 1 = n
      BY <2>3, <2>6
    <3>2. QED
      BY <2>2, <2>3, <2>6, <3>1, FieldsAfterByteOK
  <2>8. /\ d \in ReadCalls /\ d.pos = c.pos /\ d.bytes = b /\ d.fields = FieldsAfterByte(c.fields, b)
    BY <2>2, <2>6, <2>7 DEF ReadCalls, Fields, FieldType
  <2> HIDE DEF d
  <2>9. call'[t] = d /\ pc'[t] = "reading"
    BY <1>2, <2>1
  <2>10. ASSUME NEW k \in 1 .. Len(b) PROVE b[k] = area[c.pos + k - 1]
    <3>1. CASE k = n + 1
      <4>1. c.pos + k - 1 = c.pos + n
        BY <2>3, <3>1
      <4>2. QED
        BY <2>6, <3>1, <4>1
    <3>2. CASE k # n + 1
      <4>1. k \in 1 .. n
        BY <2>3, <2>6, <2>10, <3>2
      <4>2. QED
        BY <2>2, <2>6, <4>1
    <3>3. QED
      BY <3>1, <3>2
  <2>11. d.pos + Len(d.bytes) <= DataSize
    <3>1. c.pos \in Nat /\ n \in Nat /\ c.pos + n + 1 <= DataSize
      BY <2>3, <2>5
    <3>2. d.pos = c.pos /\ Len(d.bytes) = n + 1
      BY <2>6, <2>8
    <3>3. QED
      BY <3>1, <3>2, SizeAssumption
  <2>12. CopiesOK(t)'
    BY <2>1, <2>7, <2>8, <2>9, <2>10, <2>11 DEF CopiesOK, FieldsOK, WritePc, ReadPc
  <2>13. pc' = [pc EXCEPT ![t] = "reading"]
    BY <1>2, <2>1
  <2>14. QED
    BY <1>2, <1>3, <2>1, <2>8, <2>12, <2>13 DEF ReadPc, Exclusive, Shared
<1>12. CASE ReadFails(t)
  BY <1>5, <1>12 DEF ReadFails
<1>13. CASE ReadEnds(t)
  <2>1. /\ pc[t] = "reading" /\ pc' = [pc EXCEPT ![t] = "read_unlock"] /\ pc'[t] = "read_unlock"
        /\ UNCHANGED <<area, call, hold>> /\ cursor' = Advanced(c)
        /\ out' = [out EXCEPT ![t] = c.bytes]
    BY <1>2, <1>13 DEF ReadEnds, Goes
  <2>2. c \in ReadCalls /\ CopiesOK(t)'
    BY <1>1, <2>1 DEF CopiesOK, WritePc, ReadPc
  <2>3. cursor' \in [View -> Nat] /\ c.bytes \in Seq(Byte)
    BY <1>2, <2>1, <2>2, AdvancedType DEF ReadCalls
  <2>4. call' = [call EXCEPT ![t] = c] /\ out' \in [Thread -> Seq(Byte)]
    BY <1>2, <2>1, <2>3
  <2>5. QED
    BY <1>2, <1>3, <2>1, <2>2, <2>3, <2>4 DEF ReadPc, Exclusive, Shared
<1>14. CASE ReadReturns(t)
  BY <1>5, <1>14 DEF ReadReturns
\* Nobody changes the area while the Python code runs: t has the lock.
<1>15. CASE CallsPython(t)
  <2> DEFINE d == [c EXCEPT !.fields = Tail(@)]
  <2>1. /\ pc[t] = "reading" /\ pc' = [pc EXCEPT ![t] = "python"] /\ pc'[t] = "python"
        /\ call' = [call EXCEPT ![t] = d] /\ c.fields # <<>>
        /\ UNCHANGED <<area, cursor, out, hold>>
    BY <1>2, <1>15 DEF CallsPython, Goes
  <2>2. /\ c \in ReadCalls /\ FieldsOK(c.fields, Len(c.bytes)) /\ c.pos + Len(c.bytes) <= DataSize
        /\ \A k \in 1 .. Len(c.bytes) : c.bytes[k] = area[c.pos + k - 1]
    BY <1>1, <2>1 DEF CopiesOK, ReadPc
  <2>3. c.fields \in Fields /\ Len(c.bytes) \in Nat
    BY <2>2 DEF ReadCalls, Fields, FieldType
  <2>4. Tail(c.fields) \in Fields /\ FieldsOK(Tail(c.fields), Len(c.bytes))
    BY <2>1, <2>2, <2>3, FieldsTailOK
  <2>5. /\ d \in ReadCalls /\ d.pos = c.pos /\ d.bytes = c.bytes /\ d.fields = Tail(c.fields)
    BY <2>2, <2>4 DEF ReadCalls, Fields, FieldType
  <2> HIDE DEF c, d
  <2>6. call'[t] = d
    BY <1>2, <2>1
  <2>7. /\ FieldsOK(d.fields, Len(d.bytes)) /\ d.pos + Len(d.bytes) <= DataSize
        /\ \A k \in 1 .. Len(d.bytes) : d.bytes[k] = area'[d.pos + k - 1]
    BY <2>1, <2>2, <2>4, <2>5
  <2>8. CopiesOK(t)'
    BY <2>1, <2>5, <2>6, <2>7 DEF CopiesOK, WritePc, ReadPc
  <2>9. QED
    BY <1>2, <1>3, <2>1, <2>5, <2>8 DEF ReadPc, Exclusive, Shared
<1>16. CASE PythonReturns(t)
  <2>1. /\ pc[t] = "python" /\ pc' = [pc EXCEPT ![t] = "reading"] /\ pc'[t] = "reading"
        /\ UNCHANGED <<area, cursor, call, out, hold>>
    BY <1>2, <1>16 DEF PythonReturns, Goes
  <2>2. c \in ReadCalls /\ CopiesOK(t)'
    BY <1>1, <2>1 DEF CopiesOK, FieldsOK, WritePc, ReadPc
  <2>3. call' = [call EXCEPT ![t] = c]
    BY <1>2, <2>1
  <2>4. QED
    BY <1>2, <1>3, <2>1, <2>2, <2>3 DEF ReadPc, Exclusive, Shared
<1>17. CASE PythonRaises(t)
  BY <1>5, <1>17 DEF PythonRaises
<1>18. QED
  BY <1>6, <1>7, <1>8, <1>9, <1>10, <1>11, <1>12, <1>13, <1>14, <1>15, <1>16, <1>17 DEF Runs

LEMMA NextAtomicInv ==
  ASSUME AtomicInv, [Next]_vars
  PROVE  AtomicInv'
<1>1. ASSUME UNCHANGED <<area, cursor, pc, call, out, hold>> PROVE AtomicInv'
  <2>1. CommonOK'
    BY <1>1 DEF AtomicInv, CommonOK
  <2>2. ASSUME NEW u \in Thread PROVE CopiesOK(u)'
    BY <1>1, <2>2 DEF AtomicInv, CopiesOK, FieldsOK
  <2>3. QED
    BY <2>1, <2>2 DEF AtomicInv
<1>2. UNCHANGED vars \/ (\E t \in Thread : Crash(t)) => UNCHANGED <<area, cursor, pc, call, out, hold>>
  BY DEF vars, Crash
<1>3. QED
  BY <1>1, <1>2, BeginsAtomic, RunsAtomic DEF Next

-----------------------------------------------------------------------------
(* The area as the calls see it.                                            *)

\* Memory and Position with the state as parameters, so that a lemma says what they are
\* before a step and after it.
MemOf(ar, p, c) ==
  [a \in Address |->
     IF \E t \in Thread : p[t] = "writing" /\ a \in c[t].pos .. c[t].pos + Len(c[t].bytes) - 1
     THEN LET w == CHOOSE t \in Thread : p[t] = "writing" IN c[w].bytes[a - c[w].pos + 1]
     ELSE ar[a]]
PosOf(cur, p, c) ==
  [v \in View |->
     IF \E t \in Thread : p[t] \in {"writing", "written"} /\ c[t].view = v /\ c[t].auto
     THEN LET w == CHOOSE t \in Thread : p[t] \in {"writing", "written"} IN cur[v] + Len(c[w].bytes)
     ELSE cur[v]]

LEMMA MemoryIs ==
  /\ Memory = MemOf(area, pc, call)
  /\ Memory' = MemOf(area', pc', call')
BY DEF Memory, MemOf, InFlight

\* Nobody writes: it is what it is.
LEMMA QuietMemory ==
  ASSUME NEW ar, ar \in [Address -> Byte], NEW p, NEW c, \A t \in Thread : p[t] # "writing"
  PROVE  MemOf(ar, p, c) = ar
BY DEF MemOf

\* Somebody writes, alone: all its bytes are there.
LEMMA BusyMemory ==
  ASSUME NEW ar, ar \in [Address -> Byte], NEW p, NEW c, NEW w \in Thread, p[w] = "writing",
         \A t \in Thread : p[t] = "writing" => t = w
  PROVE  MemOf(ar, p, c) = Area!Overlay(ar, c[w].pos, c[w].bytes)
<1>1. (CHOOSE t \in Thread : p[t] = "writing") = w
  OBVIOUS
<1>2. \A a : (\E t \in Thread : p[t] = "writing" /\ a \in c[t].pos .. c[t].pos + Len(c[t].bytes) - 1)
               <=> a \in c[w].pos .. c[w].pos + Len(c[w].bytes) - 1
  OBVIOUS
<1>3. DOMAIN ar = Address
  OBVIOUS
<1>4. QED
  BY <1>1, <1>2, <1>3, Zenon DEF MemOf, Area!Overlay

\* The same area, the same writer with the same bytes, the same memory.
LEMMA SameMemory ==
  ASSUME NEW ar, ar \in [Address -> Byte], NEW p, NEW q, NEW c, NEW d,
         \A t \in Thread : p[t] = "writing" <=> q[t] = "writing",
         \A t \in Thread : p[t] = "writing" => c[t].pos = d[t].pos /\ c[t].bytes = d[t].bytes,
         \A t, u \in Thread : p[t] = "writing" /\ p[u] = "writing" => t = u
  PROVE  MemOf(ar, p, c) = MemOf(ar, q, d)
<1>1. CASE \A t \in Thread : p[t] # "writing"
  BY <1>1, QuietMemory
<1>2. CASE \E t \in Thread : p[t] = "writing"
  <2> PICK w \in Thread : p[w] = "writing"
    BY <1>2
  <2>1. /\ MemOf(ar, p, c) = Area!Overlay(ar, c[w].pos, c[w].bytes)
        /\ MemOf(ar, q, d) = Area!Overlay(ar, d[w].pos, d[w].bytes)
    BY BusyMemory
  <2>2. QED
    BY <2>1
<1>3. QED
  BY <1>1, <1>2

LEMMA OneWriter ==
  ASSUME AtomicInv
  PROVE  \A t, u \in Thread : pc[t] \in Exclusive /\ t # u => pc[u] \notin Exclusive \cup Shared
BY DEF AtomicInv, CommonOK

\* A step that leaves the area, every write under way and out alone is nothing to it.
LEMMA NothingToMemory ==
  ASSUME AtomicInv, UNCHANGED area,
         \A t \in Thread : pc[t] = "writing" <=> pc'[t] = "writing",
         \A t \in Thread : pc[t] = "writing" => call'[t] = call[t]
  PROVE  Memory' = Memory
<1>1. area \in [Address -> Byte]
  BY DEF AtomicInv, CommonOK
<1>2. \A t, u \in Thread : pc[t] = "writing" /\ pc[u] = "writing" => t = u
  BY OneWriter DEF Exclusive
<1>3. MemOf(area, pc, call) = MemOf(area, pc', call')
  BY <1>1, <1>2, SameMemory
<1>4. QED
  BY <1>3, MemoryIs

-----------------------------------------------------------------------------
(* What each step does to it.                                               *)

LEMMA BeginsMemory ==
  ASSUME AtomicInv, NEW t \in Thread, NEW v \in View, Begins(t, v)
  PROVE  Memory' = Memory /\ UNCHANGED out
<1>1. /\ UNCHANGED <<area, out>>
      /\ pc[t] # "writing" /\ pc'[t] # "writing"
      /\ \A u \in Thread \ {t} : pc'[u] = pc[u] /\ call'[u] = call[u]
  BY BeginsAtomic
<1>2. QED
  BY <1>1, NothingToMemory

\* A write takes effect, in an area that nobody else is in.
LEMMA WriteLockedMemory ==
  ASSUME AtomicInv, NEW t \in Thread, WriteLocked(t)
  PROVE  /\ UNCHANGED <<call, cursor, out>>
         /\ call[t] \in WriteCalls /\ call[t].bytes \in Payloads \cup {Zeros}
         /\ call[t].pos + Len(call[t].bytes) <= DataSize
         /\ Memory' = Area!Overlay(Memory, call[t].pos, call[t].bytes)
         /\ pc[t] = "write_lock" /\ pc'[t] = "writing"
         /\ \A u \in Thread : pc[u] \notin Exclusive /\ (u # t => pc'[u] = pc[u])
<1>1. /\ pc[t] = "write_lock" /\ pc'[t] = "writing" /\ \A u \in Thread \ {t} : pc'[u] = pc[u]
      /\ UNCHANGED <<area, call, cursor, out>>
      /\ \A u \in Thread : hold[u] = "none"
  BY DEF WriteLocked, Goes, AcquireExclusive, AtomicInv, CommonOK
<1>2. \A u \in Thread : pc[u] \notin Exclusive
  BY <1>1 DEF AtomicInv, CommonOK
<1>3. /\ call[t] \in WriteCalls /\ call[t].bytes \in Payloads \cup {Zeros}
      /\ call[t].pos + Len(call[t].bytes) <= DataSize
  BY <1>1 DEF AtomicInv, CopiesOK, WritePc
<1>4. area \in [Address -> Byte]
  BY DEF AtomicInv, CommonOK
<1>5. Memory = area
  BY <1>2, <1>4, MemoryIs, QuietMemory DEF Exclusive
<1>6. Memory' = Area!Overlay(area, call[t].pos, call[t].bytes)
  <2>1. \A u \in Thread : pc'[u] = "writing" => u = t
    BY <1>1, <1>2 DEF Exclusive
  <2>2. MemOf(area, pc', call) = Area!Overlay(area, call[t].pos, call[t].bytes)
    BY <1>1, <1>4, <2>1, BusyMemory
  <2>3. QED
    BY <1>1, <2>2, MemoryIs
<1>7. QED
  BY <1>1, <1>2, <1>3, <1>5, <1>6

\* The next byte of a write that has taken effect already: with the last one the area is
\* what everybody thought it was.
LEMMA WriteByteMemory ==
  ASSUME AtomicInv, NEW t \in Thread, WriteByte(t)
  PROVE  Memory' = Memory /\ UNCHANGED out
<1> DEFINE c == call[t]
           p == c.pos
           b == c.bytes
<1>1. /\ pc[t] = "writing" /\ UNCHANGED out
      /\ area' = [area EXCEPT ![p + c.done] = b[c.done + 1]]
      /\ call' = [call EXCEPT ![t].done = @ + 1]
      /\ pc' = [pc EXCEPT ![t] = IF c.done + 1 = Len(b) THEN "written" ELSE "writing"]
  BY DEF WriteByte
<1>2. /\ c \in WriteCalls /\ p + Len(b) <= DataSize /\ c.done < Len(b)
      /\ \A k \in 1 .. c.done : area[p + k - 1] = b[k]
  BY <1>1 DEF AtomicInv, CopiesOK, WritePc
<1>3. /\ area \in [Address -> Byte] /\ pc \in [Thread -> {"idle"} \cup WritePc \cup ReadPc]
      /\ call \in [Thread -> {NoCall} \cup WriteCalls \cup ReadCalls]
  BY DEF AtomicInv, CommonOK
<1>4. p \in Nat /\ b \in Seq(Byte) /\ c.done \in Nat /\ Len(b) \in Nat
  BY <1>2 DEF WriteCalls
<1>5. /\ call'[t].pos = p /\ call'[t].bytes = b
      /\ pc'[t] = IF c.done + 1 = Len(b) THEN "written" ELSE "writing"
      /\ \A u \in Thread \ {t} : pc'[u] = pc[u] /\ pc[u] # "writing"
  <2>1. \A u \in Thread \ {t} : pc[u] # "writing"
    BY <1>1, OneWriter DEF Exclusive
  <2>2. QED
    BY <1>1, <1>2, <1>3, <2>1 DEF WriteCalls
<1> HIDE DEF c, p, b
<1>6. area' \in [Address -> Byte]
  <2>1. p + c.done \in Address /\ b[c.done + 1] \in Byte
    BY <1>2, <1>4, SizeAssumption DEF Address
  <2>2. QED
    BY <1>1, <1>3, <2>1
<1>7. Memory = Area!Overlay(area, p, b)
  <2>1. \A u \in Thread : pc[u] = "writing" => u = t
    BY <1>5
  <2>2. MemOf(area, pc, call) = Area!Overlay(area, p, b)
    BY <1>1, <1>3, <2>1, BusyMemory DEF c, p, b
  <2>3. QED
    BY <2>2, MemoryIs
<1>8. Area!Overlay(area', p, b) = Area!Overlay(area, p, b)
  <2>1. ASSUME NEW a \in Address, a \notin p .. p + Len(b) - 1 PROVE area'[a] = area[a]
    <3>1. a # p + c.done
      BY <1>2, <1>4, <2>1
    <3>2. QED
      BY <1>1, <1>3, <3>1
  <2>2. DOMAIN area' = Address /\ DOMAIN area = Address
    BY <1>3, <1>6
  <2>3. QED
    BY <2>1, <2>2 DEF Area!Overlay
<1>9. CASE c.done + 1 # Len(b)
  <2>1. \A u \in Thread : pc'[u] = "writing" => u = t
    BY <1>5
  <2>2. MemOf(area', pc', call') = Area!Overlay(area', p, b)
    BY <1>5, <1>6, <1>9, <2>1, BusyMemory
  <2>3. QED
    BY <1>1, <1>7, <1>8, <2>2, MemoryIs
<1>10. CASE c.done + 1 = Len(b)
  <2>1. MemOf(area', pc', call') = area'
    BY <1>5, <1>6, <1>10, QuietMemory
  <2>2. ASSUME NEW a \in Address, a \in p .. p + Len(b) - 1 PROVE area'[a] = b[a - p + 1]
    <3> DEFINE k == a - p + 1
    <3>1. k \in 1 .. Len(b) /\ a = p + k - 1 /\ a \in Int
      BY <1>4, <2>2
    <3> HIDE DEF k
    <3>2. CASE k = Len(b)
      <4>1. a = p + c.done /\ k = c.done + 1
        BY <1>4, <1>10, <3>1, <3>2
      <4>2. QED
        BY <1>1, <1>3, <4>1 DEF k
    <3>3. CASE k # Len(b)
      <4>1. k \in 1 .. c.done /\ a # p + c.done
        BY <1>4, <1>10, <3>1, <3>3
      <4>2. area'[a] = area[a]
        BY <1>1, <1>3, <4>1
      <4>3. QED
        BY <1>2, <3>1, <4>1, <4>2 DEF k
    <3>4. QED
      BY <3>2, <3>3
  <2>3. Area!Overlay(area', p, b) = area'
    BY <1>6, <2>2 DEF Area!Overlay
  <2>4. QED
    BY <1>1, <1>7, <1>8, <2>1, <2>3, MemoryIs
<1>11. QED
  BY <1>1, <1>9, <1>10

\* A read has got what is in the area, while nobody writes.
LEMMA ReadEndsMemory ==
  ASSUME AtomicInv, NEW t \in Thread, ReadEnds(t)
  PROVE  LET c == call[t]
             n == Len(c.bytes)
         IN  /\ c \in ReadCalls /\ c.pos + n <= DataSize
             /\ Memory' = Memory /\ UNCHANGED call
             /\ out' = [out EXCEPT ![t] = [k \in 1 .. n |-> Memory[c.pos + k - 1]]]
             /\ cursor' = Advanced(c)
             /\ pc[t] = "reading" /\ pc'[t] = "read_unlock"
             /\ \A u \in Thread : pc[u] \notin Exclusive /\ (u # t => pc'[u] = pc[u])
<1> DEFINE c == call[t]
           n == Len(c.bytes)
<1>1. /\ pc[t] = "reading" /\ pc'[t] = "read_unlock" /\ \A u \in Thread \ {t} : pc'[u] = pc[u]
      /\ UNCHANGED <<area, call>> /\ cursor' = Advanced(c)
      /\ out' = [out EXCEPT ![t] = c.bytes]
  BY DEF ReadEnds, Goes, AtomicInv, CommonOK
<1>2. \A u \in Thread : pc[u] \notin Exclusive
  BY <1>1, OneWriter DEF Exclusive, Shared
<1>3. /\ c \in ReadCalls /\ c.pos + n <= DataSize
      /\ \A k \in 1 .. n : c.bytes[k] = area[c.pos + k - 1]
  BY <1>1 DEF AtomicInv, CopiesOK, ReadPc
<1>4. area \in [Address -> Byte]
  BY DEF AtomicInv, CommonOK
<1>5. Memory = area
  BY <1>2, <1>4, MemoryIs, QuietMemory DEF Exclusive
<1>6. Memory' = Memory
  BY <1>1, <1>2, NothingToMemory DEF Exclusive
<1>7. c.bytes = [k \in 1 .. n |-> Memory[c.pos + k - 1]]
  <2>1. c.bytes \in Seq(Byte)
    BY <1>3 DEF ReadCalls
  <2>2. c.bytes = [k \in 1 .. n |-> c.bytes[k]]
    BY <2>1
  <2>3. QED
    BY <1>3, <1>5, <2>2
<1>8. QED
  BY <1>1, <1>2, <1>3, <1>6, <1>7

\* The steps left change no byte and end no write's effect.
LEMMA OtherMemory ==
  ASSUME AtomicInv, NEW t \in Thread,
         \/ Written(t) \/ WriteReturns(t) \/ ReadLocked(t) \/ ReadBeyondEnd(t)
         \/ ReadByte(t) \/ CallsPython(t) \/ PythonReturns(t) \/ PythonRaises(t)
         \/ ReadFails(t) \/ ReadReturns(t) \/ Crash(t)
  PROVE  Memory' = Memory /\ UNCHANGED out
<1>1. /\ UNCHANGED <<area, out>>
      /\ \A u \in Thread : pc[u] = "writing" <=> pc'[u] = "writing"
      /\ \A u \in Thread : pc[u] = "writing" => call'[u] = call[u]
  BY DEF Written, WriteReturns, ReadLocked, ReadBeyondEnd, ReadByte, CallsPython, PythonReturns,
     PythonRaises, ReadFails, ReadReturns, Crash, Goes, Returns, AtomicInv, CommonOK
<1>2. QED
  BY <1>1, NothingToMemory

-----------------------------------------------------------------------------

LEMMA InitMemory == Init => Area!MemInit
<1> SUFFICES ASSUME Init PROVE Area!MemInit
  OBVIOUS
<1>1. area \in [Address -> Byte] /\ \A t \in Thread : pc[t] # "writing"
  BY InitAtomicInv DEF Init, AtomicInv, CommonOK
<1>2. Memory = area
  BY <1>1, MemoryIs, QuietMemory
<1>3. QED
  BY <1>2 DEF Init, Area!MemInit, Address

LEMMA WriteTakesEffect ==
  ASSUME AtomicInv, NEW t \in Thread, WriteLocked(t)
  PROVE  /\ Area!MemWrite(call[t].pos, call[t].bytes)
         /\ call[t].pos \in 0 .. DataSize /\ call[t].bytes \in Payloads \cup {Zeros}
<1> DEFINE p == call[t].pos
           b == call[t].bytes
<1>1. /\ p \in Nat /\ b \in Seq(Byte) /\ b \in Payloads \cup {Zeros} /\ p + Len(b) <= DataSize
      /\ Memory' = Area!Overlay(Memory, p, b) /\ UNCHANGED out
  BY WriteLockedMemory DEF WriteCalls
<1> HIDE DEF p, b
<1>2. Len(b) \in Nat /\ p \in 0 .. DataSize - Len(b) /\ p \in 0 .. DataSize
  BY <1>1, SizeAssumption
<1>3. Area!MemWrite(p, b)
  BY <1>1, <1>2 DEF Area!MemWrite
<1>4. QED
  BY <1>1, <1>2, <1>3 DEF p, b

LEMMA ReadTakesEffect ==
  ASSUME AtomicInv, NEW t \in Thread, ReadEnds(t)
  PROVE  LET n == Len(call[t].bytes)
         IN  /\ Area!MemRead(t, call[t].pos, n)
             /\ call[t].pos \in 0 .. DataSize /\ n \in 0 .. DataSize
<1> DEFINE p == call[t].pos
           n == Len(call[t].bytes)
<1>1. /\ p \in Nat /\ n \in Nat /\ p + n <= DataSize /\ Memory' = Memory
      /\ out' = [out EXCEPT ![t] = [k \in 1 .. n |-> Memory[p + k - 1]]]
  BY ReadEndsMemory DEF ReadCalls
<1> HIDE DEF p, n
<1>2. p \in 0 .. DataSize /\ n \in 0 .. DataSize
  BY <1>1, SizeAssumption
<1>3. Area!MemRead(t, p, n)
  BY <1>1 DEF Area!MemRead
<1>4. QED
  BY <1>2, <1>3 DEF p, n

LEMMA MemoryStep ==
  ASSUME AtomicInv, [Next]_vars
  PROVE  [Area!MemNext]_<<Memory, out>>
<1>1. CASE UNCHANGED vars
  <2>1. Memory' = Memory
    BY <1>1 DEF vars, Memory, InFlight
  <2>2. QED
    BY <1>1, <2>1 DEF vars
<1>2. ASSUME NEW t \in Thread, WriteLocked(t) PROVE Area!MemNext
  BY <1>2, WriteTakesEffect DEF Area!MemNext
<1>3. ASSUME NEW t \in Thread, ReadEnds(t) PROVE Area!MemNext
  BY <1>3, ReadTakesEffect DEF Area!MemNext
<1>4. ASSUME NEW t \in Thread, Runs(t) \/ Crash(t), ~WriteLocked(t), ~ReadEnds(t)
      PROVE  Memory' = Memory /\ UNCHANGED out
  BY <1>4, WriteByteMemory, OtherMemory DEF Runs
<1>5. QED
  BY <1>1, <1>2, <1>3, <1>4, BeginsMemory DEF Next

\* Every read and write of the area is one step of a file, whoever shares views: no read
\* sees a torn write, no write loses bytes of another (src/mapped_view.rs under the
\* locks of src/rwlock.rs).
THEOREM AreaIsAtomic == Spec => ImplementsMemory
<1>1. AtomicInv /\ [Next]_vars => AtomicInv' /\ [Area!MemNext]_<<Memory, out>>
  BY NextAtomicInv, MemoryStep
<1>2. QED
  BY <1>1, InitAtomicInv, InitMemory, PTL DEF Spec, ImplementsMemory, Area!MemSpec

-----------------------------------------------------------------------------
(* The positions, for views that no two flows share.                        *)

LEMMA PositionIs ==
  /\ Position = PosOf(cursor, pc, call)
  /\ Position' = PosOf(cursor', pc', call')
BY DEF Position, PosOf

\* What a call's fetch_add makes of the cursors cur.
AdvancedOf(cur, c) ==
  [cur EXCEPT ![c.view] = IF c.auto THEN cur[c.view] + Len(c.bytes) ELSE cur[c.view]]

LEMMA QuietPosition ==
  ASSUME NEW cur, cur \in [View -> Nat], NEW p, NEW c,
         \A t \in Thread : p[t] \notin {"writing", "written"}
  PROVE  PosOf(cur, p, c) = cur
BY DEF PosOf

LEMMA BusyPosition ==
  ASSUME NEW cur, cur \in [View -> Nat], NEW p, NEW c,
         NEW w \in Thread, p[w] \in {"writing", "written"},
         \A t \in Thread : p[t] \in {"writing", "written"} => t = w
  PROVE  PosOf(cur, p, c) = AdvancedOf(cur, c[w])
<1>1. (CHOOSE t \in Thread : p[t] \in {"writing", "written"}) = w
  OBVIOUS
<1>2. \A v : (\E t \in Thread : p[t] \in {"writing", "written"} /\ c[t].view = v /\ c[t].auto)
               <=> c[w].view = v /\ c[w].auto
  OBVIOUS
<1>3. PosOf(cur, p, c) =
        [v \in View |-> IF c[w].view = v /\ c[w].auto THEN cur[v] + Len(c[w].bytes) ELSE cur[v]]
  BY <1>1, <1>2, Zenon DEF PosOf
<1>4. QED
  BY <1>3 DEF AdvancedOf

\* The same cursors, the same writer with the same call, the same positions.
LEMMA SamePosition ==
  ASSUME NEW cur, cur \in [View -> Nat], NEW p, NEW q, NEW c, NEW d,
         \A t \in Thread : p[t] \in {"writing", "written"} <=> q[t] \in {"writing", "written"},
         \A t \in Thread : p[t] \in {"writing", "written"} =>
           c[t].view = d[t].view /\ c[t].auto = d[t].auto /\ c[t].bytes = d[t].bytes,
         \A t, u \in Thread : p[t] \in {"writing", "written"} /\ p[u] \in {"writing", "written"} => t = u
  PROVE  PosOf(cur, p, c) = PosOf(cur, q, d)
<1>1. CASE \A t \in Thread : p[t] \notin {"writing", "written"}
  BY <1>1, QuietPosition
<1>2. CASE \E t \in Thread : p[t] \in {"writing", "written"}
  <2> PICK w \in Thread : p[w] \in {"writing", "written"}
    BY <1>2
  <2>1. PosOf(cur, p, c) = AdvancedOf(cur, c[w])
    BY BusyPosition
  <2>2. PosOf(cur, q, d) = AdvancedOf(cur, d[w])
    <3>1. q[w] \in {"writing", "written"} /\ \A t \in Thread : q[t] \in {"writing", "written"} => t = w
      OBVIOUS
    <3>2. QED
      BY <3>1, BusyPosition
  <2>3. AdvancedOf(cur, c[w]) = AdvancedOf(cur, d[w])
    BY DEF AdvancedOf
  <2>4. QED
    BY <2>1, <2>2, <2>3
<1>3. QED
  BY <1>1, <1>2

LEMMA NothingToPosition ==
  ASSUME AtomicInv, UNCHANGED cursor,
         \A t \in Thread : pc[t] \in {"writing", "written"} <=> pc'[t] \in {"writing", "written"},
         \A t \in Thread : pc[t] \in {"writing", "written"} =>
           /\ call'[t].view = call[t].view
           /\ call'[t].auto = call[t].auto
           /\ call'[t].bytes = call[t].bytes
  PROVE  Position' = Position
<1>1. cursor \in [View -> Nat]
  BY DEF AtomicInv, CommonOK
<1>2. \A t, u \in Thread : pc[t] \in {"writing", "written"} /\ pc[u] \in {"writing", "written"} => t = u
  BY OneWriter DEF Exclusive
<1>3. PosOf(cursor, pc, call) = PosOf(cursor, pc', call')
  BY <1>1, <1>2, SamePosition
<1>4. QED
  BY <1>3, PositionIs

\* A call with an offset leaves the positions alone, a call without one moves its view's
\* from where it stands.
LEMMA AdvancedPosition ==
  ASSUME Parts, NEW t \in Thread, pc[t] \in {"write_lock", "reading"}
  PROVE  LET c == call[t]
             n == Len(c.bytes)
         IN  /\ c.view \in View /\ c.pos \in 0 .. DataSize /\ n \in 0 .. DataSize
             /\ c.pos \in 0 .. DataSize - n
             /\ c.auto \/ ~c.auto
             /\ c.auto => /\ cursor[c.view] = c.pos
                          /\ AdvancedOf(cursor, c) = [cursor EXCEPT ![c.view] = cursor[c.view] + n]
             /\ ~c.auto => AdvancedOf(cursor, c) = cursor
<1> DEFINE c == call[t]
           n == Len(c.bytes)
<1>1. /\ c \in WriteCalls \cup ReadCalls /\ c.view \in Uses[t] /\ c.pos + n <= DataSize
      /\ c.auto => cursor[c.view] = c.pos + Transferred(t)
      /\ cursor \in [View -> 0 .. DataSize]
  BY DEF Parts, ThreadOK, GlobalOK, WritePc, ReadPc
<1>2. c.view \in View /\ c.pos \in Nat /\ c.bytes \in Seq(Byte) /\ n \in Nat
  BY <1>1, UsesAssumption DEF WriteCalls, ReadCalls
<1>3. Transferred(t) = 0
  BY DEF Transferred
<1> HIDE DEF c, n
<1>4. c.pos \in 0 .. DataSize /\ n \in 0 .. DataSize /\ c.pos \in 0 .. DataSize - n
  BY <1>1, <1>2, SizeAssumption
<1>5. c.auto => cursor[c.view] = c.pos
  BY <1>1, <1>2, <1>3
<1>6. /\ c.auto => AdvancedOf(cursor, c) = [cursor EXCEPT ![c.view] = cursor[c.view] + n]
      /\ ~c.auto => AdvancedOf(cursor, c) = cursor
  BY <1>1, <1>2 DEF AdvancedOf, n
<1>7. QED
  BY <1>2, <1>4, <1>5, <1>6 DEF c, n

LEMMA AdvancedIs ==
  ASSUME NEW c
  PROVE  Advanced(c) = AdvancedOf(cursor, c)
BY DEF Advanced, AdvancedOf

\* A seek moves its own view, and never one that another thread is writing on.
LEMMA BeginsPosition ==
  ASSUME PrivateViews, Parts, AtomicInv, NEW t \in Thread, NEW v \in View, Begins(t, v)
  PROVE  \/ Position' = Position
         \/ \E p \in 0 .. DataSize : Position' = [Position EXCEPT ![v] = p]
<1>1. /\ pc[t] \notin {"writing", "written"} /\ pc'[t] \notin {"writing", "written"}
      /\ \A u \in Thread \ {t} : pc'[u] = pc[u] /\ call'[u] = call[u]
  BY BeginsAtomic
<1>2. cursor \in [View -> Nat] /\ cursor' \in [View -> Nat]
  BY BeginsAtomic DEF AtomicInv, CommonOK
<1>3. /\ v \in Uses[t]
      /\ \/ UNCHANGED cursor
         \/ \E p \in 0 .. DataSize : cursor' = [cursor EXCEPT ![v] = p]
  BY <1>2, BeginsEffect
<1>4. CASE UNCHANGED cursor
  BY <1>1, <1>4, NothingToPosition
<1>5. ASSUME NEW p \in 0 .. DataSize, cursor' = [cursor EXCEPT ![v] = p]
      PROVE  Position' = [Position EXCEPT ![v] = p]
  <2>1. CASE \A u \in Thread : pc[u] \notin {"writing", "written"}
    <3>1. \A u \in Thread : pc'[u] \notin {"writing", "written"}
      BY <1>1, <2>1
    <3>2. PosOf(cursor, pc, call) = cursor /\ PosOf(cursor', pc', call') = cursor'
      BY <1>2, <2>1, <3>1, QuietPosition
    <3>3. QED
      BY <1>5, <3>2, PositionIs
  <2>2. ASSUME NEW w \in Thread, pc[w] \in {"writing", "written"}
        PROVE  Position' = [Position EXCEPT ![v] = p]
    <3> DEFINE c == call[w]
    <3>1. /\ w # t /\ call'[w] = c /\ pc'[w] \in {"writing", "written"}
          /\ \A u \in Thread : pc[u] \in {"writing", "written"} => u = w
          /\ \A u \in Thread : pc'[u] \in {"writing", "written"} => u = w
      BY <1>1, <2>2, OneWriter DEF Exclusive
    <3>2. c.view # v
      BY <1>3, <2>2, <3>1 DEF Parts, ThreadOK, PrivateViews
    <3>3. /\ PosOf(cursor, pc, call) = AdvancedOf(cursor, c)
          /\ PosOf(cursor', pc', call') = AdvancedOf(cursor', c)
      BY <1>2, <2>2, <3>1, BusyPosition
    <3> HIDE DEF c
    <3>4. AdvancedOf(cursor', c) = [AdvancedOf(cursor, c) EXCEPT ![v] = p]
      BY <1>2, <1>5, <3>2 DEF AdvancedOf
    <3>5. QED
      BY <3>3, <3>4, PositionIs
  <2>3. QED
    BY <2>1, <2>2
<1>6. QED
  BY <1>3, <1>4, <1>5

\* With the lock, the position of a call without an offset is past its bytes.
LEMMA WriteLockedPosition ==
  ASSUME AtomicInv, NEW t \in Thread, WriteLocked(t)
  PROVE  Position = cursor /\ Position' = AdvancedOf(cursor, call[t])
<1>1. cursor \in [View -> Nat]
  BY DEF AtomicInv, CommonOK
<1>2. /\ \A u \in Thread : pc[u] \notin {"writing", "written"}
      /\ pc'[t] = "writing" /\ UNCHANGED <<call, cursor>>
      /\ \A u \in Thread : pc'[u] \in {"writing", "written"} => u = t
  BY WriteLockedMemory DEF Exclusive
<1>3. PosOf(cursor, pc, call) = cursor /\ PosOf(cursor, pc', call) = AdvancedOf(cursor, call[t])
  BY <1>1, <1>2, QuietPosition, BusyPosition
<1>4. QED
  BY <1>2, <1>3, PositionIs

\* The fetch_add of a write makes the cursor what the position was before it.
LEMMA WrittenPosition ==
  ASSUME AtomicInv, NEW t \in Thread, Written(t)
  PROVE  Position' = Position
<1>1. /\ pc[t] = "written" /\ pc'[t] = "write_unlock" /\ cursor' = AdvancedOf(cursor, call[t])
      /\ \A u \in Thread \ {t} : pc'[u] = pc[u]
  BY AdvancedIs DEF Written, Goes, AtomicInv, CommonOK
<1>2. cursor \in [View -> Nat] /\ cursor' \in [View -> Nat]
  <2>1. AtomicInv'
    BY RunsAtomic DEF Runs
  <2>2. QED
    BY <2>1 DEF AtomicInv, CommonOK
<1>3. /\ \A u \in Thread : pc[u] \in {"writing", "written"} => u = t
      /\ \A u \in Thread : pc'[u] \notin {"writing", "written"}
  BY <1>1, OneWriter DEF Exclusive
<1>4. PosOf(cursor, pc, call) = AdvancedOf(cursor, call[t]) /\ PosOf(cursor', pc', call') = cursor'
  BY <1>1, <1>2, <1>3, QuietPosition, BusyPosition
<1>5. QED
  BY <1>1, <1>4, PositionIs

\* The fetch_add of a read moves the position itself.
LEMMA ReadEndsPosition ==
  ASSUME AtomicInv, NEW t \in Thread, ReadEnds(t)
  PROVE  Position = cursor /\ Position' = AdvancedOf(cursor, call[t])
<1>1. /\ cursor' = AdvancedOf(cursor, call[t])
      /\ \A u \in Thread : pc[u] \notin {"writing", "written"} /\ pc'[u] \notin {"writing", "written"}
  BY ReadEndsMemory, AdvancedIs DEF Exclusive
<1>2. cursor \in [View -> Nat] /\ cursor' \in [View -> Nat]
  <2>1. AtomicInv'
    BY RunsAtomic DEF Runs
  <2>2. QED
    BY <2>1 DEF AtomicInv, CommonOK
<1>3. PosOf(cursor, pc, call) = cursor /\ PosOf(cursor', pc', call') = cursor'
  BY <1>1, <1>2, QuietPosition
<1>4. QED
  BY <1>1, <1>3, PositionIs

LEMMA OtherPosition ==
  ASSUME AtomicInv, NEW t \in Thread,
         \/ WriteByte(t) \/ WriteReturns(t) \/ ReadLocked(t) \/ ReadBeyondEnd(t)
         \/ ReadByte(t) \/ CallsPython(t) \/ PythonReturns(t) \/ PythonRaises(t)
         \/ ReadFails(t) \/ ReadReturns(t) \/ Crash(t)
  PROVE  Position' = Position
<1>1. CASE WriteByte(t)
  <2>1. /\ UNCHANGED cursor /\ pc[t] = "writing" /\ pc'[t] \in {"writing", "written"}
        /\ \A u \in Thread \ {t} : pc'[u] = pc[u] /\ call'[u] = call[u]
    BY <1>1 DEF WriteByte, AtomicInv, CommonOK
  <2>2. /\ call'[t].view = call[t].view
        /\ call'[t].auto = call[t].auto
        /\ call'[t].bytes = call[t].bytes
    <3>1. call[t] \in WriteCalls /\ call \in [Thread -> {NoCall} \cup WriteCalls \cup ReadCalls]
      BY <2>1 DEF AtomicInv, CommonOK, CopiesOK, WritePc
    <3>2. QED
      BY <1>1, <3>1 DEF WriteByte, WriteCalls
  <2>3. QED
    BY <2>1, <2>2, NothingToPosition
<1>2. CASE ~WriteByte(t)
  <2>1. /\ UNCHANGED cursor
        /\ \A u \in Thread : pc[u] \in {"writing", "written"} <=> pc'[u] \in {"writing", "written"}
        /\ \A u \in Thread : pc[u] \in {"writing", "written"} => call'[u] = call[u]
    BY <1>2 DEF WriteReturns, ReadLocked, ReadBeyondEnd, ReadByte, CallsPython, PythonReturns,
       PythonRaises, ReadFails, ReadReturns, Crash, Goes, Returns, AtomicInv, CommonOK
  <2>2. QED
    BY <2>1, NothingToPosition
<1>3. QED
  BY <1>1, <1>2

-----------------------------------------------------------------------------

LEMMA CallStep ==
  ASSUME PrivateViews, Parts, AtomicInv, [Next]_vars
  PROVE  [Area!AbsNext]_<<Memory, out, Position>>
<1>1. CASE UNCHANGED vars
  <2>1. Memory' = Memory /\ Position' = Position
    BY <1>1 DEF vars, Memory, InFlight, Position
  <2>2. QED
    BY <1>1, <2>1 DEF vars
<1>2. ASSUME NEW t \in Thread, NEW v \in View, Begins(t, v)
      PROVE  Area!AbsNext \/ UNCHANGED <<Memory, out, Position>>
  <2>1. Memory' = Memory /\ UNCHANGED out
    BY <1>2, BeginsMemory
  <2>2. ASSUME NEW p \in 0 .. DataSize, Position' = [Position EXCEPT ![v] = p] PROVE Area!AbsNext
    <3>1. Area!AbsSeek(v, p)
      BY <2>1, <2>2 DEF Area!AbsSeek
    <3>2. QED
      BY <3>1 DEF Area!AbsNext
  <2>3. QED
    BY <1>2, <2>1, <2>2, BeginsPosition
<1>3. ASSUME NEW t \in Thread, WriteLocked(t) PROVE Area!AbsNext
  <2> DEFINE c == call[t]
  <2>1. /\ Area!MemWrite(c.pos, c.bytes) /\ c.pos \in 0 .. DataSize /\ c.bytes \in Payloads \cup {Zeros}
        /\ Position = cursor /\ Position' = AdvancedOf(cursor, c)
    BY <1>3, WriteTakesEffect, WriteLockedPosition
  <2>2. /\ c.view \in View /\ (c.auto \/ ~c.auto)
        /\ c.auto => /\ cursor[c.view] = c.pos
                     /\ AdvancedOf(cursor, c) = [cursor EXCEPT ![c.view] = cursor[c.view] + Len(c.bytes)]
        /\ ~c.auto => AdvancedOf(cursor, c) = cursor
    <3>1. pc[t] = "write_lock"
      BY <1>3 DEF WriteLocked, Goes
    <3>2. QED
      BY <3>1, AdvancedPosition
  <2> HIDE DEF c
  <2>3. CASE c.auto
    <3>1. Area!AbsAppend(c.view, c.bytes)
      BY <2>1, <2>2, <2>3 DEF Area!AbsAppend
    <3>2. QED
      BY <2>1, <2>2, <3>1 DEF Area!AbsNext
  <2>4. CASE ~c.auto
    <3>1. Area!AbsWrite(c.pos, c.bytes)
      BY <2>1, <2>2, <2>4 DEF Area!AbsWrite
    <3>2. QED
      BY <2>1, <3>1 DEF Area!AbsNext
  <2>5. QED
    BY <2>2, <2>3, <2>4
<1>4. ASSUME NEW t \in Thread, ReadEnds(t) PROVE Area!AbsNext
  <2> DEFINE c == call[t]
             n == Len(c.bytes)
  <2>1. /\ Area!MemRead(t, c.pos, n) /\ c.pos \in 0 .. DataSize /\ n \in 0 .. DataSize
        /\ Position = cursor /\ Position' = AdvancedOf(cursor, c)
    BY <1>4, ReadTakesEffect, ReadEndsPosition
  <2>2. /\ c.view \in View /\ (c.auto \/ ~c.auto)
        /\ c.auto => /\ cursor[c.view] = c.pos
                     /\ AdvancedOf(cursor, c) = [cursor EXCEPT ![c.view] = cursor[c.view] + n]
        /\ ~c.auto => AdvancedOf(cursor, c) = cursor
    <3>1. pc[t] = "reading"
      BY <1>4 DEF ReadEnds, Goes
    <3>2. QED
      BY <3>1, AdvancedPosition
  <2> HIDE DEF c, n
  <2>3. CASE c.auto
    <3>1. Area!AbsReadNext(t, c.view, n)
      BY <2>1, <2>2, <2>3 DEF Area!AbsReadNext
    <3>2. QED
      BY <2>1, <2>2, <3>1 DEF Area!AbsNext
  <2>4. CASE ~c.auto
    <3>1. Area!AbsRead(t, c.pos, n)
      BY <2>1, <2>2, <2>4 DEF Area!AbsRead
    <3>2. QED
      BY <2>1, <3>1 DEF Area!AbsNext
  <2>5. QED
    BY <2>2, <2>3, <2>4
<1>5. ASSUME NEW t \in Thread, Runs(t) \/ Crash(t), ~WriteLocked(t), ~ReadEnds(t)
      PROVE  UNCHANGED <<Memory, out, Position>>
  BY <1>5, WriteByteMemory, OtherMemory, WrittenPosition, OtherPosition DEF Runs
<1>6. QED
  BY <1>1, <1>2, <1>3, <1>4, <1>5 DEF Next

LEMMA InitPosition == Init => Position = [v \in View |-> 0]
<1> SUFFICES ASSUME Init PROVE Position = [v \in View |-> 0]
  OBVIOUS
<1>1. cursor \in [View -> Nat] /\ \A t \in Thread : pc[t] \notin {"writing", "written"}
  BY InitAtomicInv DEF Init, AtomicInv, CommonOK
<1>2. QED
  BY <1>1, PositionIs, QuietPosition DEF Init

\* With views that no two flows share, a view is a file descriptor: each call is one
\* step at its offset or at the view's own position, which moves past what it transferred
\* (src/mapped_view.rs, the load and the fetch_add of each call).
THEOREM CallsAreAtomic == PrivateViews => (Spec => ImplementsArea)
<1> SUFFICES ASSUME PrivateViews PROVE Spec => ImplementsArea
  OBVIOUS
<1>1. /\ Parts /\ AtomicInv /\ [Next]_vars => [Area!AbsNext]_<<Memory, out, Position>>
      /\ AtomicInv /\ [Next]_vars => AtomicInv'
      /\ Parts /\ [Next]_vars => Parts'
  BY CallStep, NextAtomicInv, NextParts
<1>2. Init => Area!AbsInit
  BY InitMemory, InitPosition DEF Area!AbsInit
<1>3. QED
  BY <1>1, <1>2, InitAtomicInv, InitParts, PTL DEF Spec, ImplementsArea, Area!AbsSpec, Area!absVars

=============================================================================
