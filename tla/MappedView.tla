----------------------------- MODULE MappedView -----------------------------
(***************************************************************************)
(* MappedView of src/mapped_view.rs: reads and writes of the data area of a *)
(* segment under the reader-writer lock of RwLock.tla, and the cursor that   *)
(* each view keeps for calls without an offset.                             *)
(*                                                                          *)
(* The lock is the abstract one: RwLock.tla implements it.  Under it data is *)
(* copied byte by byte.  The cursor is not in shared memory and not under    *)
(* the lock: a call loads it before it takes the lock and adds to it before  *)
(* it gives the lock back, and other calls on the same view may run between. *)
(*                                                                          *)
(* A count in a schema of read_mixed may be any object with an __index__: its *)
(* Python code runs in the middle of the read, under the read lock, and may   *)
(* make calls itself, on the thread that is reading.  A Thread of this module *)
(* therefore is one flow of calls on the stack of a thread: the thread's own  *)
(* calls, or those of the Python code that a count of theirs runs.           *)
(*                                                                          *)
(* tell, size, reader_count and is_write_locked change nothing and are left *)
(* out.  A thread may be killed anywhere: its guard is never dropped.        *)
(***************************************************************************)
EXTENDS AbstractRwLock, Integers, Sequences

CONSTANTS
  Within,       \* Within[t]: the flows that t is Python code of
  View,         \* the MappedView objects on the segment, in any process
  Uses,         \* Uses[t]: the views thread t makes calls on
  DataSize,     \* bytes after the lock header
  PrefixBytes,  \* bytes of the length prefix of a str (4)
  Payloads,     \* what pack_value and pack_mixed make of the caller's data
  Offsets,      \* the offsets callers pass, and the positions they seek
  Ranges,       \* the lengths callers pass to read_range
  Schemas,      \* the schemas callers pass, as sequences of fields
  MaxCalls      \* bound: calls made in a behaviour

Byte == 0 .. 255
Address == 0 .. DataSize - 1

\* offset=None: the call works at the cursor.
None == -1

\* A field of a schema is `width` bytes of a number, a length prefix that a
\* string of that many bytes follows, or a tag unpack does not know (or another
\* entry it refuses).  Before the fields of an entry stands Index if extracting
\* its count runs Python code.
Fixed(n) == [kind |-> "fixed", width |-> n]
Prefixed == [kind |-> "prefix", width |-> PrefixBytes]
Unknown == [kind |-> "unknown", width |-> 0]
Index == [kind |-> "index", width |-> 0]
Field == [kind : {"fixed"}, width : Nat \ {0}] \cup {Prefixed, Unknown, Index}

ASSUME SizeAssumption == DataSize \in Nat \ {0} /\ PrefixBytes \in 1 .. 4
ASSUME NestingAssumption ==
  Within \in [Thread -> SUBSET Thread] /\ \A t \in Thread : t \notin Within[t]
ASSUME UsesAssumption == Uses \in [Thread -> SUBSET View]
ASSUME CallAssumption ==
  /\ Payloads \subseteq Seq(Byte)
  /\ Schemas \subseteq Seq(Field)
  /\ Offsets \subseteq Nat /\ Ranges \subseteq Nat /\ MaxCalls \in Nat

VARIABLES
  area,     \* the data area in shared memory
  cursor,   \* cursor[v]: the AtomicUsize of view v
  pc,       \* where thread t stands in a call
  call,     \* call[t]: the locals of its call
  res,      \* res[t]: how its last call ended
  out,      \* out[t]: the bytes its last successful read returned
  alive,    \* alive[t]: FALSE once its process was killed
  calls     \* calls made so far

vars == <<area, cursor, pc, call, res, out, alive, calls, hold>>

\* The locals: `self`, offset.is_none(), `pos`, and the bytes to write and how
\* many of them are written, or the bytes read and the fields still to read.
WriteCall(v, off, p, b) == [view |-> v, auto |-> off = None, pos |-> p, bytes |-> b, done |-> 0]
ReadCall(v, off, p, fs) == [view |-> v, auto |-> off = None, pos |-> p, bytes |-> <<>>, fields |-> fs]
NoCall == [view |-> None]

Init ==
  /\ AbsInit
  /\ area = [a \in Address |-> 0]
  /\ cursor = [v \in View |-> 0]
  /\ pc = [t \in Thread |-> "idle"]
  /\ call = [t \in Thread |-> NoCall]
  /\ res = [t \in Thread |-> "none"]
  /\ out = [t \in Thread |-> <<>>]
  /\ alive = [t \in Thread |-> TRUE]
  /\ calls = 0

-----------------------------------------------------------------------------
(* Calls.                                                                   *)

\* Thread t calls a method of v: Python code of a count, while the count is extracted.
Calls(t, v) ==
  /\ alive[t] /\ pc[t] = "idle" /\ v \in Uses[t]
  /\ \A u \in Within[t] : pc[u] = "python"
  /\ calls < MaxCalls /\ calls' = calls + 1

\* The call gets past its checks, and goes for the lock.
Proceeds(t, lock, c) ==
  /\ pc' = [pc EXCEPT ![t] = lock]
  /\ call' = [call EXCEPT ![t] = c]
  /\ UNCHANGED res

Returns(t, result) ==
  /\ pc' = [pc EXCEPT ![t] = "idle"]
  /\ call' = [call EXCEPT ![t] = NoCall]
  /\ res' = [res EXCEPT ![t] = result]

At(v, off) == IF off = None THEN cursor[v] ELSE off

InBoundsOfLength(p, n) == n # 0 /\ n <= DataSize

\* check_bounds.
InBounds(p, n) == n # 0 /\ p + n <= DataSize

\* seek.
SeekUnchecked(t, v, p) ==
  /\ Calls(t, v)
  /\ cursor' = [cursor EXCEPT ![v] = p] /\ Returns(t, "ok")
  /\ UNCHANGED <<area, out, alive, hold>>

Seek(t, v, p) ==
  /\ Calls(t, v)
  /\ \/ p <= DataSize /\ cursor' = [cursor EXCEPT ![v] = p] /\ Returns(t, "ok")
     \/ p > DataSize /\ UNCHANGED cursor /\ Returns(t, "error")
  /\ UNCHANGED <<area, out, alive, hold>>

\* write and write_mixed, up to the lock: the position is loaded and checked.
BeginWrite(t, v, off, b) ==
  /\ Calls(t, v)
  /\ LET p == At(v, off) IN
     \/ InBounds(p, Len(b)) /\ Proceeds(t, "write_lock", WriteCall(v, off, p, b))
     \/ ~InBounds(p, Len(b)) /\ Returns(t, "error")
  /\ UNCHANGED <<area, cursor, out, alive, hold>>

\* write or write_mixed with a value that pack_value has no bytes for.
WriteUnpackable(t, v) ==
  /\ Calls(t, v)
  /\ Returns(t, "error")
  /\ UNCHANGED <<area, cursor, out, alive, hold>>

Zeros == [k \in 1 .. DataSize |-> 0]

\* zero, which has nothing to check.
Zero(t, v) ==
  /\ Calls(t, v)
  /\ Proceeds(t, "write_lock", WriteCall(v, 0, 0, Zeros))
  /\ UNCHANGED <<area, cursor, out, alive, hold>>

\* read_range; read_all is the range of the whole area.
ReadRange(t, v, off, n) ==
  /\ Calls(t, v)
  /\ \/ InBounds(off, n) /\ Proceeds(t, "read_lock", ReadCall(v, off, off, <<Fixed(n)>>))
     \/ ~InBounds(off, n) /\ Returns(t, "error")
  /\ UNCHANGED <<area, cursor, out, alive, hold>>

\* read: nothing is checked before the lock is taken.
Read(t, v, f) ==
  /\ Calls(t, v)
  /\ Proceeds(t, "read_lock", ReadCall(v, None, cursor[v], <<f>>))
  /\ UNCHANGED <<area, cursor, out, alive, hold>>

\* read_mixed, which refuses a position with nothing behind it.
ReadMixed(t, v, off, schema) ==
  /\ Calls(t, v)
  /\ LET p == At(v, off) IN
     \/ p < DataSize /\ Proceeds(t, "read_lock", ReadCall(v, off, p, schema))
     \/ p >= DataSize /\ Returns(t, "error")
  /\ UNCHANGED <<area, cursor, out, alive, hold>>

-----------------------------------------------------------------------------
(* Under the write lock.                                                    *)

Goes(t, from, to) == alive[t] /\ pc[t] = from /\ pc' = [pc EXCEPT ![t] = to]

WriteLocked(t) ==
  /\ Goes(t, "write_lock", "writing")
  /\ AcquireExclusive(t)
  /\ UNCHANGED <<area, cursor, call, res, out, alive, calls>>

WriteByte(t) ==
  /\ alive[t] /\ pc[t] = "writing"
  /\ LET c == call[t] IN
     /\ area' = [area EXCEPT ![c.pos + c.done] = c.bytes[c.done + 1]]
     /\ call' = [call EXCEPT ![t].done = @ + 1]
     /\ pc' = [pc EXCEPT ![t] = IF c.done + 1 = Len(c.bytes) THEN "written" ELSE "writing"]
  /\ UNCHANGED <<cursor, res, out, alive, calls, hold>>

\* What the call's fetch_add makes of the cursors.
Advanced(c) ==
  [cursor EXCEPT ![c.view] = IF c.auto THEN @ + Len(c.bytes) ELSE @]

Written(t) ==
  /\ Goes(t, "written", "write_unlock")
  /\ cursor' = Advanced(call[t])
  /\ UNCHANGED <<area, call, res, out, alive, calls, hold>>

WriteReturns(t) ==
  /\ alive[t] /\ pc[t] = "write_unlock"
  /\ Release(t)
  /\ Returns(t, "ok")
  /\ UNCHANGED <<area, cursor, out, alive, calls>>

-----------------------------------------------------------------------------
(* Under the read lock.                                                     *)

ReadLockSkipped(t) ==
  /\ Goes(t, "read_lock", "reading")
  /\ call[t].pos <= DataSize
  /\ UNCHANGED <<area, cursor, call, res, out, alive, calls, hold>>

ReadLocked(t) ==
  /\ Goes(t, "read_lock", "reading")
  /\ call[t].pos <= DataSize
  /\ AcquireShared(t)
  /\ UNCHANGED <<area, cursor, call, res, out, alive, calls>>

\* read takes `data_size - pos` bytes: beyond the end that is no number of
\* bytes, and whatever happens then is undefined.
ReadBeyondEnd(t) ==
  /\ Goes(t, "read_lock", "undefined")
  /\ call[t].pos > DataSize
  /\ AcquireShared(t)
  /\ UNCHANGED <<area, cursor, call, res, out, alive, calls>>

\* The first field left is a known one, and the area is long enough for it.
Readable(c) ==
  /\ c.fields # <<>> /\ Head(c.fields).kind \notin {"unknown", "index"}
  /\ c.pos + Len(c.bytes) + Head(c.fields).width <= DataSize

Refused(c) ==
  /\ c.fields # <<>> /\ Head(c.fields).kind # "index"
  /\ ~Readable(c)

\* The number in the last PrefixBytes bytes of b, little endian.
LastNumber(b) ==
  LET digit(i) == IF i <= PrefixBytes THEN b[Len(b) - PrefixBytes + i] ELSE 0
  IN  digit(1) + 256 * digit(2) + 65536 * digit(3) + 16777216 * digit(4)

\* The same, for a prefix taken as a signed number.
FieldsAfterByteSigned(fields, b) ==
  LET f == Head(fields)
      number == IF b[Len(b)] < 128 THEN LastNumber(b) ELSE LastNumber(b) - 256 ^ PrefixBytes
  IN
  CASE f.width > 1 -> <<[f EXCEPT !.width = @ - 1]>> \o Tail(fields)
    [] f.width = 1 /\ f.kind = "prefix" /\ number # 0 -> <<Fixed(number)>> \o Tail(fields)
    [] OTHER -> Tail(fields)

\* The fields left after one more byte of the first field has been read, with b
\* the bytes read so far: a length prefix is followed by its string.
FieldsAfterByte(fields, b) ==
  LET f == Head(fields) IN
  CASE f.width > 1 -> <<[f EXCEPT !.width = @ - 1]>> \o Tail(fields)
    [] f.width = 1 /\ f.kind = "prefix" /\ LastNumber(b) > 0 -> <<Fixed(LastNumber(b))>> \o Tail(fields)
    [] OTHER -> Tail(fields)

ReadByte(t) ==
  /\ alive[t] /\ pc[t] = "reading" /\ Readable(call[t])
  /\ LET c == call[t]
         b == Append(c.bytes, area[c.pos + Len(c.bytes)])
     IN  call' = [call EXCEPT ![t].bytes = b, ![t].fields = FieldsAfterByte(c.fields, b)]
  /\ UNCHANGED <<area, cursor, pc, res, out, alive, calls, hold>>

\* The count is extracted: with the read lock held, and the position loaded, Python
\* code runs.  It may make calls of its own (Calls).
CallsPython(t) ==
  /\ Goes(t, "reading", "python")
  /\ call[t].fields # <<>> /\ Head(call[t].fields).kind = "index"
  /\ call' = [call EXCEPT ![t].fields = Tail(@)]
  /\ UNCHANGED <<area, cursor, res, out, alive, calls, hold>>

\* Its calls are over.
PythonEnds(t) == \A u \in Thread : t \in Within[u] => pc[u] = "idle"

\* It returns a count, and the read goes on.
PythonReturns(t) ==
  /\ Goes(t, "python", "reading")
  /\ PythonEnds(t)
  /\ UNCHANGED <<area, cursor, call, res, out, alive, calls, hold>>

\* It raises an exception, or returns what is no usize, and `?` returns.
PythonRaises(t) ==
  /\ alive[t] /\ pc[t] = "python"
  /\ PythonEnds(t)
  /\ Release(t)
  /\ Returns(t, "error")
  /\ UNCHANGED <<area, cursor, out, alive, calls>>

ReadFailsAdvanced(t) ==
  /\ alive[t] /\ pc[t] = "reading"
  /\ Refused(call[t])
  /\ cursor' = Advanced(call[t])
  /\ Release(t)
  /\ Returns(t, "error")
  /\ UNCHANGED <<area, out, alive, calls>>

ReadFailsLocked(t) ==
  /\ alive[t] /\ pc[t] = "reading"
  /\ Refused(call[t])
  /\ Returns(t, "error")
  /\ UNCHANGED <<area, cursor, out, alive, calls, hold>>

\* unpack fails and `?` returns: the guard is dropped on the way out.
ReadFails(t) ==
  /\ alive[t] /\ pc[t] = "reading"
  /\ Refused(call[t])
  /\ Release(t)
  /\ Returns(t, "error")
  /\ UNCHANGED <<area, cursor, out, alive, calls>>

ReadEnds(t) ==
  /\ Goes(t, "reading", "read_unlock")
  /\ call[t].fields = <<>>
  /\ out' = [out EXCEPT ![t] = call[t].bytes]
  /\ cursor' = Advanced(call[t])
  /\ UNCHANGED <<area, call, res, alive, calls, hold>>

ReadReturns(t) ==
  /\ alive[t] /\ pc[t] = "read_unlock"
  /\ Release(t)
  /\ Returns(t, "ok")
  /\ UNCHANGED <<area, cursor, out, alive, calls>>

-----------------------------------------------------------------------------

\* The process of t is killed, and with it all that runs on t's stack: nothing in
\* shared memory changes.
Crash(t) ==
  /\ alive[t] /\ pc[t] # "idle"
  /\ alive' = [u \in Thread |-> alive[u] /\ u # t /\ t \notin Within[u] /\ u \notin Within[t]]
  /\ UNCHANGED <<area, cursor, pc, call, res, out, calls, hold>>

Begins(t, v) ==
  \/ \E p \in Offsets : Seek(t, v, p)
  \/ \E off \in Offsets \cup {None}, b \in Payloads : BeginWrite(t, v, off, b)
  \/ WriteUnpackable(t, v)
  \/ Zero(t, v)
  \/ \E off \in Offsets, n \in Ranges : ReadRange(t, v, off, n)
  \/ ReadRange(t, v, 0, DataSize)
  \/ \E f \in {Fixed(1), Prefixed, Unknown} : Read(t, v, f)
  \/ \E off \in Offsets \cup {None}, schema \in Schemas : ReadMixed(t, v, off, schema)

Runs(t) ==
  \/ WriteLocked(t) \/ WriteByte(t) \/ Written(t) \/ WriteReturns(t)
  \/ ReadLocked(t) \/ ReadBeyondEnd(t) \/ ReadByte(t)
  \/ CallsPython(t) \/ PythonReturns(t) \/ PythonRaises(t)
  \/ ReadFails(t) \/ ReadEnds(t) \/ ReadReturns(t)

Next == \E t \in Thread : (\E v \in View : Begins(t, v)) \/ Runs(t) \/ Crash(t)

\* A live thread inside a call keeps executing.
Spec == Init /\ [][Next]_vars /\ \A t \in Thread : WF_vars(Runs(t))

-----------------------------------------------------------------------------
(* Properties.                                                              *)

WritePc == {"write_lock", "writing", "written", "write_unlock"}
ReadPc == {"read_lock", "reading", "python", "read_unlock", "undefined"}
WriteCalls == [view : View, auto : BOOLEAN, pos : Nat, bytes : Seq(Byte), done : Nat]
ReadCalls == [view : View, auto : BOOLEAN, pos : Nat, bytes : Seq(Byte),
              fields : Seq([kind : {"fixed", "prefix", "unknown", "index"}, width : Nat])]

\* Type invariant.
TypeOK ==
  /\ AbsTypeOK
  /\ area \in [Address -> Byte]
  /\ cursor \in [View -> Nat]
  /\ pc \in [Thread -> {"idle"} \cup WritePc \cup ReadPc]
  /\ res \in [Thread -> {"none", "ok", "error"}]
  /\ out \in [Thread -> Seq(Byte)]
  /\ alive \in [Thread -> BOOLEAN]
  /\ calls \in 0 .. MaxCalls
  /\ call \in [Thread -> {NoCall} \cup WriteCalls \cup ReadCalls]
  /\ \A t \in Thread : /\ pc[t] \in WritePc => call[t] \in WriteCalls
                       /\ pc[t] \in ReadPc => call[t] \in ReadCalls

\* The unchecked read never starts beyond the end of the area, whatever calls
\* moved the cursor before and between.
ReadsStayInArea == \A t \in Thread : pc[t] # "undefined"

\* No two flows make calls on one view: no two threads share one, and no count that
\* a thread passes to read_mixed runs code that uses the views the thread reads.
PrivateViews == \A t, u \in Thread : t # u => Uses[t] \cap Uses[u] = {}

\* What a call found before it had the lock still holds while it copies: all its
\* bytes lie in the area, and the position it loaded still is its view's cursor.
CallsFitArea ==
  /\ \A v \in View : cursor[v] <= DataSize
  /\ \A t \in Thread : pc[t] \in WritePc \cup ReadPc =>
       LET c == call[t] IN
       /\ c.pos + Len(c.bytes) <= DataSize
       /\ c.auto => cursor[c.view] =
            c.pos + IF pc[t] \in {"write_unlock", "read_unlock"} THEN Len(c.bytes) ELSE 0

\* A field left to read takes at least a byte, and when the last byte of a length
\* prefix comes, the bytes before it are there (n are read so far).
FieldsOK(fields, n) ==
  \A k \in 1 .. Len(fields) :
    \/ fields[k].kind \in {"unknown", "index"}
    \/ fields[k].kind = "fixed" /\ fields[k].width > 0
    \/ /\ fields[k].kind = "prefix" /\ fields[k].width > 0
       /\ k = 1 => n + fields[k].width >= PrefixBytes
       /\ k > 1 => fields[k].width = PrefixBytes

\* The inductive invariant behind the theorems.
IInv ==
  /\ TypeOK /\ CallsFitArea /\ ReadsStayInArea
  /\ \A t \in Thread :
       /\ pc[t] \in WritePc \cup ReadPc => call[t].view \in Uses[t]
       /\ pc[t] \in {"write_lock", "writing"} => call[t].done < Len(call[t].bytes)
       /\ pc[t] \in {"read_lock", "reading", "python"} => FieldsOK(call[t].fields, Len(call[t].bytes))

\* The lock word is not enough for this one: a call without an offset leaves the
\* cursor where the call found it, plus exactly the bytes it transferred, whatever
\* Python code ran in its middle; a call that fails, even half way through a schema,
\* leaves it alone, so that it can be tried again with another tag.
CursorFollowsCalls ==
  [][\A t \in Thread : pc[t] # "idle" /\ pc'[t] = "idle" /\ call[t].auto =>
       cursor'[call[t].view] = call[t].pos + IF res'[t] = "ok" THEN Len(call[t].bytes) ELSE 0]_vars

\* The area as everybody may think of it: a write takes effect when it gets the
\* lock.  A killed writer's bytes are never seen, for its lock is never free.
InFlight(t) == pc[t] = "writing"
Memory ==
  [a \in Address |->
     IF \E t \in Thread : InFlight(t) /\ a \in call[t].pos .. call[t].pos + Len(call[t].bytes) - 1
     THEN LET w == CHOOSE t \in Thread : InFlight(t) IN call[w].bytes[a - call[w].pos + 1]
     ELSE area[a]]
Position ==
  [v \in View |->
     IF \E t \in Thread : pc[t] \in {"writing", "written"} /\ call[t].view = v /\ call[t].auto
     THEN LET w == CHOOSE t \in Thread : pc[t] \in {"writing", "written"} IN cursor[v] + Len(call[w].bytes)
     ELSE cursor[v]]

Area == INSTANCE AbstractArea
  WITH Size <- DataSize, Writes <- Payloads \cup {Zeros}, mem <- Memory, at <- Position

\* Reads see no torn write and writes lose none of each other's bytes: every call
\* is one step on a file, at the given offset or at the view's own position.
ImplementsArea == Area!AbsSpec

\* When threads, or the Python code of a count, share a view and race for its cursor,
\* the area still is atomic: it is the positions that are wrong, not the bytes.  (A
\* read that starts beyond the end of the area is undefined, and returns nothing
\* this could speak of.)
ImplementsMemory == Area!MemSpec

\* With calls that come to an end (MaxCalls), each of them returns, unless its
\* own thread or one inside the lock was killed: no path through a call keeps
\* the lock, an error in the middle of a read least of all.  What never returns is
\* Python code of a count that writes: it waits for the read lock under it.  (Other
\* Python code is taken to return here, and no thread waits for another one's GIL:
\* that is RwLockGil's HoldersLeave.)
CallsReturn ==
  \A t \in Thread : pc[t] # "idle" ~>
    \/ pc[t] = "idle"
    \/ ~alive[t]
    \/ \E u \in Thread : ~alive[u] /\ hold[u] # "none"
    \/ \E u \in Thread : Within[u] # {} /\ pc[u] = "write_lock"

=============================================================================
