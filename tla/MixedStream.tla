----------------------------- MODULE MixedStream -----------------------------
(***************************************************************************)
(* What a program does with Mixed.tla: one side writes values at the cursor  *)
(* of its view (MappedView::write, write_mixed), the other side reads them    *)
(* at the cursor of its own (read, read_mixed), each in portions of its own   *)
(* choice, in an area that held other bytes before.                         *)
(*                                                                          *)
(* The two sides agree on the tags; bytes are read as u8.  The locking is in *)
(* MappedView.tla, and so are counts that run Python code: a call is one step *)
(* here, and a count a number.                                              *)
(***************************************************************************)
EXTENDS Mixed

CONSTANTS
  DataSize,   \* bytes of the data area
  Values,     \* what the writer passes to write
  Lists,      \* what it passes to write_mixed: sequences of items
  Schemas,    \* what the reader passes to read_mixed
  Junk        \* what the area may hold at first

ASSUME StreamAssumption ==
  /\ DataSize \in Nat \ {0}
  /\ Values \subseteq PyValue
  /\ Lists \subseteq Seq(Seq(PyValue))
  /\ Schemas \subseteq Seq([tag : KnownTags, count : Nat])
  /\ Junk \subseteq [1 .. DataSize -> Byte]

VARIABLES
  area,   \* the data area
  wpos,   \* the writer's cursor
  rpos,   \* the reader's cursor
  sent,   \* the values written, each with the tag to read it
  got     \* the values read

vars == <<area, wpos, rpos, sent, got>>

Init == area \in Junk /\ wpos = 0 /\ rpos = 0 /\ sent = <<>> /\ got = <<>>

-----------------------------------------------------------------------------

\* How the reader sees what was written.
Reads(tag, v) == [tag |-> tag, value |-> v]
AsRead(v) ==
  IF v.type \in {"bytes", "bytearray"}
  THEN [i \in 1 .. Len(v.val) |-> Reads("u8", Value("int", <<v.val[i]>>))]
  ELSE <<Reads(v.type, v)>>
ListAsRead(items) ==
  LET values == FlattenSeq(items) IN FlattenSeq([i \in 1 .. Len(values) |-> AsRead(values[i])])

\* check_bounds of MappedView.
InBounds(n) == n # 0 /\ wpos + n <= DataSize

Written(packed, as) ==
  LET n == Len(packed.bytes) IN
  /\ packed.ok /\ InBounds(n)
  /\ area' = [i \in 1 .. DataSize |->
                IF i \in wpos + 1 .. wpos + n THEN packed.bytes[i - wpos] ELSE area[i]]
  /\ wpos' = wpos + n
  /\ sent' = sent \o as
  /\ UNCHANGED <<rpos, got>>

Write(v) == Written(PackValue(v), AsRead(v))
WriteMixed(items) == Written(PackMixed(items), ListAsRead(items))

Rest(pos) == SubSeq(area, pos + 1, DataSize)
Unread == SubSeq(sent, Len(got) + 1, Len(sent))

\* The other name of a tag.
Alias(tag) == CASE tag = "int" -> "i64" [] tag = "float" -> "f64" [] OTHER -> tag

\* The reader takes n values; if the call raises, they are errors.
Takes(result, values, n) ==
  /\ rpos' = rpos + result.used
  /\ got' = got \o (IF result.ok THEN values ELSE [i \in 1 .. n |-> Value("error", <<>>)])
  /\ UNCHANGED <<area, wpos, sent>>

Read ==
  /\ Unread # <<>>
  /\ \E tag \in {Head(Unread).tag, Alias(Head(Unread).tag)} :
       LET r == UnpackOne(Rest(rpos), tag) IN Takes(r, r.values, 1)

Flat(groups) == FlattenSeq([i \in 1 .. Len(groups) |-> groups[i].values])
TagsOf(schema) ==
  FlattenSeq([i \in 1 .. Len(schema) |-> [j \in 1 .. schema[i].count |-> schema[i].tag]])

\* read_mixed with a schema that fits what was written.
ReadMixed(schema) ==
  LET tags == TagsOf(schema)
      r == UnpackMixed(Rest(rpos), schema)
  IN
  /\ rpos < DataSize /\ tags # <<>>
  /\ IsPrefix(tags, [i \in 1 .. Len(Unread) |-> Unread[i].tag])
  /\ Takes(r, Flat(r.groups), Len(tags))

Next ==
  \/ \E v \in Values : Write(v)
  \/ \E items \in Lists : WriteMixed(items)
  \/ Read
  \/ \E schema \in Schemas : ReadMixed(schema)

Spec == Init /\ [][Next]_vars

-----------------------------------------------------------------------------
(* Properties.                                                              *)

\* What was written is read, value by value and in order, however writer and reader
\* cut it into calls; the reader is never ahead of the writer, and where the writer is
\* when it has read all.
ReadsWhatWasWritten ==
  /\ got = [i \in 1 .. Len(got) |-> sent[i].value]
  /\ rpos <= wpos
  /\ Len(got) = Len(sent) => rpos = wpos

\* A buffer that ends before its schema does is refused: no value is made up from
\* half of its bytes.
CutIsRefused ==
  LET schema == [i \in 1 .. Len(sent) |-> [tag |-> sent[i].tag, count |-> 1]] IN
  \A n \in 0 .. wpos - 1 : ~UnpackMixed(SubSeq(area, 1, n), schema).ok

\* The two unpackers agree, on bytes that were written and on bytes that were not:
\* reading two values with read, by whatever tags, gives what read_mixed gives for
\* them, or raises where it raises.
OneAgreesWithMixed ==
  \A p \in {rpos, wpos}, s, t \in KnownTags \cup {"bytes"} :
    LET one == UnpackOne(Rest(p), s)
        two == UnpackOne(Rest(p + one.used), t)
        both == UnpackMixed(Rest(p), <<[tag |-> s, count |-> 1], [tag |-> t, count |-> 1]>>)
    IN  /\ both.ok = (one.ok /\ two.ok)
        /\ both.ok => /\ Flat(both.groups) = one.values \o two.values
                      /\ both.used = one.used + two.used

=============================================================================
