------------------------------ MODULE SpscRing ------------------------------
(***************************************************************************)
(* SpscRingBuffer of src/spsc.rs: the single-producer single-consumer ring  *)
(* buffer that lives in a mapped segment.                                   *)
(*                                                                          *)
(* head and tail are usize counters that wrap at UsizeMod and are reduced   *)
(* modulo the capacity only to address a byte.  A message is a frame: four  *)
(* length bytes and the payload.  Every shared access is one step: the       *)
(* loads and stores of the counters, and each byte copied in or out, so a    *)
(* frame can be half written or half read when the other side runs.          *)
(*                                                                          *)
(* Either process may be killed anywhere; the segment stays as it is and a   *)
(* new process opens it (SharedMemory::open does not touch the header) and   *)
(* takes over the role.                                                      *)
(*                                                                          *)
(* Here a load finds what was stored last; SpscOrder.tla lifts that.         *)
(***************************************************************************)
EXTENDS Integers, Sequences, SequencesExt

CONSTANTS
  Capacity,     \* bytes of the data area, a power of two
  UsizeMod,     \* 2^64, the number of values of a usize
  Payloads,     \* the byte sequences pack_value makes of the caller's values
  MaxPushes,    \* bound: messages accepted in a behaviour
  MaxCrashes    \* bound: processes killed in a behaviour

Byte == 0 .. 255
HeaderBytes == 4        \* the u32 length prefix

\* Capacity and UsizeMod are powers of two, the first smaller than the second,
\* hence divides it.  The counters could not tell a full ring from an empty one
\* otherwise.  A payload's length must fit the u32 prefix (`as u32`).
ASSUME CapacityAssumption ==
  /\ Capacity \in Nat \ {0}
  /\ UsizeMod \in Nat /\ Capacity < UsizeMod
  /\ UsizeMod % Capacity = 0
ASSUME PayloadAssumption ==
  /\ Payloads \subseteq Seq(Byte)
  /\ \A m \in Payloads : Len(m) \div 65536 < 65536
ASSUME BoundAssumption == MaxPushes \in Nat /\ MaxCrashes \in Nat

VARIABLES
  head, tail,   \* the AtomicUsize counters in shared memory
  data,         \* the data area in shared memory
  ppc,          \* where the producer stands in push
  pmsg,         \* its `payload`
  phead, ptail, \* its `head` and `tail`
  pi,           \* bytes of the frame it has copied in
  pres,         \* what its last push returned
  cpc,          \* where the consumer stands in pop or pop_mixed
  chead,        \* its `head`
  cbuf,         \* bytes of the frame it has copied out
  cres,         \* what its last pop returned
  crashes,      \* processes killed so far
  sent,         \* history: the messages published, in order
  consumed,     \* history: the messages head was moved past, in order
  marks         \* history: where each published frame starts, and the next one will

shared == <<head, tail, data>>
producer == <<ppc, pmsg, phead, ptail, pi, pres>>
consumer == <<cpc, chead, cbuf, cres>>
history == <<sent, consumed, marks>>
vars == <<shared, producer, consumer, history, crashes>>

-----------------------------------------------------------------------------
(* Frames and positions.                                                    *)

FrameLen(m) == HeaderBytes + Len(m)

\* to_ne_bytes of `len as u32`: little endian, the higher digits dropped.
LenByte(n, i) == CASE i = 0 -> n % 256
                   [] i = 1 -> (n \div 256) % 256
                   [] i = 2 -> (n \div 65536) % 256
                   [] i = 3 -> (n \div 16777216) % 256

\* from_ne_bytes of the first four bytes of b.
DecodeLen(b) == b[1] + 256 * b[2] + 65536 * b[3] + 16777216 * b[4]

\* Byte i of the frame of m: the length prefix, then the payload.
FrameByte(m, i) ==
  IF i < HeaderBytes THEN LenByte(Len(m), i) ELSE m[i - HeaderBytes + 1]

\* The byte of the data area that (pos + i) & mask addresses.
SlotUnmasked(pos, i) ==
  IF (pos + i) % UsizeMod < Capacity THEN (pos + i) % UsizeMod ELSE Capacity - 1
Slot(pos, i) == ((pos + i) % UsizeMod) % Capacity

\* wrapping_sub of two counters.
Distance(t, h) == (t - h) % UsizeMod

Init ==
  /\ head = 0 /\ tail = 0 /\ data = [s \in 0 .. Capacity - 1 |-> 0]
  /\ ppc = "idle" /\ pmsg = <<>> /\ phead = 0 /\ ptail = 0 /\ pi = 0 /\ pres = "none"
  /\ cpc = "idle" /\ chead = 0 /\ cbuf = <<>> /\ cres = "none"
  /\ crashes = 0
  /\ sent = <<>> /\ consumed = <<>> /\ marks = <<0>>

-----------------------------------------------------------------------------
(* The producer: push(data).                                                *)

\* push returns, or its process dies: the locals are gone.
ProducerLeaves(result) ==
  /\ ppc' = "idle" /\ pmsg' = <<>> /\ phead' = 0 /\ ptail' = 0 /\ pi' = 0
  /\ pres' = result

\* A value pack_value has no bytes for: an error before the ring is looked at.
PushUnpackable ==
  /\ ppc = "idle" /\ Len(sent) < MaxPushes
  /\ ProducerLeaves("error")
  /\ UNCHANGED <<shared, consumer, history, crashes>>

\* The frame can never fit: an error, whatever is in the ring.
PushTooLarge(m) ==
  /\ ppc = "idle" /\ Len(sent) < MaxPushes
  /\ FrameLen(m) > Capacity
  /\ ProducerLeaves("error")
  /\ UNCHANGED <<shared, consumer, history, crashes>>

PushStartAnySize(m) ==
  /\ ppc = "idle" /\ Len(sent) < MaxPushes
  /\ ppc' = "load_head" /\ pmsg' = m
  /\ UNCHANGED <<phead, ptail, pi, pres>>
  /\ UNCHANGED <<shared, consumer, history, crashes>>

PushStart(m) ==
  /\ ppc = "idle" /\ Len(sent) < MaxPushes
  /\ FrameLen(m) <= Capacity
  /\ ppc' = "load_head" /\ pmsg' = m
  /\ UNCHANGED <<phead, ptail, pi, pres>>
  /\ UNCHANGED <<shared, consumer, history, crashes>>

\* The acquire load of head, which found h.
PushLoadHead(h) ==
  /\ ppc = "load_head"
  /\ ppc' = "check" /\ phead' = h
  /\ UNCHANGED <<pmsg, ptail, pi, pres>>
  /\ UNCHANGED <<shared, consumer, history, crashes>>

PushFullAtCapacity ==
  /\ ppc = "check"
  /\ Distance(tail, phead) + FrameLen(pmsg) >= Capacity
  /\ ProducerLeaves("full")
  /\ UNCHANGED <<shared, consumer, history, crashes>>

\* The relaxed load of its own tail, and the room check with the loaded head.
PushFull ==
  /\ ppc = "check"
  /\ Distance(tail, phead) + FrameLen(pmsg) > Capacity
  /\ ProducerLeaves("full")
  /\ UNCHANGED <<shared, consumer, history, crashes>>

PushFitsPayloadOnly ==
  /\ ppc = "check"
  /\ Distance(tail, phead) + Len(pmsg) <= Capacity
  /\ ppc' = "write" /\ ptail' = tail
  /\ UNCHANGED <<pmsg, phead, pi, pres>>
  /\ UNCHANGED <<shared, consumer, history, crashes>>

PushFits ==
  /\ ppc = "check"
  /\ Distance(tail, phead) + FrameLen(pmsg) <= Capacity
  /\ ppc' = "write" /\ ptail' = tail
  /\ UNCHANGED <<pmsg, phead, pi, pres>>
  /\ UNCHANGED <<shared, consumer, history, crashes>>

\* One byte of write_bytes.
PushWrite ==
  /\ ppc = "write"
  /\ data' = [data EXCEPT ![Slot(ptail, pi)] = FrameByte(pmsg, pi)]
  /\ pi' = pi + 1
  /\ ppc' = IF pi + 1 = FrameLen(pmsg) THEN "publish" ELSE "write"
  /\ UNCHANGED <<head, tail, pmsg, phead, ptail, pres>>
  /\ UNCHANGED <<consumer, history, crashes>>

PushPublishPayloadOnly ==
  /\ ppc = "publish"
  /\ tail' = (ptail + Len(pmsg)) % UsizeMod
  /\ sent' = Append(sent, pmsg)
  /\ marks' = Append(marks, marks[Len(marks)] + FrameLen(pmsg))
  /\ ProducerLeaves("ok")
  /\ UNCHANGED <<head, data, consumed, consumer, crashes>>

\* The release store of tail.
PushPublish ==
  /\ ppc = "publish"
  /\ tail' = (ptail + FrameLen(pmsg)) % UsizeMod
  /\ sent' = Append(sent, pmsg)
  /\ marks' = Append(marks, marks[Len(marks)] + FrameLen(pmsg))
  /\ ProducerLeaves("ok")
  /\ UNCHANGED <<head, data, consumed, consumer, crashes>>

-----------------------------------------------------------------------------
(* The consumer: pop(tag) and pop_mixed(schema), which differ only in how    *)
(* the payload is decoded after the frame has been taken out.                *)

ConsumerLeaves(result) ==
  /\ cpc' = "idle" /\ chead' = 0 /\ cbuf' = <<>> /\ cres' = result

\* The relaxed load of its own head.
Pop ==
  /\ cpc = "idle"
  /\ cpc' = "load_tail" /\ chead' = head
  /\ UNCHANGED <<cbuf, cres>>
  /\ UNCHANGED <<shared, producer, history, crashes>>

PopEmptyCompared(t) ==
  /\ cpc = "load_tail"
  /\ chead >= t
  /\ ConsumerLeaves("empty")
  /\ UNCHANGED <<shared, producer, history, crashes>>

\* The acquire load of tail, which found t.
PopEmpty(t) ==
  /\ cpc = "load_tail"
  /\ chead = t
  /\ ConsumerLeaves("empty")
  /\ UNCHANGED <<shared, producer, history, crashes>>

PopNotEmpty(t) ==
  /\ cpc = "load_tail"
  /\ chead # t
  /\ cpc' = "read_len"
  /\ UNCHANGED <<chead, cbuf, cres>>
  /\ UNCHANGED <<shared, producer, history, crashes>>

\* One byte of read_bytes: of the prefix until the length is known, then of
\* the payload.
ReadByte == cbuf' = Append(cbuf, data[Slot(chead, Len(cbuf))])

PopReadLen ==
  /\ cpc = "read_len"
  /\ ReadByte
  /\ cpc' = IF Len(cbuf) + 1 < HeaderBytes THEN "read_len"
            ELSE IF DecodeLen(cbuf') > 0 THEN "read_payload" ELSE "advance"
  /\ UNCHANGED <<chead, cres>>
  /\ UNCHANGED <<shared, producer, history, crashes>>

PopReadPayload ==
  /\ cpc = "read_payload"
  /\ ReadByte
  /\ cpc' = IF Len(cbuf) + 1 < HeaderBytes + DecodeLen(cbuf)
            THEN "read_payload" ELSE "advance"
  /\ UNCHANGED <<chead, cres>>
  /\ UNCHANGED <<shared, producer, history, crashes>>

\* The payload in a complete frame.
PayloadOf(b) == SubSeq(b, HeaderBytes + 1, Len(b))

PopAdvancePayloadOnly ==
  /\ cpc = "advance"
  /\ head' = (chead + DecodeLen(cbuf)) % UsizeMod
  /\ consumed' = Append(consumed, PayloadOf(cbuf))
  /\ cpc' = "decode"
  /\ UNCHANGED <<tail, data, chead, cbuf, cres, sent, marks, producer, crashes>>

\* The release store of head: the frame is consumed, decoded or not.
PopAdvance ==
  /\ cpc = "advance"
  /\ head' = (chead + HeaderBytes + DecodeLen(cbuf)) % UsizeMod
  /\ consumed' = Append(consumed, PayloadOf(cbuf))
  /\ cpc' = "decode"
  /\ UNCHANGED <<tail, data, chead, cbuf, cres, sent, marks, producer, crashes>>

\* The payload is decoded by the tag or schema the caller gave, which may not
\* fit it: the caller gets an error and the message is gone.
PopReturn(result) ==
  /\ cpc = "decode"
  /\ ConsumerLeaves(result)
  /\ UNCHANGED <<shared, producer, history, crashes>>

-----------------------------------------------------------------------------

ProducerCrash ==
  /\ ppc # "idle" /\ crashes < MaxCrashes
  /\ ProducerLeaves("none")
  /\ crashes' = crashes + 1
  /\ UNCHANGED <<shared, consumer, history>>

ConsumerCrash ==
  /\ cpc # "idle" /\ crashes < MaxCrashes
  /\ ConsumerLeaves("none")
  /\ crashes' = crashes + 1
  /\ UNCHANGED <<shared, producer, history>>

PushStep == PushLoadHead(head) \/ PushFull \/ PushFits \/ PushWrite \/ PushPublish
PopStep ==
  \/ PopEmpty(tail) \/ PopNotEmpty(tail) \/ PopReadLen \/ PopReadPayload \/ PopAdvance
  \/ \E result \in {"value", "decode_error"} : PopReturn(result)

Next ==
  \/ PushUnpackable
  \/ \E m \in Payloads : PushTooLarge(m) \/ PushStart(m)
  \/ PushStep
  \/ Pop
  \/ PopStep
  \/ ProducerCrash
  \/ ConsumerCrash

Spec == Init /\ [][Next]_vars

-----------------------------------------------------------------------------
(* Properties.                                                              *)

TypeOK ==
  /\ head \in 0 .. UsizeMod - 1 /\ tail \in 0 .. UsizeMod - 1
  /\ data \in [0 .. Capacity - 1 -> Byte]
  /\ ppc \in {"idle", "load_head", "check", "write", "publish"}
  /\ pmsg \in Payloads \cup {<<>>}
  /\ ppc # "idle" => pmsg \in Payloads /\ FrameLen(pmsg) <= Capacity
  /\ phead \in 0 .. UsizeMod - 1 /\ ptail \in 0 .. UsizeMod - 1
  /\ pi \in 0 .. FrameLen(pmsg)
  /\ pres \in {"none", "ok", "full", "error"}
  /\ cpc \in {"idle", "load_tail", "read_len", "read_payload", "advance", "decode"}
  /\ chead \in 0 .. UsizeMod - 1
  /\ cbuf \in Seq(Byte) /\ Len(cbuf) <= Capacity
  /\ cres \in {"none", "value", "decode_error", "empty"}
  /\ crashes \in 0 .. MaxCrashes
  /\ sent \in Seq(Payloads) /\ consumed \in Seq(Payloads) /\ marks \in Seq(Nat)

\* What comes out of pop is what went into push: whole messages, in order, none
\* twice and none skipped, through any wrap of the counters and of the data
\* area, and across the death and replacement of either process.
Fifo == IsPrefix(consumed, sent)

\* The ring never holds more than fits (the invariant in the layout comment of
\* src/spsc.rs: full when tail - head is the capacity), so the two counters
\* modulo 2^w tell how much is inside.
NeverOverfull == Distance(tail, head) <= Capacity

\* Lock-free, but no data race on the data area: the byte push is about to
\* write is never a byte of the frames between head and tail, which pop reads
\* without any lock.
WriterStaysOutside ==
  ppc = "write" => \A i \in 0 .. Distance(tail, head) - 1 : Slot(ptail, pi) # Slot(head, i)

\* The reader's side of the same bargain: every byte pop copies lies between
\* head and tail, including the payload whose length it only learns on the way.
ReaderStaysInside ==
  cpc \in {"read_len", "read_payload"} =>
    /\ chead = head
    /\ Len(cbuf) < Distance(tail, head)

Queue == SubSeq(sent, Len(consumed) + 1, Len(sent))
Abs == INSTANCE AbstractQueue WITH queue <- Queue, bytes <- Distance(tail, head)

\* The ring is a bounded FIFO queue of messages: a push takes effect at its store
\* of tail, a pop at its store of head, nothing else is visible.
ImplementsQueue == Abs!AbsSpec

\* Every published message is consumed in the end.
PublishedIsConsumed ==
  \A n \in 1 .. MaxPushes : Len(sent) >= n ~> Len(consumed) >= n

\* Back-pressure is temporary: after a push was refused for lack of room, a
\* retried push is accepted.
RefusedThenAccepted ==
  \A n \in 1 .. MaxPushes - 1 : (pres = "full" /\ Len(sent) = n) ~> Len(sent) > n

=============================================================================
