----------------------------- MODULE SpscProofs -----------------------------
(***************************************************************************)
(* The ring of SpscOrder.tla for every capacity, every width of the counters *)
(* that the capacity divides, every set of payloads shorter than 4 GiB and    *)
(* any number of pushes and crashes.                                         *)
(*                                                                          *)
(* marks holds the counters as they would be without wrapping.  The argument: *)
(* the values stored in head and in tail are the marks, reduced (CountersOK); *)
(* the bytes between the two marks are the frames still to be consumed       *)
(* (DataOK); and never more than Capacity bytes are ahead of the value of     *)
(* head the producer saw last, which bounds what is ahead of head itself.     *)
(***************************************************************************)
EXTENDS SpscOrder, ModularArithmetic, TLAPS

\* The counter and the byte of the data area that stand for position x.
Counter(x) == x % UsizeMod
At(x) == x % Capacity

\* Messages published and consumed; where the bytes in the ring begin and end.
Pushed == Len(sent)
Popped == Len(consumed)
Begin == marks[Popped + 1]
End == marks[Pushed + 1]
Reading == {"read_len", "read_payload", "advance"}

\* Frame k lies between mark k and mark k + 1; consumed is the beginning of sent.
HistoryOK ==
  /\ Len(marks) = Pushed + 1 /\ marks[1] = 0
  /\ \A k \in 1 .. Pushed : marks[k + 1] = marks[k] + FrameLen(sent[k])
  /\ \A j, k \in 1 .. Pushed + 1 : j <= k => marks[j] <= marks[k]
  /\ Popped <= Pushed
  /\ \A k \in 1 .. Popped : consumed[k] = sent[k]

\* The counters, and every value they ever had, are the marks modulo UsizeMod; what a
\* role saw last is not too old.
CountersOK ==
  /\ heads \in Seq(Nat) /\ Len(heads) = Popped + 1
  /\ \A k \in 1 .. Popped + 1 : heads[k] = Counter(marks[k])
  /\ head = Counter(Begin)
  /\ tails \in Seq(Nat) /\ Len(tails) = Pushed + 1
  /\ \A k \in 1 .. Pushed + 1 : tails[k] = Counter(marks[k])
  /\ tail = Counter(End)
  /\ pseen \in 1 .. Popped + 1 /\ End - marks[pseen] <= Capacity
  /\ cseen \in Popped + 1 .. Pushed + 1

\* The frames between head and tail are in the data area.
DataOK ==
  \A k \in Popped + 1 .. Pushed : \A i \in 0 .. FrameLen(sent[k]) - 1 :
    data[At(marks[k] + i)] = FrameByte(sent[k], i)

\* A push that was let in has room for its frame, and has written pi bytes of it.
ProducerOK ==
  /\ ppc # "idle" => pmsg \in Payloads
  /\ ppc = "check" => phead = Counter(marks[pseen])
  /\ ppc \in {"write", "publish"} =>
       /\ ptail = tail
       /\ End - marks[pseen] + FrameLen(pmsg) <= Capacity
       /\ \A i \in 0 .. pi - 1 : data[At(End + i)] = FrameByte(pmsg, i)
  /\ pi = 0 \/ ppc \in {"write", "publish"}
  /\ ppc = "write" => pi < FrameLen(pmsg)
  /\ ppc = "publish" => pi = FrameLen(pmsg)

\* A pop that found something has copied the beginning of the next frame.
ConsumerOK ==
  /\ cpc \in {"load_tail"} \cup Reading => chead = head
  /\ cpc \in {"idle", "load_tail"} => cbuf = <<>>
  /\ cpc \in Reading =>
       /\ Popped + 1 < cseen
       /\ Len(cbuf) <= FrameLen(sent[Popped + 1])
       /\ \A i \in 1 .. Len(cbuf) : cbuf[i] = FrameByte(sent[Popped + 1], i - 1)
  /\ cpc = "read_len" => Len(cbuf) < HeaderBytes
  /\ cpc = "read_payload" =>
       HeaderBytes <= Len(cbuf) /\ Len(cbuf) < FrameLen(sent[Popped + 1])
  /\ cpc = "advance" => Len(cbuf) = FrameLen(sent[Popped + 1])

\* A byte was last read by a pop whose frame covers it, last written by a push that
\* had room.
StampsOK ==
  /\ rstamp \in [0 .. Capacity - 1 -> 1 .. Popped + 2]
  /\ wstamp \in [0 .. Capacity - 1 -> 1 .. Pushed + 2]
  /\ \A s \in 0 .. Capacity - 1 :
       /\ rstamp[s] = 1 \/
            /\ rstamp[s] - 1 <= Pushed
            /\ \E x \in marks[rstamp[s] - 1] .. End - 1 : At(x) = s
       /\ wstamp[s] = 1 \/
            \E x \in marks[wstamp[s] - 1] .. marks[pseen] + Capacity - 1 : At(x) = s

\* The inductive invariant.
IInv ==
  /\ TypeOK /\ HistoryOK /\ CountersOK /\ DataOK /\ ProducerOK /\ ConsumerOK /\ StampsOK

-----------------------------------------------------------------------------
(* Frames and positions.                                                    *)

LEMMA Sizes ==
  /\ Capacity \in Nat \ {0} /\ UsizeMod \in Nat \ {0} /\ Capacity < UsizeMod
  /\ UsizeMod % Capacity = 0
BY CapacityAssumption

\* Position x is at byte x modulo Capacity, however its counter has wrapped.
LEMMA SlotOf ==
  ASSUME NEW x \in Nat, NEW i \in Nat
  PROVE  Slot(Counter(x), i) = At(x + i) /\ At(x + i) \in 0 .. Capacity - 1
<1>1. /\ x \in Int /\ i \in Int /\ x + i \in Int
      /\ UsizeMod \in Nat \ {0} /\ Capacity \in Nat \ {0} /\ UsizeMod % Capacity = 0
  BY Sizes
<1>2. ((x % UsizeMod) + i) % UsizeMod = (x + i) % UsizeMod
  BY <1>1, ModAdd, Zenon
<1>3. ((x + i) % UsizeMod) % Capacity = (x + i) % Capacity
  BY <1>1, ModMod, Zenon
<1>4. (x + i) % Capacity \in 0 .. Capacity - 1
  BY <1>1, DivMod, Zenon
<1>5. QED
  BY <1>2, <1>3, <1>4, Zenon DEF Slot, Counter, At

\* Positions that are less than the capacity apart are at different bytes.
LEMMA DifferentSlots ==
  ASSUME NEW x \in Nat, NEW y \in Nat, x < y, y < x + Capacity
  PROVE  At(y) # At(x)
<1>1. x \in Int /\ y \in Int /\ Capacity \in Nat \ {0} /\ 0 < y - x /\ y - x < Capacity
  BY Sizes
<1>2. QED
  BY <1>1, ModDistinct, Zenon DEF At

\* Counters of positions no further apart than the capacity tell how far apart they are.
LEMMA DistanceOf ==
  ASSUME NEW x \in Nat, NEW y \in Nat, x <= y, y - x <= Capacity
  PROVE  Distance(Counter(y), Counter(x)) = y - x
<1>1. x \in Int /\ y \in Int /\ UsizeMod \in Nat \ {0} /\ 0 <= y - x /\ y - x < UsizeMod
  BY Sizes
<1>2. QED
  BY <1>1, ModDiff, Zenon DEF Distance, Counter

\* What push and pop add to a counter is added to its position.
LEMMA CounterMoves ==
  ASSUME NEW x \in Nat, NEW n \in Nat
  PROVE  (Counter(x) + n) % UsizeMod = Counter(x + n) /\ Counter(x + n) \in 0 .. UsizeMod - 1
<1>1. x \in Int /\ n \in Int /\ x + n \in Int /\ UsizeMod \in Nat \ {0}
  BY Sizes
<1>2. ((x % UsizeMod) + n) % UsizeMod = (x + n) % UsizeMod
  BY <1>1, ModAdd, Zenon
<1>3. (x + n) % UsizeMod \in 0 .. UsizeMod - 1
  BY <1>1, DivMod, Zenon
<1>4. QED
  BY <1>2, <1>3, Zenon DEF Counter

LEMMA FrameFacts ==
  ASSUME NEW m \in Payloads
  PROVE  /\ m \in Seq(Byte) /\ Len(m) \in Nat /\ FrameLen(m) \in Nat /\ FrameLen(m) = Len(m) + 4
         /\ \A i \in 0 .. FrameLen(m) - 1 : FrameByte(m, i) \in Byte
<1>1. m \in Seq(Byte) /\ Len(m) \in Nat
  BY PayloadAssumption
<1>2. FrameLen(m) \in Nat /\ FrameLen(m) = Len(m) + 4
  BY <1>1 DEF FrameLen, HeaderBytes
<1>3. ASSUME NEW i \in 0 .. FrameLen(m) - 1
      PROVE  FrameByte(m, i) \in Byte
  <2>1. CASE i < HeaderBytes
    <3>1. i \in 0 .. 3
      BY <2>1 DEF HeaderBytes
    <3>2. LenByte(Len(m), i) \in 0 .. 255
      <4> DEFINE n == Len(m)
      <4>0. n \in Nat
        BY <1>1
      <4> HIDE DEF n
      <4>1. /\ n % 256 \in 0 .. 255 /\ (n \div 256) % 256 \in 0 .. 255
            /\ (n \div 65536) % 256 \in 0 .. 255 /\ (n \div 16777216) % 256 \in 0 .. 255
        BY <4>0
      <4>2. i = 0 \/ i = 1 \/ i = 2 \/ i = 3
        BY <3>1
      <4>3. LenByte(n, 0) \in 0 .. 255 /\ LenByte(n, 1) \in 0 .. 255
            /\ LenByte(n, 2) \in 0 .. 255 /\ LenByte(n, 3) \in 0 .. 255
        BY <4>1 DEF LenByte
      <4>4. QED
        BY <4>2, <4>3 DEF n
    <3>3. QED
      BY <2>1, <3>2 DEF FrameByte, Byte
  <2>2. CASE ~(i < HeaderBytes)
    BY <1>1, <1>2, <1>3, <2>2 DEF FrameByte, HeaderBytes
  <2>3. QED
    BY <2>1, <2>2
<1>4. QED
  BY <1>1, <1>2, <1>3

\* The consumer decodes the length that the producer encoded.
LEMMA PrefixRoundTrip ==
  ASSUME NEW m \in Payloads, NEW b \in Seq(Byte), Len(b) >= HeaderBytes,
         \A i \in 1 .. Len(b) : b[i] = FrameByte(m, i - 1)
  PROVE  DecodeLen(b) = Len(m)
<1> DEFINE n == Len(m)
<1>1. n \in Nat /\ n \div 65536 < 65536
  BY FrameFacts, PayloadAssumption
<1>2. /\ b[1] = LenByte(n, 0) /\ b[2] = LenByte(n, 1)
      /\ b[3] = LenByte(n, 2) /\ b[4] = LenByte(n, 3)
  BY DEF FrameByte, HeaderBytes
<1> HIDE DEF n
<1>3. /\ b[1] = n % 256 /\ b[2] = (n \div 256) % 256
      /\ b[3] = (n \div 65536) % 256 /\ b[4] = (n \div 16777216) % 256
  BY <1>2 DEF LenByte
<1>4. n = (n % 256) + 256 * ((n \div 256) % 256) + 65536 * ((n \div 65536) % 256)
            + 16777216 * ((n \div 16777216) % 256)
  BY <1>1
<1>5. QED
  BY <1>3, <1>4 DEF DecodeLen, n

-----------------------------------------------------------------------------
(* What the invariant says of positions.                                    *)

LEMMA Facts ==
  ASSUME IInv
  PROVE  /\ Pushed \in Nat /\ Popped \in Nat /\ Popped <= Pushed
         /\ \A k \in 1 .. Pushed + 1 : marks[k] \in Nat
         /\ \A k \in 1 .. Pushed : sent[k] \in Payloads /\ FrameLen(sent[k]) \in Nat
         /\ pseen \in 1 .. Popped + 1 /\ cseen \in Popped + 1 .. Pushed + 1
         /\ Begin \in Nat /\ End \in Nat /\ marks[pseen] \in Nat
         /\ marks[pseen] <= Begin /\ Begin <= End /\ End - marks[pseen] <= Capacity
         /\ ppc # "idle" => pmsg \in Payloads /\ FrameLen(pmsg) \in Nat \ {0}
<1>0. sent \in Seq(Payloads) /\ consumed \in Seq(Payloads) /\ marks \in Seq(Nat)
  BY DEF IInv, TypeOK
<1>1. /\ Pushed \in Nat /\ Popped \in Nat /\ Popped <= Pushed
      /\ pseen \in 1 .. Popped + 1 /\ cseen \in Popped + 1 .. Pushed + 1
      /\ End - marks[pseen] <= Capacity
  <2>1. Pushed \in Nat /\ Popped \in Nat
    BY <1>0 DEF Pushed, Popped
  <2>2. QED
    BY <2>1 DEF IInv, HistoryOK, CountersOK
<1>2. \A k \in 1 .. Pushed + 1 : marks[k] \in Nat
  BY <1>0 DEF IInv, HistoryOK
<1>3. \A k \in 1 .. Pushed : sent[k] \in Payloads
  BY <1>0 DEF Pushed
<1>4. \A j, k \in 1 .. Pushed + 1 : j <= k => marks[j] <= marks[k]
  BY DEF IInv, HistoryOK
<1>5. ppc # "idle" => pmsg \in Payloads
  BY DEF IInv, ProducerOK
<1>6. \A m \in Payloads : FrameLen(m) \in Nat \ {0}
  BY FrameFacts
<1>7. QED
  BY <1>1, <1>2, <1>3, <1>4, <1>5, <1>6 DEF Begin, End

\* A head that the producer may find, or has found, is at most the capacity behind.
LEMMA HeadsNear ==
  ASSUME IInv, NEW k \in pseen .. Popped + 1
  PROVE  /\ marks[k] \in Nat /\ marks[pseen] <= marks[k] /\ marks[k] <= Begin
         /\ Distance(tail, Counter(marks[k])) = End - marks[k] /\ End - marks[k] <= Capacity
<1>1. k \in 1 .. Pushed + 1 /\ pseen \in 1 .. Pushed + 1 /\ Popped + 1 \in 1 .. Pushed + 1
      /\ pseen <= k /\ k <= Popped + 1
  BY Facts
<1>2. marks[k] \in Nat /\ marks[pseen] <= marks[k] /\ marks[k] <= Begin
  BY <1>1, Facts DEF IInv, HistoryOK, Begin
<1>3. marks[k] <= End /\ End - marks[k] <= Capacity /\ End \in Nat
  BY <1>2, Facts, Sizes
<1>4. Distance(Counter(End), Counter(marks[k])) = End - marks[k]
  BY <1>2, <1>3, DistanceOf
<1>5. QED
  BY <1>2, <1>3, <1>4 DEF IInv, CountersOK

\* The wrapping difference of tail and head is what is in the ring.
LEMMA BytesInside ==
  ASSUME IInv
  PROVE  /\ Distance(tail, head) = End - Begin /\ End - Begin <= Capacity
         /\ Begin \in Nat /\ End \in Nat
<1>1. Popped + 1 \in pseen .. Popped + 1
  BY Facts
<1>2. Distance(tail, Counter(Begin)) = End - Begin /\ End - Begin <= Capacity
  BY <1>1, HeadsNear DEF Begin
<1>3. QED
  BY <1>2, Facts DEF IInv, CountersOK

LEMMA StampFacts ==
  ASSUME IInv, NEW s \in 0 .. Capacity - 1
  PROVE  /\ rstamp[s] \in 1 .. Popped + 2 /\ wstamp[s] \in 1 .. Pushed + 2
         /\ rstamp[s] # 1 => rstamp[s] - 1 \in 1 .. Pushed /\ marks[rstamp[s] - 1] \in Nat
         /\ wstamp[s] # 1 => wstamp[s] - 1 \in 1 .. Pushed + 1 /\ marks[wstamp[s] - 1] \in Nat
<1>1. rstamp[s] \in 1 .. Popped + 2 /\ wstamp[s] \in 1 .. Pushed + 2
  BY DEF IInv, StampsOK
<1>2. rstamp[s] # 1 => rstamp[s] - 1 <= Pushed
  BY DEF IInv, StampsOK
<1>3. /\ rstamp[s] # 1 => rstamp[s] - 1 \in 1 .. Pushed
      /\ wstamp[s] # 1 => wstamp[s] - 1 \in 1 .. Pushed + 1
  BY <1>1, <1>2, Facts
<1>4. QED
  BY <1>1, <1>3, Facts

-----------------------------------------------------------------------------

LEMMA InitIInv == OrderInit => IInv
<1> SUFFICES ASSUME OrderInit PROVE IInv
  OBVIOUS
<1> USE DEF OrderInit, Init
<1>1. Pushed = 0 /\ Popped = 0 /\ Begin = 0 /\ End = 0 /\ Counter(0) = 0
  BY Sizes, ModSmall DEF Pushed, Popped, Begin, End, Counter
<1>2. TypeOK
  BY Sizes, BoundAssumption DEF TypeOK, Byte, FrameLen, HeaderBytes
<1>3. HistoryOK
  BY <1>1 DEF HistoryOK
<1>4. CountersOK
  BY <1>1, Sizes DEF CountersOK
<1>5. DataOK /\ ProducerOK /\ ConsumerOK
  BY <1>1 DEF DataOK, ProducerOK, ConsumerOK, Reading
<1>6. StampsOK
  BY <1>1 DEF StampsOK
<1>7. QED
  BY <1>2, <1>3, <1>4, <1>5, <1>6 DEF IInv

-----------------------------------------------------------------------------
(* Steps within one process.                                                *)

LEMMA ProducerLocal ==
  ASSUME IInv, UNCHANGED <<shared, consumer, history, order>>, TypeOK', ProducerOK'
  PROVE  IInv'
<1>1. HistoryOK' /\ CountersOK'
  BY DEF IInv, HistoryOK, CountersOK, shared, history, order, Pushed, Popped, Begin, End
<1>2. DataOK' /\ ConsumerOK' /\ StampsOK'
  BY DEF IInv, DataOK, ConsumerOK, StampsOK, shared, consumer, history, order, Pushed, Popped, End
<1>3. QED
  BY <1>1, <1>2 DEF IInv

LEMMA ConsumerLocal ==
  ASSUME IInv, UNCHANGED <<shared, producer, history, order>>, TypeOK', ConsumerOK'
  PROVE  IInv'
<1>1. HistoryOK' /\ CountersOK'
  BY DEF IInv, HistoryOK, CountersOK, shared, history, order, Pushed, Popped, Begin, End
<1>2. DataOK' /\ ProducerOK' /\ StampsOK'
  BY DEF IInv, DataOK, ProducerOK, StampsOK, shared, producer, history, order, Pushed, Popped, End
<1>3. QED
  BY <1>1, <1>2 DEF IInv

LEMMA ProducerLeavesOK ==
  ASSUME IInv, NEW r \in {"none", "full", "error"}, ProducerLeaves(r),
         UNCHANGED <<shared, consumer, history, order>>, crashes' \in 0 .. MaxCrashes
  PROVE  IInv'
<1>1. TypeOK'
  BY Sizes DEF ProducerLeaves, IInv, TypeOK, shared, consumer, history, FrameLen, HeaderBytes
<1>2. ProducerOK'
  BY DEF ProducerLeaves, ProducerOK
<1>3. QED
  BY <1>1, <1>2, ProducerLocal

LEMMA ConsumerLeavesOK ==
  ASSUME IInv, NEW r \in {"none", "value", "decode_error", "empty"}, ConsumerLeaves(r),
         UNCHANGED <<shared, producer, history, order>>, crashes' \in 0 .. MaxCrashes
  PROVE  IInv'
<1>1. TypeOK'
  BY Sizes DEF ConsumerLeaves, IInv, TypeOK, shared, producer, history, FrameLen, HeaderBytes
<1>2. ConsumerOK'
  BY DEF ConsumerLeaves, ConsumerOK, Reading
<1>3. QED
  BY <1>1, <1>2, ConsumerLocal

LEMMA PushStartOK ==
  ASSUME IInv, NEW m \in Payloads, PushStart(m), UNCHANGED order
  PROVE  IInv'
<1>1. pi = 0
  BY DEF IInv, ProducerOK, PushStart
<1>2. TypeOK'
  BY <1>1, FrameFacts DEF PushStart, IInv, TypeOK, shared, consumer, history
<1>3. ProducerOK'
  BY <1>1 DEF PushStart, ProducerOK
<1>4. QED
  BY <1>2, <1>3, ProducerLocal DEF PushStart

\* The room that was found behind the head that the producer saw is there.
LEMMA PushFitsOK ==
  ASSUME IInv, PushFits, UNCHANGED order
  PROVE  IInv'
<1>1. /\ phead = Counter(marks[pseen]) /\ pi = 0 /\ pmsg \in Payloads
      /\ FrameLen(pmsg) \in Nat \ {0}
  BY Facts DEF IInv, ProducerOK, PushFits
<1>2. pseen \in pseen .. Popped + 1
  BY Facts
<1>3. End - marks[pseen] + FrameLen(pmsg) <= Capacity
  BY <1>1, <1>2, HeadsNear DEF PushFits
<1>4. TypeOK'
  BY <1>1 DEF PushFits, IInv, TypeOK, shared, consumer, history
<1>5. ProducerOK'
  BY <1>1, <1>3 DEF PushFits, ProducerOK, shared, history, order, Pushed, End
<1>6. QED
  BY <1>4, <1>5, ProducerLocal DEF PushFits

LEMMA PopOK ==
  ASSUME IInv, Pop, UNCHANGED order
  PROVE  IInv'
<1>1. cbuf = <<>>
  BY DEF IInv, ConsumerOK, Pop
<1>2. TypeOK'
  BY DEF Pop, IInv, TypeOK, shared, producer, history
<1>3. ConsumerOK'
  BY <1>1 DEF Pop, ConsumerOK, Reading, shared
<1>4. QED
  BY <1>2, <1>3, ConsumerLocal DEF Pop

LEMMA LocalStepOK ==
  ASSUME IInv, LocalStep
  PROVE  IInv'
<1>1. crashes \in 0 .. MaxCrashes /\ MaxCrashes \in Nat
  BY BoundAssumption DEF IInv, TypeOK
<1>2. CASE PushUnpackable \/ (\E m \in Payloads : PushTooLarge(m)) \/ PushFull \/ ProducerCrash
  <2>1. \E r \in {"none", "full", "error"} : ProducerLeaves(r)
    BY <1>2 DEF PushUnpackable, PushTooLarge, PushFull, ProducerCrash
  <2>2. UNCHANGED <<shared, consumer, history, order>> /\ crashes' \in 0 .. MaxCrashes
    BY <1>1, <1>2 DEF PushUnpackable, PushTooLarge, PushFull, ProducerCrash, LocalStep
  <2>3. QED
    BY <2>1, <2>2, ProducerLeavesOK
<1>3. CASE (\E result \in {"value", "decode_error"} : PopReturn(result)) \/ ConsumerCrash
  <2>1. \E r \in {"none", "value", "decode_error", "empty"} : ConsumerLeaves(r)
    BY <1>3 DEF PopReturn, ConsumerCrash
  <2>2. UNCHANGED <<shared, producer, history, order>> /\ crashes' \in 0 .. MaxCrashes
    BY <1>1, <1>3 DEF PopReturn, ConsumerCrash, LocalStep
  <2>3. QED
    BY <2>1, <2>2, ConsumerLeavesOK
<1>4. CASE (\E m \in Payloads : PushStart(m)) \/ PushFits \/ Pop
  BY <1>4, PushStartOK, PushFitsOK, PopOK DEF LocalStep
<1>5. QED
  BY <1>2, <1>3, <1>4 DEF LocalStep

-----------------------------------------------------------------------------
(* Loads of the other side's counter.                                       *)

\* A store that may be found, of head or of tail.
LEMMA StoresFound ==
  ASSUME IInv
  PROVE  /\ \A k \in pseen .. Len(heads) :
              /\ k \in pseen .. Popped + 1 /\ k \in 1 .. Popped + 1
              /\ heads[k] = Counter(marks[k]) /\ heads[k] \in 0 .. UsizeMod - 1
         /\ \A k \in cseen .. Len(tails) :
              k \in Popped + 1 .. Pushed + 1 /\ tails[k] = Counter(marks[k])
<1>1. ASSUME NEW k \in pseen .. Len(heads)
      PROVE  /\ k \in pseen .. Popped + 1 /\ k \in 1 .. Popped + 1
             /\ heads[k] = Counter(marks[k]) /\ heads[k] \in 0 .. UsizeMod - 1
  <2>1. k \in pseen .. Popped + 1 /\ k \in 1 .. Popped + 1 /\ heads[k] = Counter(marks[k])
    BY Facts DEF IInv, CountersOK
  <2>2. marks[k] \in Nat
    BY <2>1, HeadsNear
  <2>3. marks[k] + 0 = marks[k]
    BY <2>2
  <2>4. Counter(marks[k] + 0) \in 0 .. UsizeMod - 1
    BY <2>2, CounterMoves
  <2>5. QED
    BY <2>1, <2>3, <2>4
<1>2. ASSUME NEW k \in cseen .. Len(tails)
      PROVE  k \in Popped + 1 .. Pushed + 1 /\ tails[k] = Counter(marks[k])
  <2>1. Popped \in Nat /\ Pushed \in Nat /\ cseen \in Popped + 1 .. Pushed + 1
    BY Facts
  <2>2. Len(tails) = Pushed + 1 /\ \A j \in 1 .. Pushed + 1 : tails[j] = Counter(marks[j])
    BY DEF IInv, CountersOK
  <2>3. k \in Popped + 1 .. Pushed + 1 /\ k \in 1 .. Pushed + 1
    BY <2>1, <2>2
  <2>4. QED
    BY <2>2, <2>3
<1>3. QED
  BY <1>1, <1>2

\* The producer has seen a newer head: less of what it wrote is too far ahead.
LEMMA HeadSeen ==
  ASSUME IInv, NEW k \in pseen .. Len(heads), pseen' = k,
         UNCHANGED <<shared, consumer, history, heads, tails, cseen, wstamp, rstamp>>,
         TypeOK', ProducerOK'
  PROVE  IInv'
<1>1. k \in pseen .. Popped + 1 /\ k \in 1 .. Popped + 1
  BY StoresFound
<1>2. marks[k] \in Nat /\ marks[pseen] <= marks[k] /\ End - marks[k] <= Capacity
  BY <1>1, HeadsNear
<1>3. HistoryOK' /\ DataOK' /\ ConsumerOK'
  BY DEF IInv, HistoryOK, DataOK, ConsumerOK, shared, consumer, history, Pushed, Popped
<1>4. CountersOK'
  BY <1>1, <1>2 DEF IInv, CountersOK, shared, consumer, history, Pushed, Popped, Begin, End
<1>5. StampsOK'
  <2>1. UNCHANGED <<sent, consumed, marks, rstamp, wstamp>>
    BY DEF history
  <2>2. ASSUME NEW s \in 0 .. Capacity - 1, wstamp[s] # 1
        PROVE  \E x \in marks[wstamp[s] - 1] .. marks[k] + Capacity - 1 : At(x) = s
    <3>1. PICK x \in marks[wstamp[s] - 1] .. marks[pseen] + Capacity - 1 : At(x) = s
      BY <2>2 DEF IInv, StampsOK
    <3>2. x \in Int /\ marks[wstamp[s] - 1] <= x /\ x <= marks[pseen] + Capacity - 1
      BY <2>2, <3>1, StampFacts
    <3>3. x <= marks[k] + Capacity - 1 /\ marks[k] + Capacity - 1 \in Int
      <4>1. marks[pseen] \in Nat /\ Capacity \in Nat
        BY Facts, Sizes
      <4>2. QED
        BY <1>2, <3>2, <4>1
    <3>4. marks[wstamp[s] - 1] \in Int
      BY <2>2, StampFacts
    <3>5. QED
      BY <3>1, <3>2, <3>3, <3>4
  <2>3. QED
    BY <2>1, <2>2 DEF IInv, StampsOK, Pushed, Popped, End
<1>6. QED
  BY <1>3, <1>4, <1>5 DEF IInv

\* The consumer has seen a newer tail.
LEMMA TailSeen ==
  ASSUME IInv, NEW k \in cseen .. Len(tails), cseen' = k,
         UNCHANGED <<shared, producer, history, heads, tails, pseen, wstamp, rstamp>>,
         TypeOK', ConsumerOK'
  PROVE  IInv'
<1>1. k \in Popped + 1 .. Pushed + 1
  BY StoresFound
<1>2. HistoryOK' /\ DataOK' /\ ProducerOK' /\ StampsOK'
  BY DEF IInv, HistoryOK, DataOK, ProducerOK, StampsOK, shared, producer, history, Pushed, Popped, End
<1>3. CountersOK'
  BY <1>1 DEF IInv, CountersOK, shared, history, Pushed, Popped, Begin, End
<1>4. QED
  BY <1>2, <1>3 DEF IInv

LEMMA OldHeadLoadedOK ==
  ASSUME IInv, OldHeadLoaded
  PROVE  IInv'
<1>1. PICK k \in pseen .. Len(heads) :
        /\ PushLoadHead(heads[k]) /\ pseen' = k
        /\ UNCHANGED <<heads, tails, cseen, wstamp, rstamp>>
  BY DEF OldHeadLoaded
<1>2. heads[k] = Counter(marks[k]) /\ heads[k] \in 0 .. UsizeMod - 1
  BY StoresFound
<1>3. TypeOK'
  BY <1>1, <1>2 DEF PushLoadHead, IInv, TypeOK, shared, consumer, history
<1>4. ProducerOK'
  BY <1>1, <1>2 DEF PushLoadHead, IInv, ProducerOK, shared, consumer, history, Pushed, End
<1>5. QED
  BY <1>1, <1>3, <1>4, HeadSeen DEF PushLoadHead

\* An old value of tail is not that of head unless it is the last one that was consumed.
LEMMA OldTailLoadedOK ==
  ASSUME IInv, OldTailLoaded
  PROVE  IInv'
<1>1. PICK k \in cseen .. Len(tails) :
        /\ PopEmpty(tails[k]) \/ PopNotEmpty(tails[k])
        /\ cseen' = k
        /\ UNCHANGED <<heads, tails, pseen, wstamp, rstamp>>
  BY DEF OldTailLoaded
<1>2. k \in Popped + 1 .. Pushed + 1 /\ tails[k] = Counter(marks[k])
  BY StoresFound
<1>3. UNCHANGED <<shared, producer, history, crashes>> /\ cpc = "load_tail" /\ cbuf = <<>>
  BY <1>1 DEF PopEmpty, PopNotEmpty, IInv, ConsumerOK
<1>4. TypeOK'
  <2>1. /\ cpc' \in {"idle", "read_len"} /\ chead' \in {0, chead} /\ cbuf' = <<>>
        /\ cres' \in {"empty", cres}
    BY <1>1, <1>3 DEF PopEmpty, PopNotEmpty, ConsumerLeaves
  <2>2. QED
    BY <1>3, <2>1, Sizes DEF IInv, TypeOK, shared, producer, history
<1>5. ConsumerOK'
  <2>1. CASE PopEmpty(tails[k])
    BY <2>1 DEF PopEmpty, ConsumerLeaves, ConsumerOK, Reading
  <2>2. CASE PopNotEmpty(tails[k])
    <3>1. Counter(Begin) # Counter(marks[k])
      BY <1>2, <2>2 DEF PopNotEmpty, IInv, ConsumerOK, CountersOK
    <3>2. Popped + 1 < k
      BY <1>2, <3>1, Facts DEF Begin
    <3>3. Popped' = Popped /\ sent' = sent /\ head' = head /\ cseen' = k
      BY <1>1, <1>3 DEF shared, history, Popped
    <3>4. cpc' = "read_len" /\ chead' = head' /\ cbuf' = <<>>
      BY <1>3, <2>2, <3>3 DEF PopNotEmpty, IInv, ConsumerOK
    <3>5. Popped + 1 \in 1 .. Pushed
      BY <1>2, <3>2, Facts
    <3>6. FrameLen(sent[Popped + 1]) >= 0
      BY <3>5, Facts
    <3>7. QED
      BY <3>2, <3>3, <3>4, <3>6 DEF ConsumerOK, Reading, HeaderBytes
  <2>3. QED
    BY <1>1, <2>1, <2>2
<1>6. QED
  BY <1>1, <1>3, <1>4, <1>5, TailSeen

-----------------------------------------------------------------------------
(* Bytes of the data area.                                                  *)

\* The byte that push writes next is at a position that no byte in the ring, and none
\* that it has written of its frame, shares a slot with.
LEMMA WritePosition ==
  ASSUME IInv, ppc = "write"
  PROVE  /\ End + pi \in Nat /\ pi \in Nat /\ pi < FrameLen(pmsg) /\ pmsg \in Payloads
         /\ Slot(ptail, pi) = At(End + pi) /\ At(End + pi) \in 0 .. Capacity - 1
         /\ End + pi < marks[pseen] + Capacity
         /\ \A x \in Nat : marks[pseen] <= x /\ x < End + pi => At(x) # At(End + pi)
<1>1. /\ pi \in Nat /\ pi < FrameLen(pmsg) /\ pmsg \in Payloads /\ ptail = Counter(End)
      /\ End - marks[pseen] + FrameLen(pmsg) <= Capacity
  BY DEF IInv, TypeOK, ProducerOK, CountersOK
<1>2. FrameLen(pmsg) \in Nat /\ End \in Nat /\ marks[pseen] \in Nat /\ Capacity \in Nat
  BY <1>1, FrameFacts, Facts, Sizes
<1>3. Slot(ptail, pi) = At(End + pi) /\ At(End + pi) \in 0 .. Capacity - 1
  BY <1>1, <1>2, SlotOf
<1>4. End + pi \in Nat /\ End + pi < marks[pseen] + Capacity
  BY <1>1, <1>2
<1>5. ASSUME NEW x \in Nat, marks[pseen] <= x, x < End + pi
      PROVE  At(x) # At(End + pi)
  <2>1. End + pi < x + Capacity
    BY <1>2, <1>4, <1>5
  <2>2. QED
    BY <1>4, <1>5, <2>1, DifferentSlots
<1>6. QED
  BY <1>1, <1>3, <1>4, <1>5

\* Positions of the frames in the ring.
LEMMA FramePosition ==
  ASSUME IInv, NEW k \in Popped + 1 .. Pushed, NEW i \in 0 .. FrameLen(sent[k]) - 1
  PROVE  /\ sent[k] \in Payloads /\ FrameLen(sent[k]) \in Nat /\ marks[k] + i \in Nat
         /\ marks[k] \in Nat /\ marks[k] + FrameLen(sent[k]) <= End
         /\ Begin <= marks[k] + i /\ marks[k] + i < End
<1>1. k \in 1 .. Pushed /\ k + 1 \in 1 .. Pushed + 1 /\ Popped + 1 \in 1 .. Pushed + 1
      /\ Pushed + 1 \in 1 .. Pushed + 1 /\ k \in 1 .. Pushed + 1 /\ Popped + 1 <= k /\ k + 1 <= Pushed + 1
  BY Facts
<1>2. sent[k] \in Payloads /\ FrameLen(sent[k]) \in Nat /\ marks[k] \in Nat
  BY <1>1, Facts
<1>3. Begin <= marks[k] /\ marks[k + 1] <= End
  BY <1>1 DEF IInv, HistoryOK, Begin, End
<1>4. marks[k + 1] = marks[k] + FrameLen(sent[k])
  BY <1>1 DEF IInv, HistoryOK
<1>5. Begin \in Nat /\ End \in Nat
  BY Facts
<1>6. QED
  BY <1>2, <1>3, <1>4, <1>5

LEMMA ByteWrittenOK ==
  ASSUME IInv, ByteWritten
  PROVE  IInv'
<1> DEFINE s == At(End + pi)
<1>1. /\ ppc = "write" /\ s \in 0 .. Capacity - 1 /\ Slot(ptail, pi) = s /\ pi \in Nat
      /\ pi < FrameLen(pmsg) /\ pmsg \in Payloads /\ FrameLen(pmsg) \in Nat
      /\ FrameByte(pmsg, pi) \in Byte /\ End + pi \in Nat
  BY WritePosition, FrameFacts DEF ByteWritten, PushWrite
<1>2. /\ data' = [data EXCEPT ![s] = FrameByte(pmsg, pi)] /\ pi' = pi + 1
      /\ ppc' = IF pi + 1 = FrameLen(pmsg) THEN "publish" ELSE "write"
      /\ wstamp' = [wstamp EXCEPT ![s] = Len(tails) + 1]
      /\ UNCHANGED <<head, tail, pmsg, phead, ptail, pres, consumer, history, crashes>>
      /\ UNCHANGED <<heads, tails, pseen, cseen, rstamp>>
  BY <1>1 DEF ByteWritten, PushWrite
<1>3. /\ data \in [0 .. Capacity - 1 -> Byte] /\ data' \in [0 .. Capacity - 1 -> Byte]
      /\ data'[s] = FrameByte(pmsg, pi)
      /\ \A r \in 0 .. Capacity - 1 : r # s => data'[r] = data[r]
  BY <1>1, <1>2 DEF IInv, TypeOK
<1> HIDE DEF s
<1>4. UNCHANGED <<Pushed, Popped, Begin, End, sent, consumed, marks>>
  BY <1>2 DEF Pushed, Popped, Begin, End, history
<1>5. TypeOK'
  BY <1>1, <1>2, <1>3 DEF IInv, TypeOK, consumer, history
<1>6. HistoryOK' /\ CountersOK' /\ ConsumerOK'
  BY <1>2, <1>4 DEF IInv, HistoryOK, CountersOK, ConsumerOK, consumer
<1>7. DataOK'
  <2>1. ASSUME NEW k \in Popped + 1 .. Pushed, NEW i \in 0 .. FrameLen(sent[k]) - 1
        PROVE  data'[At(marks[k] + i)] = FrameByte(sent[k], i)
    <3>1. /\ marks[k] + i \in Nat /\ marks[pseen] <= marks[k] + i /\ marks[k] + i < End + pi
          /\ marks[k] \in Nat /\ i \in Nat
      <4>1. Begin <= marks[k] + i /\ marks[k] + i < End /\ marks[k] + i \in Nat /\ marks[k] \in Nat
        BY <2>1, FramePosition
      <4>2. marks[pseen] <= Begin /\ marks[pseen] \in Nat /\ Begin \in Nat /\ End \in Nat
        BY Facts
      <4>3. QED
        BY <1>1, <4>1, <4>2
    <3>2. At(marks[k] + i) # s /\ At(marks[k] + i) \in 0 .. Capacity - 1
      BY <1>1, <3>1, WritePosition, SlotOf DEF s
    <3>3. QED
      BY <1>3, <2>1, <3>2 DEF IInv, DataOK
  <2>2. QED
    BY <1>4, <2>1 DEF DataOK
<1>8. ProducerOK'
  <2>1. ASSUME NEW i \in 0 .. pi
        PROVE  data'[At(End + i)] = FrameByte(pmsg, i)
    <3>1. CASE i = pi
      BY <1>3, <3>1 DEF s
    <3>2. CASE i # pi
      <4>1. i \in 0 .. pi - 1 /\ i \in Nat /\ End + i \in Nat /\ marks[pseen] <= End + i
            /\ End + i < End + pi
        <5>1. End \in Nat /\ marks[pseen] \in Nat /\ marks[pseen] <= End
          BY Facts
        <5>2. QED
          BY <1>1, <3>2, <5>1
      <4>2. At(End + i) # s /\ At(End + i) \in 0 .. Capacity - 1
        BY <1>1, <4>1, WritePosition, SlotOf, Facts DEF s
      <4>3. QED
        BY <1>1, <1>3, <4>1, <4>2 DEF IInv, ProducerOK
    <3>3. QED
      BY <3>1, <3>2
  <2>2. 0 .. pi' - 1 = 0 .. pi
    BY <1>1, <1>2
  <2>3. ptail = tail /\ End - marks[pseen] + FrameLen(pmsg) <= Capacity
    BY <1>1 DEF IInv, ProducerOK
  <2>4. QED
    BY <1>1, <1>2, <1>4, <2>1, <2>2, <2>3 DEF ProducerOK
<1>9. StampsOK'
  <2>1. /\ Len(tails) + 1 = Pushed + 2 /\ Pushed + 2 \in 1 .. Pushed + 2
        /\ (Pushed + 2) - 1 = Pushed + 1
    <3>1. Pushed \in Nat
      BY Facts
    <3>2. Len(tails) = Pushed + 1
      BY DEF IInv, CountersOK
    <3>3. QED
      BY <3>1, <3>2
  <2>2. End + pi \in marks[Pushed + 1] .. marks[pseen] + Capacity - 1
    <3>1. End \in Nat /\ marks[pseen] \in Nat /\ Capacity \in Nat
      BY Facts, Sizes
    <3>2. QED
      BY <1>1, <3>1, WritePosition DEF End
  <2>3. \E x \in marks[(Pushed + 2) - 1] .. marks[pseen] + Capacity - 1 : At(x) = s
    BY <2>1, <2>2 DEF s
  <2>4. /\ wstamp' \in [0 .. Capacity - 1 -> 1 .. Pushed + 2] /\ wstamp'[s] = Pushed + 2
        /\ \A r \in 0 .. Capacity - 1 : r # s => wstamp'[r] = wstamp[r]
    BY <1>1, <1>2, <2>1 DEF IInv, StampsOK
  <2>5. QED
    BY <1>2, <1>4, <2>3, <2>4 DEF IInv, StampsOK
<1>10. QED
  BY <1>5, <1>6, <1>7, <1>8, <1>9 DEF IInv

\* The byte that pop reads next is the next one of the oldest frame.
LEMMA ReadPosition ==
  ASSUME IInv, cpc \in {"read_len", "read_payload"}
  PROVE  LET m == sent[Popped + 1]
             n == Len(cbuf) IN
         /\ Popped + 1 \in 1 .. Pushed /\ Popped + 2 <= cseen
         /\ m \in Payloads /\ FrameLen(m) \in Nat /\ FrameLen(m) <= Capacity
         /\ n \in Nat /\ n < FrameLen(m)
         /\ Begin + n \in Nat /\ Begin + n < marks[Popped + 2] /\ marks[Popped + 2] <= End
         /\ chead = Counter(Begin)
         /\ Slot(chead, n) = At(Begin + n) /\ At(Begin + n) \in 0 .. Capacity - 1
         /\ data[At(Begin + n)] = FrameByte(m, n)
<1> DEFINE m == sent[Popped + 1]
           n == Len(cbuf)
<1>1. Popped + 1 < cseen /\ chead = Counter(Begin) /\ n \in Nat /\ n < FrameLen(m)
  <2>1. Popped + 1 < cseen /\ chead = head
    BY DEF IInv, ConsumerOK, Reading
  <2>2. head = Counter(Begin) /\ n \in Nat
    BY DEF IInv, CountersOK, TypeOK
  <2>3. Popped + 1 \in 1 .. Pushed
    BY <2>1, Facts
  <2>4. FrameLen(m) \in Nat /\ FrameLen(m) >= 4
    BY <2>3, Facts, FrameFacts
  <2>5. CASE cpc = "read_len"
    BY <2>1, <2>2, <2>4, <2>5 DEF IInv, ConsumerOK, HeaderBytes
  <2>6. CASE cpc = "read_payload"
    BY <2>1, <2>2, <2>6 DEF IInv, ConsumerOK
  <2>7. QED
    BY <2>1, <2>2, <2>5, <2>6
<1>2. Popped + 1 \in 1 .. Pushed /\ Popped + 2 <= cseen /\ Popped + 1 \in Popped + 1 .. Pushed
      /\ Begin \in Nat /\ End \in Nat
  BY <1>1, Facts
<1>3. m \in Payloads /\ FrameLen(m) \in Nat /\ n \in 0 .. FrameLen(m) - 1
  BY <1>1, <1>2, Facts
<1>4. /\ marks[Popped + 2] = Begin + FrameLen(m) /\ Begin + FrameLen(m) <= End
      /\ data[At(Begin + n)] = FrameByte(m, n)
  <2>1. (Popped + 1) + 1 = Popped + 2
    BY <1>2, Facts
  <2>2. marks[Popped + 2] = marks[Popped + 1] + FrameLen(sent[Popped + 1])
    BY <1>2, <2>1 DEF IInv, HistoryOK
  <2>3. marks[Popped + 1] + FrameLen(sent[Popped + 1]) <= End
    BY <1>2, <1>3, FramePosition
  <2>4. data[At(marks[Popped + 1] + n)] = FrameByte(sent[Popped + 1], n)
    BY <1>2, <1>3 DEF IInv, DataOK
  <2>5. QED
    BY <2>2, <2>3, <2>4 DEF Begin
<1>5. Slot(chead, n) = At(Begin + n) /\ At(Begin + n) \in 0 .. Capacity - 1
  BY <1>1, <1>2, SlotOf
<1>6. FrameLen(m) <= Capacity
  <2>1. marks[pseen] <= Begin /\ marks[pseen] \in Nat /\ End - marks[pseen] <= Capacity
    BY Facts
  <2>2. Capacity \in Nat
    BY Sizes
  <2>3. QED
    BY <1>2, <1>3, <1>4, <2>1, <2>2
<1>7. Begin + n \in Nat /\ Begin + n < marks[Popped + 2] /\ marks[Popped + 2] <= End
  BY <1>1, <1>2, <1>3, <1>4
<1>8. QED
  BY <1>1, <1>2, <1>3, <1>4, <1>5, <1>6, <1>7

LEMMA ByteReadOK ==
  ASSUME IInv, ByteRead
  PROVE  IInv'
<1> DEFINE m == sent[Popped + 1]
           n == Len(cbuf)
           s == At(Begin + n)
<1>1. cpc \in {"read_len", "read_payload"}
  BY DEF ByteRead, PopReadLen, PopReadPayload
<1>2. /\ Popped + 1 \in 1 .. Pushed /\ Popped + 2 <= cseen
      /\ m \in Payloads /\ FrameLen(m) \in Nat /\ FrameLen(m) <= Capacity
      /\ n \in Nat /\ n < FrameLen(m) /\ s \in 0 .. Capacity - 1 /\ Slot(chead, n) = s
      /\ data[s] = FrameByte(m, n)
  BY <1>1, ReadPosition
<1>3. /\ cbuf' = Append(cbuf, FrameByte(m, n))
      /\ cpc' \in {"read_len", "read_payload", "advance"}
      /\ rstamp' = [rstamp EXCEPT ![s] = Len(heads) + 1]
      /\ UNCHANGED <<chead, cres, shared, producer, history, crashes>>
      /\ UNCHANGED <<heads, tails, pseen, cseen, wstamp>>
  BY <1>2 DEF ByteRead, PopReadLen, PopReadPayload, ReadByte
<1>4. cbuf \in Seq(Byte) /\ FrameByte(m, n) \in Byte /\ Len(m) \in Nat /\ FrameLen(m) = Len(m) + 4
  BY <1>2, FrameFacts DEF IInv, TypeOK
<1>5. /\ cbuf' \in Seq(Byte) /\ Len(cbuf') = n + 1
      /\ \A i \in 1 .. n : cbuf'[i] = cbuf[i]
      /\ cbuf'[n + 1] = FrameByte(m, n)
  BY <1>3, <1>4
<1>6. \A i \in 1 .. n : cbuf[i] = FrameByte(m, i - 1)
  BY <1>1 DEF IInv, ConsumerOK, Reading
<1>7. \A i \in 1 .. n + 1 : cbuf'[i] = FrameByte(m, i - 1)
  BY <1>2, <1>5, <1>6
<1>8. UNCHANGED <<Pushed, Popped, Begin, End, sent, consumed, marks, head, tail, data>>
  BY <1>3 DEF Pushed, Popped, Begin, End, history, shared
<1>9. TypeOK'
  <2>1. Len(cbuf') <= Capacity
    BY <1>2, <1>5, Sizes
  <2> HIDE DEF m, n, s
  <2>2. QED
    BY <1>3, <1>5, <2>1 DEF IInv, TypeOK, shared, producer, history
<1>10. HistoryOK' /\ CountersOK' /\ DataOK' /\ ProducerOK'
  BY <1>3, <1>8 DEF IInv, HistoryOK, CountersOK, DataOK, ProducerOK, producer
<1>11. ConsumerOK'
  <2>1. chead' = head' /\ Popped + 1 < cseen
    BY <1>1, <1>2, <1>3, <1>8, Facts DEF IInv, ConsumerOK, Reading
  <2>2. n + 1 >= HeaderBytes => DecodeLen(cbuf') = Len(m)
    BY <1>2, <1>5, <1>7, PrefixRoundTrip
  <2>3. /\ cpc' = "read_len" => n + 1 < HeaderBytes
        /\ cpc' = "read_payload" => HeaderBytes <= n + 1 /\ n + 1 < FrameLen(m)
        /\ cpc' = "advance" => n + 1 = FrameLen(m)
    <3>1. CASE PopReadLen
      <4>1. n < 4
        BY <3>1 DEF PopReadLen, IInv, ConsumerOK, HeaderBytes
      <4>2. /\ cpc' = "read_len" => n + 1 < 4
            /\ cpc' = "read_payload" => ~(n + 1 < 4) /\ DecodeLen(cbuf') > 0
            /\ cpc' = "advance" => ~(n + 1 < 4) /\ ~(DecodeLen(cbuf') > 0)
        BY <3>1 DEF PopReadLen, HeaderBytes
      <4>3. QED
        BY <1>2, <1>4, <2>2, <4>1, <4>2 DEF HeaderBytes
    <3>2. CASE PopReadPayload
      <4>1. 4 <= n
        BY <3>2 DEF PopReadPayload, IInv, ConsumerOK, HeaderBytes
      <4>2. DecodeLen(cbuf) = Len(m)
        BY <1>2, <1>4, <1>6, <4>1, PrefixRoundTrip DEF HeaderBytes
      <4>3. cpc' = IF n + 1 < 4 + DecodeLen(cbuf) THEN "read_payload" ELSE "advance"
        BY <3>2 DEF PopReadPayload, HeaderBytes
      <4>4. QED
        BY <1>2, <1>4, <4>1, <4>2, <4>3 DEF HeaderBytes
    <3>3. QED
      BY <3>1, <3>2 DEF ByteRead
  <2> HIDE DEF m, n, s
  <2>4. sent'[Popped' + 1] = m
    BY <1>8 DEF m
  <2>5. n + 1 <= FrameLen(m) /\ Popped' + 1 < cseen'
    BY <1>2, <1>3, <1>8, <2>1
  <2>6. QED
    BY <1>3, <1>5, <1>7, <2>1, <2>3, <2>4, <2>5 DEF ConsumerOK, Reading
<1>12. StampsOK'
  <2>1. /\ Len(heads) + 1 = Popped + 2 /\ Popped + 2 \in 1 .. Popped + 2
        /\ (Popped + 2) - 1 = Popped + 1 /\ Popped + 1 <= Pushed
    <3>1. Popped \in Nat
      BY Facts
    <3>2. Len(heads) = Popped + 1
      BY DEF IInv, CountersOK
    <3>3. QED
      BY <1>2, <3>1, <3>2
  <2>2. Begin + n \in marks[Popped + 1] .. End - 1
    <3>1. Begin \in Nat /\ End \in Nat /\ Popped + 2 \in 1 .. Pushed + 1
      <4>1. Begin \in Nat /\ End \in Nat /\ Popped \in Nat /\ Pushed \in Nat
        BY Facts
      <4>2. QED
        BY <1>2, <4>1
    <3>2. marks[Popped + 2] \in Nat
      BY <3>1, Facts
    <3>3. Begin + n < marks[Popped + 2] /\ marks[Popped + 2] <= End
      BY <1>1, ReadPosition
    <3>4. QED
      BY <1>2, <3>1, <3>2, <3>3 DEF Begin
  <2> HIDE DEF m, n
  <2>3. \E x \in marks[(Popped + 2) - 1] .. End - 1 : At(x) = s
    BY <2>1, <2>2
  <2> HIDE DEF s
  <2>4. /\ rstamp' \in [0 .. Capacity - 1 -> 1 .. Popped + 2] /\ rstamp'[s] = Popped + 2
        /\ \A r \in 0 .. Capacity - 1 : r # s => rstamp'[r] = rstamp[r]
    BY <1>2, <1>3, <2>1 DEF IInv, StampsOK
  <2>5. QED
    BY <1>3, <1>8, <2>1, <2>3, <2>4 DEF IInv, StampsOK
<1>13. QED
  BY <1>9, <1>10, <1>11, <1>12 DEF IInv

-----------------------------------------------------------------------------
(* Stores of the counters.                                                  *)

\* A new frame: the mark behind it is the new tail.
LEMMA TailStoredOK ==
  ASSUME IInv, TailStored
  PROVE  IInv'
<1> DEFINE f == FrameLen(pmsg)
           p == Pushed + 1
<1>1. /\ ppc = "publish" /\ pmsg \in Payloads /\ f \in Nat /\ ptail = tail /\ pi = f
      /\ End - marks[pseen] + f <= Capacity
      /\ \A i \in 0 .. f - 1 : data[At(End + i)] = FrameByte(pmsg, i)
  BY FrameFacts DEF TailStored, PushPublish, IInv, ProducerOK
<1>2. /\ sent' = Append(sent, pmsg) /\ marks' = Append(marks, marks[Len(marks)] + f)
      /\ tails' = Append(tails, tail') /\ ProducerLeaves("ok")
      /\ tail' = (ptail + f) % UsizeMod
      /\ UNCHANGED <<head, data, consumed, consumer, crashes>>
      /\ UNCHANGED <<heads, pseen, cseen, wstamp, rstamp>>
  BY DEF TailStored, PushPublish
<1> HIDE DEF f
<1>3. /\ Pushed \in Nat /\ p \in Nat /\ Popped \in Nat /\ Popped <= Pushed
      /\ pseen \in 1 .. p /\ Popped + 1 \in 1 .. p /\ pseen \in Nat
      /\ Begin \in Nat /\ End \in Nat /\ marks[pseen] \in Nat
  BY Facts
<1>4. /\ sent \in Seq(Payloads) /\ marks \in Seq(Nat) /\ Len(sent) = Pushed /\ Len(marks) = p
      /\ tails \in Seq(Nat) /\ Len(tails) = p /\ marks[p] = End /\ tail = Counter(End)
  BY DEF IInv, TypeOK, HistoryOK, CountersOK, Pushed, End
<1>5. tail' = Counter(End + f) /\ tail' \in 0 .. UsizeMod - 1
  BY <1>1, <1>2, <1>3, <1>4, CounterMoves
<1>6. /\ sent' \in Seq(Payloads) /\ Len(sent') = p /\ Pushed' = p
      /\ \A k \in 1 .. Pushed : sent'[k] = sent[k]
      /\ sent'[p] = pmsg
  BY <1>1, <1>2, <1>3, <1>4 DEF Pushed
<1>7. /\ marks' \in Seq(Nat) /\ Len(marks') = p + 1
      /\ \A k \in 1 .. p : marks'[k] = marks[k]
      /\ marks'[p + 1] = End + f
  <2>1. marks' = Append(marks, End + f) /\ End + f \in Nat
    BY <1>1, <1>2, <1>3, <1>4
  <2> HIDE DEF p
  <2>2. QED
    BY <1>3, <1>4, <2>1
<1>8. /\ tails' \in Seq(Nat) /\ Len(tails') = p + 1
      /\ \A k \in 1 .. p : tails'[k] = tails[k]
      /\ tails'[p + 1] = Counter(End + f)
  <2> DEFINE c == Counter(End + f)
  <2>1. tails' = Append(tails, c) /\ c \in Nat
    BY <1>2, <1>5, Sizes
  <2>2. p \in Nat /\ tails \in Seq(Nat) /\ Len(tails) = p
    BY <1>3, <1>4
  <2> HIDE DEF p, c
  <2>3. /\ tails' \in Seq(Nat) /\ Len(tails') = p + 1
        /\ \A k \in 1 .. p : tails'[k] = tails[k]
        /\ tails'[p + 1] = c
    BY <2>1, <2>2
  <2>4. QED
    BY <2>3 DEF c
<1>9. Popped' = Popped /\ Begin' = Begin /\ End' = End + f /\ marks'[pseen] = marks[pseen]
  BY <1>2, <1>3, <1>6, <1>7 DEF Popped, Begin, End
<1> HIDE DEF p
<1>10. TypeOK'
  BY <1>2, <1>5, <1>6, <1>7, Sizes
     DEF ProducerLeaves, IInv, TypeOK, consumer, FrameLen, HeaderBytes
<1>11. HistoryOK'
  <2>1. \A k \in 1 .. p : marks'[k + 1] = marks'[k] + FrameLen(sent'[k])
    <3>1. ASSUME NEW k \in 1 .. Pushed
          PROVE  marks'[k + 1] = marks'[k] + FrameLen(sent'[k])
      <4>1. k \in 1 .. p /\ k + 1 \in 1 .. p
        BY <1>3 DEF p
      <4>2. marks[k + 1] = marks[k] + FrameLen(sent[k])
        BY DEF IInv, HistoryOK
      <4>3. QED
        BY <1>6, <1>7, <4>1, <4>2
    <3>2. marks'[p + 1] = marks'[p] + FrameLen(sent'[p])
      <4>1. p \in 1 .. p
        BY <1>3 DEF p
      <4>2. QED
        BY <1>4, <1>6, <1>7, <4>1 DEF f
    <3>3. QED
      BY <1>3, <3>1, <3>2 DEF p
  <2>2. \A j, k \in 1 .. p + 1 : j <= k => marks'[j] <= marks'[k]
    <3>1. \A j, k \in 1 .. p : j <= k => marks'[j] <= marks'[k]
      BY <1>7 DEF IInv, HistoryOK, p
    <3>2. marks'[p] <= marks'[p + 1] /\ \A k \in 1 .. p : marks'[k] \in Nat
      <4>1. p \in 1 .. p /\ End <= End + f
        BY <1>1, <1>3 DEF p
      <4>2. \A k \in 1 .. p : marks[k] \in Nat
        BY Facts DEF p
      <4>3. QED
        BY <1>4, <1>7, <4>1, <4>2
    <3>3. ASSUME NEW j \in 1 .. p
          PROVE  marks'[j] <= marks'[p + 1]
      <4>1. marks'[j] <= marks'[p] /\ marks'[j] \in Nat /\ marks'[p] \in Nat
        BY <1>3, <3>1, <3>2 DEF p
      <4>2. QED
        BY <1>1, <1>3, <1>7, <3>2, <4>1
    <3>4. marks'[p + 1] <= marks'[p + 1]
      BY <1>1, <1>3, <1>7
    <3>5. QED
      BY <1>3, <3>1, <3>3, <3>4
  <2>3. \A k \in 1 .. Popped : consumed'[k] = sent'[k]
    BY <1>2, <1>3, <1>6 DEF IInv, HistoryOK
  <2>4. marks'[1] = 0 /\ Popped <= p
    BY <1>3, <1>7 DEF IInv, HistoryOK, p
  <2>5. QED
    BY <1>6, <1>7, <1>9, <2>1, <2>2, <2>3, <2>4 DEF HistoryOK
<1>12. CountersOK'
  <2>1. /\ heads \in Seq(Nat) /\ Len(heads) = Popped + 1 /\ head = Counter(Begin)
        /\ pseen \in 1 .. Popped + 1 /\ cseen \in Popped + 1 .. p
    BY DEF IInv, CountersOK, p
  <2>2. \A k \in 1 .. Popped + 1 : heads[k] = Counter(marks'[k])
    <3>1. \A k \in 1 .. Popped + 1 : heads[k] = Counter(marks[k])
      BY DEF IInv, CountersOK
    <3>2. \A k \in 1 .. Popped + 1 : k \in 1 .. p
      BY <1>3 DEF p
    <3>3. QED
      BY <1>7, <3>1, <3>2
  <2>3. \A k \in 1 .. p + 1 : tails'[k] = Counter(marks'[k])
    <3>1. \A k \in 1 .. p : tails[k] = Counter(marks[k])
      BY DEF IInv, CountersOK, p
    <3>2. QED
      <4>1. \A k \in 1 .. p + 1 : k \in 1 .. p \/ k = p + 1
        BY <1>3
      <4>2. QED
        BY <1>7, <1>8, <3>1, <4>1
  <2>4. End' - marks'[pseen'] <= Capacity
    <3>1. (End + f) - marks[pseen] <= Capacity
      BY <1>1, <1>3
    <3>2. pseen' = pseen
      BY <1>2
    <3>3. QED
      BY <1>9, <3>1, <3>2
  <2>5. cseen \in Popped + 1 .. p + 1
    BY <1>3, <2>1
  <2>6. QED
    BY <1>2, <1>5, <1>6, <1>8, <1>9, <2>1, <2>2, <2>3, <2>4, <2>5 DEF CountersOK
<1>13. DataOK'
  <2>1. ASSUME NEW k \in Popped + 1 .. Pushed, NEW i \in 0 .. FrameLen(sent'[k]) - 1
        PROVE  data[At(marks'[k] + i)] = FrameByte(sent'[k], i)
    <3>1. sent'[k] = sent[k] /\ marks'[k] = marks[k]
      BY <1>3, <1>6, <1>7 DEF p
    <3>2. QED
      BY <2>1, <3>1 DEF IInv, DataOK
  <2>2. ASSUME NEW i \in 0 .. f - 1
        PROVE  data[At(marks'[p] + i)] = FrameByte(sent'[p], i)
    <3>1. marks'[p] = End /\ sent'[p] = pmsg
      <4>1. p \in 1 .. p
        BY <1>3 DEF p
      <4>2. QED
        BY <1>4, <1>6, <1>7, <4>1
    <3>2. QED
      BY <1>1, <2>2, <3>1
  <2>3. FrameLen(sent'[p]) = f
    BY <1>6 DEF f
  <2>4. ASSUME NEW k \in Popped + 1 .. p, NEW i \in 0 .. FrameLen(sent'[k]) - 1
        PROVE  data[At(marks'[k] + i)] = FrameByte(sent'[k], i)
    <3>1. CASE k = p
      BY <2>2, <2>3, <2>4, <3>1
    <3>2. CASE k # p
      <4>1. k \in Popped + 1 .. Pushed
        BY <1>3, <3>2 DEF p
      <4>2. QED
        BY <2>1, <2>4, <4>1
    <3>3. QED
      BY <3>1, <3>2
  <2>5. QED
    BY <1>2, <1>6, <1>9, <2>4 DEF DataOK
<1>14. ProducerOK'
  BY <1>2 DEF ProducerLeaves, ProducerOK
<1>15. ConsumerOK'
  <2>1. UNCHANGED <<cpc, chead, cbuf, cres>>
    BY <1>2 DEF consumer
  <2>2. cpc \in Reading => sent'[Popped + 1] = sent[Popped + 1]
    <3>1. cpc \in Reading => Popped + 1 \in 1 .. Pushed
      BY Facts DEF IInv, ConsumerOK
    <3>2. QED
      BY <1>6, <3>1
  <2>3. cpc \in {"read_len", "read_payload", "advance"} => cpc \in Reading
    BY DEF Reading
  <2>4. QED
    BY <1>2, <1>9, <2>1, <2>2, <2>3 DEF IInv, ConsumerOK
<1>16. StampsOK'
  <2>1. ASSUME NEW s \in 0 .. Capacity - 1
        PROVE  /\ rstamp[s] \in 1 .. Popped + 2 /\ wstamp[s] \in 1 .. p + 2
               /\ rstamp[s] = 1 \/
                    /\ rstamp[s] - 1 <= p
                    /\ \E x \in marks'[rstamp[s] - 1] .. (End + f) - 1 : At(x) = s
               /\ wstamp[s] = 1 \/
                    \E x \in marks'[wstamp[s] - 1] .. marks[pseen] + Capacity - 1 : At(x) = s
    <3>1. rstamp[s] \in 1 .. Popped + 2 /\ wstamp[s] \in 1 .. p + 2
      BY <1>3, StampFacts DEF p
    <3>2. ASSUME rstamp[s] # 1
          PROVE  /\ rstamp[s] - 1 <= p
                 /\ \E x \in marks'[rstamp[s] - 1] .. (End + f) - 1 : At(x) = s
      <4>1. PICK x \in marks[rstamp[s] - 1] .. End - 1 : At(x) = s
        BY <3>2 DEF IInv, StampsOK
      <4>2. rstamp[s] - 1 \in 1 .. Pushed /\ marks[rstamp[s] - 1] \in Nat
        BY <3>2, StampFacts
      <4>3. rstamp[s] - 1 \in 1 .. p /\ rstamp[s] - 1 <= p
        BY <1>3, <4>2 DEF p
      <4>4. x \in marks'[rstamp[s] - 1] .. (End + f) - 1
        BY <1>1, <1>3, <1>7, <4>1, <4>2, <4>3
      <4>5. QED
        BY <4>1, <4>3, <4>4
    <3>3. ASSUME wstamp[s] # 1
          PROVE  \E x \in marks'[wstamp[s] - 1] .. marks[pseen] + Capacity - 1 : At(x) = s
      <4>1. wstamp[s] - 1 \in 1 .. p
        BY <3>3, StampFacts DEF p
      <4>2. marks'[wstamp[s] - 1] = marks[wstamp[s] - 1]
        BY <1>7, <4>1
      <4>3. QED
        BY <3>3, <4>2 DEF IInv, StampsOK
    <3>4. QED
      BY <3>1, <3>2, <3>3
  <2>2. rstamp \in [0 .. Capacity - 1 -> 1 .. Popped + 2] /\ wstamp \in [0 .. Capacity - 1 -> 1 .. p + 2]
    BY <2>1 DEF IInv, StampsOK
  <2>3. QED
    BY <1>2, <1>6, <1>9, <2>1, <2>2 DEF StampsOK
<1>17. QED
  BY <1>10, <1>11, <1>12, <1>13, <1>14, <1>15, <1>16 DEF IInv

\* What pop has copied is a message: the next one.
LEMMA FrameIsCopied ==
  ASSUME IInv, cpc = "advance"
  PROVE  /\ Popped + 1 \in 1 .. Pushed /\ Popped + 1 < cseen /\ chead = Counter(Begin)
         /\ sent[Popped + 1] \in Payloads
         /\ DecodeLen(cbuf) = Len(sent[Popped + 1]) /\ PayloadOf(cbuf) = sent[Popped + 1]
<1> DEFINE m == sent[Popped + 1]
<1>1. /\ Popped + 1 < cseen /\ chead = Counter(Begin) /\ cbuf \in Seq(Byte)
      /\ Len(cbuf) = FrameLen(m) /\ \A i \in 1 .. Len(cbuf) : cbuf[i] = FrameByte(m, i - 1)
  BY DEF IInv, TypeOK, CountersOK, ConsumerOK, Reading
<1>2. Popped + 1 \in 1 .. Pushed
  BY <1>1, Facts
<1>3. m \in Payloads
  BY <1>2, Facts
<1> HIDE DEF m
<1>4. m \in Seq(Byte) /\ Len(m) \in Nat /\ FrameLen(m) = Len(m) + 4
  BY <1>3, FrameFacts
<1>5. DecodeLen(cbuf) = Len(m)
  BY <1>1, <1>3, <1>4, PrefixRoundTrip DEF HeaderBytes
<1>6. /\ PayloadOf(cbuf) \in Seq(Byte) /\ Len(PayloadOf(cbuf)) = Len(m)
      /\ \A i \in 1 .. Len(m) : PayloadOf(cbuf)[i] = cbuf[i + 4]
  BY <1>1, <1>4 DEF PayloadOf, HeaderBytes
<1>7. ASSUME NEW i \in 1 .. Len(m)
      PROVE  PayloadOf(cbuf)[i] = m[i]
  <2>1. i + 4 \in 1 .. Len(cbuf) /\ (i + 4) - 1 = i + 3 /\ ~(i + 3 < 4) /\ (i + 3) - 4 + 1 = i
    BY <1>1, <1>4
  <2>2. cbuf[i + 4] = FrameByte(m, i + 3)
    BY <1>1, <2>1
  <2>3. FrameByte(m, i + 3) = m[i]
    BY <2>1 DEF FrameByte, HeaderBytes
  <2>4. QED
    BY <1>6, <2>2, <2>3
<1>8. PayloadOf(cbuf) = m
  BY <1>4, <1>6, <1>7
<1>9. QED
  BY <1>1, <1>2, <1>3, <1>5, <1>8 DEF m

LEMMA HeadStoredOK ==
  ASSUME IInv, HeadStored
  PROVE  IInv'
<1> DEFINE m == sent[Popped + 1]
           q == Popped + 1
<1>1. /\ cpc = "advance" /\ m \in Payloads /\ DecodeLen(cbuf) = Len(m) /\ PayloadOf(cbuf) = m
      /\ q \in 1 .. Pushed /\ q < cseen /\ chead = Counter(Begin)
  BY FrameIsCopied DEF HeadStored, PopAdvance
<1>2. /\ consumed' = Append(consumed, m) /\ cpc' = "decode"
      /\ head' = (chead + 4 + Len(m)) % UsizeMod /\ heads' = Append(heads, head')
      /\ UNCHANGED <<tail, data, chead, cbuf, cres, sent, marks, producer, crashes>>
      /\ UNCHANGED <<tails, pseen, cseen, wstamp, rstamp>>
  BY <1>1 DEF HeadStored, PopAdvance, HeaderBytes
<1>3. /\ Pushed \in Nat /\ q \in Nat /\ q + 1 \in 1 .. Pushed + 1 /\ Popped \in Nat
      /\ pseen \in 1 .. q /\ cseen \in q .. Pushed + 1 /\ Begin \in Nat
  BY <1>1, Facts
<1>4. marks[q] = Begin /\ marks[q + 1] = Begin + FrameLen(m)
  BY <1>1 DEF IInv, HistoryOK, Begin
<1>5. FrameLen(m) = Len(m) + 4 /\ Len(m) \in Nat /\ FrameLen(m) \in Nat
  BY <1>1, FrameFacts
<1> HIDE DEF m
<1>6. head' = Counter(marks[q + 1]) /\ head' \in 0 .. UsizeMod - 1
  <2>1. Counter(Begin) \in Int
    <3>1. Begin + 0 = Begin /\ Counter(Begin + 0) \in 0 .. UsizeMod - 1
      BY <1>3, CounterMoves
    <3>2. QED
      BY <3>1
  <2>2. chead + 4 + Len(m) = Counter(Begin) + FrameLen(m)
    BY <1>1, <1>5, <2>1
  <2>3. QED
    BY <1>2, <1>3, <1>4, <1>5, <2>2, CounterMoves
<1>7. /\ consumed \in Seq(Payloads) /\ Len(consumed) = Popped
      /\ heads \in Seq(Nat) /\ Len(heads) = q
      /\ \A k \in 1 .. Popped : consumed[k] = sent[k]
      /\ \A k \in 1 .. q : heads[k] = Counter(marks[k])
  BY DEF IInv, TypeOK, HistoryOK, CountersOK, Popped
<1>8. /\ consumed' \in Seq(Payloads) /\ Len(consumed') = q /\ Popped' = q
      /\ \A k \in 1 .. Popped : consumed'[k] = sent[k]
      /\ consumed'[q] = m
  BY <1>1, <1>2, <1>3, <1>7 DEF Popped
<1> HIDE DEF q
<1>9. /\ heads' \in Seq(Nat) /\ Len(heads') = q + 1
      /\ \A k \in 1 .. q : heads'[k] = heads[k]
      /\ heads'[q + 1] = Counter(marks[q + 1])
  <2>1. head' \in Nat /\ heads' = Append(heads, head')
    BY <1>2, <1>6, Sizes
  <2>2. QED
    BY <1>3, <1>6, <1>7, <2>1
<1>10. UNCHANGED <<Pushed, End, sent, marks>> /\ Begin' = marks[q + 1]
  BY <1>2, <1>8 DEF Pushed, End, Begin
<1>11. TypeOK'
  BY <1>2, <1>6, <1>8 DEF IInv, TypeOK, producer
<1>12. HistoryOK'
  <2>1. \A k \in 1 .. q : consumed'[k] = sent[k]
    <3>1. consumed'[q] = sent[q] /\ \A k \in 1 .. q : k \in 1 .. Popped \/ k = q
      BY <1>3, <1>8 DEF m, q
    <3>2. QED
      BY <1>8, <3>1
  <2>2. q <= Pushed
    BY <1>1, <1>3
  <2>3. QED
    BY <1>8, <1>10, <2>1, <2>2 DEF IInv, HistoryOK
<1>13. CountersOK'
  <2>1. \A k \in 1 .. q + 1 : heads'[k] = Counter(marks[k])
    <3>1. \A k \in 1 .. q + 1 : k \in 1 .. q \/ k = q + 1
      BY <1>3
    <3>2. QED
      BY <1>7, <1>9, <3>1
  <2>2. pseen \in 1 .. q + 1 /\ cseen \in q + 1 .. Pushed + 1
    BY <1>1, <1>3
  <2>3. /\ tails \in Seq(Nat) /\ Len(tails) = Pushed + 1 /\ tail = Counter(End)
        /\ \A k \in 1 .. Pushed + 1 : tails[k] = Counter(marks[k])
        /\ End - marks[pseen] <= Capacity
    BY DEF IInv, CountersOK
  <2>4. QED
    BY <1>2, <1>6, <1>8, <1>9, <1>10, <2>1, <2>2, <2>3 DEF CountersOK
<1>14. DataOK'
  <2>1. \A k \in q + 1 .. Pushed : k \in Popped + 1 .. Pushed
    BY <1>3 DEF q
  <2>2. QED
    BY <1>2, <1>8, <1>10, <2>1 DEF IInv, DataOK
<1>15. ProducerOK'
  BY <1>2, <1>10 DEF IInv, ProducerOK, producer
<1>16. ConsumerOK'
  BY <1>2 DEF ConsumerOK, Reading
<1>17. StampsOK'
  <2>1. rstamp \in [0 .. Capacity - 1 -> 1 .. q + 2]
    <3>1. 1 .. Popped + 2 \subseteq 1 .. q + 2
      BY <1>3 DEF q
    <3>2. QED
      BY <3>1 DEF IInv, StampsOK
  <2>2. QED
    BY <1>2, <1>8, <1>10, <2>1 DEF IInv, StampsOK
<1>18. QED
  BY <1>11, <1>12, <1>13, <1>14, <1>15, <1>16, <1>17 DEF IInv

-----------------------------------------------------------------------------
(* Every step.                                                              *)

LEMMA NextIInv ==
  ASSUME IInv, [OrderNext]_orderVars
  PROVE  IInv'
<1>1. CASE UNCHANGED orderVars
  <2>1. UNCHANGED <<shared, producer, consumer, history, crashes, order>>
    BY <1>1 DEF orderVars, vars
  <2>2. TypeOK' /\ ProducerOK'
    BY <2>1 DEF IInv, TypeOK, ProducerOK, shared, producer, consumer, history, order, Pushed, End
  <2>3. QED
    BY <2>1, <2>2, ProducerLocal
<1>2. CASE OldHeadLoaded
  BY <1>2, OldHeadLoadedOK
<1>3. CASE OldTailLoaded
  BY <1>3, OldTailLoadedOK
<1>4. CASE ByteWritten
  BY <1>4, ByteWrittenOK
<1>5. CASE ByteRead
  BY <1>5, ByteReadOK
<1>6. CASE TailStored
  BY <1>6, TailStoredOK
<1>7. CASE HeadStored
  BY <1>7, HeadStoredOK
<1>8. CASE LocalStep
  BY <1>8, LocalStepOK
<1>9. QED
  BY <1>1, <1>2, <1>3, <1>4, <1>5, <1>6, <1>7, <1>8 DEF OrderNext

LEMMA AlwaysIInv == OrderSpec => []IInv
<1>1. IInv /\ [OrderNext]_orderVars => IInv'
  BY NextIInv
<1>2. QED
  BY <1>1, InitIInv, PTL DEF OrderSpec

-----------------------------------------------------------------------------
(* The theorems.  Each is about the ring with loads as stale as its orderings *)
(* allow.                                                                    *)

\* Types.
THEOREM RingTypes == OrderSpec => []TypeOK
<1>1. QED
  BY AlwaysIInv, PTL DEF IInv

\* pop returns the messages of push whole, once and in order, whatever wraps and
\* whoever dies.
THEOREM RingIsFifo == OrderSpec => []Fifo
<1>1. IInv => Fifo
  <2>1. SUFFICES ASSUME IInv PROVE Fifo
    OBVIOUS
  <2>2. /\ consumed \in Seq(Payloads) /\ sent \in Seq(Payloads) /\ Popped <= Pushed
        /\ Len(consumed) = Popped /\ Len(sent) = Pushed /\ Popped \in Nat /\ Pushed \in Nat
        /\ \A k \in 1 .. Popped : consumed[k] = sent[k]
    <3>1. consumed \in Seq(Payloads) /\ sent \in Seq(Payloads)
      BY <2>1 DEF IInv, TypeOK
    <3>2. Popped \in Nat /\ Pushed \in Nat /\ Popped <= Pushed
      BY <2>1, Facts
    <3>3. \A k \in 1 .. Popped : consumed[k] = sent[k]
      BY <2>1 DEF IInv, HistoryOK
    <3>4. QED
      BY <3>1, <3>2, <3>3 DEF Popped, Pushed
  <2>3. SubSeq(consumed, 1, Popped) = SubSeq(sent, 1, Popped)
    BY <2>2
  <2>4. QED
    BY <2>2, <2>3 DEF Fifo, IsPrefix
<1>2. QED
  BY <1>1, AlwaysIInv, PTL

\* push never puts in more than the data area has.
THEOREM RingNeverOverfull == OrderSpec => []NeverOverfull
<1>1. IInv => NeverOverfull
  BY BytesInside DEF NeverOverfull
<1>2. QED
  BY <1>1, AlwaysIInv, PTL

\* push writes no byte that is in the ring.
THEOREM WriterOutside == OrderSpec => []WriterStaysOutside
<1>1. ASSUME IInv
      PROVE  WriterStaysOutside
  <2>1. SUFFICES ASSUME ppc = "write", NEW i \in 0 .. (End - Begin) - 1
                 PROVE  Slot(ptail, pi) # Slot(head, i)
    BY <1>1, BytesInside DEF WriterStaysOutside
  <2>2. /\ Begin \in Nat /\ End \in Nat /\ marks[pseen] \in Nat /\ marks[pseen] <= Begin
        /\ head = Counter(Begin)
    BY <1>1, Facts DEF IInv, CountersOK
  <2>3. Slot(head, i) = At(Begin + i)
    BY <2>1, <2>2, SlotOf
  <2>4. /\ Slot(ptail, pi) = At(End + pi) /\ pi \in Nat
        /\ \A x \in Nat : marks[pseen] <= x /\ x < End + pi => At(x) # At(End + pi)
    BY <1>1, <2>1, WritePosition
  <2>5. Begin + i \in Nat /\ marks[pseen] <= Begin + i /\ Begin + i < End + pi
    BY <2>1, <2>2, <2>4
  <2>6. QED
    BY <2>3, <2>4, <2>5
<1>2. QED
  BY <1>1, AlwaysIInv, PTL

\* pop reads only bytes that were published and not yet consumed.
THEOREM ReaderInside == OrderSpec => []ReaderStaysInside
<1>1. ASSUME IInv
      PROVE  ReaderStaysInside
  <2>1. SUFFICES ASSUME cpc \in {"read_len", "read_payload"}
                 PROVE  chead = head /\ Len(cbuf) < Distance(tail, head)
    BY DEF ReaderStaysInside
  <2>2. chead = head
    BY <1>1, <2>1 DEF IInv, ConsumerOK, Reading
  <2>3. /\ Len(cbuf) \in Nat /\ Begin + Len(cbuf) < marks[Popped + 2] /\ marks[Popped + 2] <= End
        /\ Popped + 1 \in 1 .. Pushed
    BY <1>1, <2>1, ReadPosition
  <2>4. Begin \in Nat /\ End \in Nat /\ marks[Popped + 2] \in Nat
    <3>1. Pushed \in Nat /\ Popped \in Nat
      BY <1>1, Facts
    <3>2. Popped + 2 \in 1 .. Pushed + 1
      BY <2>3, <3>1
    <3>3. QED
      BY <1>1, <3>2, Facts
  <2>5. QED
    BY <1>1, <2>2, <2>3, <2>4, BytesInside
<1>2. QED
  BY <1>1, AlwaysIInv, PTL

\* The release and acquire of each counter suffice: no byte of the data area is ever
\* accessed by one side without knowledge of the other's last access.
THEOREM NoDataRace == OrderSpec => []DataRaceFree
<1>1. ASSUME IInv, ppc = "write"
      PROVE  rstamp[Slot(ptail, pi)] <= pseen
  <2> DEFINE s == At(End + pi)
  <2>1. /\ s \in 0 .. Capacity - 1 /\ Slot(ptail, pi) = s /\ pi \in Nat
        /\ \A x \in Nat : marks[pseen] <= x /\ x < End + pi => At(x) # s
    BY <1>1, WritePosition
  <2>2. SUFFICES ASSUME rstamp[s] > pseen
                 PROVE  FALSE
    BY <1>1, <2>1, StampFacts, Facts
  <2> HIDE DEF s
  <2>3. rstamp[s] \in 1 .. Popped + 2 /\ pseen \in 1 .. Popped + 1 /\ Popped \in Nat
    BY <1>1, <2>1, StampFacts, Facts
  <2>4. rstamp[s] # 1 /\ pseen <= rstamp[s] - 1
    BY <2>2, <2>3
  <2>5. PICK x \in marks[rstamp[s] - 1] .. End - 1 : At(x) = s
    BY <1>1, <2>1, <2>4 DEF IInv, StampsOK
  <2>6. rstamp[s] - 1 \in 1 .. Pushed /\ marks[rstamp[s] - 1] \in Nat /\ Pushed \in Nat
    BY <1>1, <2>1, <2>4, StampFacts, Facts
  <2>7. marks[pseen] <= marks[rstamp[s] - 1] /\ marks[pseen] \in Nat /\ End \in Nat
    <3>1. pseen \in 1 .. Pushed + 1 /\ rstamp[s] - 1 \in 1 .. Pushed + 1
      BY <2>3, <2>4, <2>6
    <3>2. QED
      BY <1>1, <2>4, <3>1, Facts DEF IInv, HistoryOK
  <2>8. x \in Nat /\ marks[pseen] <= x /\ x < End + pi
    BY <2>1, <2>5, <2>6, <2>7
  <2>9. QED
    BY <2>1, <2>5, <2>8
<1>2. ASSUME IInv, cpc \in {"read_len", "read_payload"}
      PROVE  wstamp[Slot(chead, Len(cbuf))] <= cseen
  <2> DEFINE n == Len(cbuf)
             s == At(Begin + n)
  <2>1. /\ s \in 0 .. Capacity - 1 /\ Slot(chead, n) = s /\ n \in Nat /\ Begin + n \in Nat
        /\ Begin + n < marks[Popped + 2] /\ Popped + 1 \in 1 .. Pushed /\ Popped + 2 <= cseen
    BY <1>2, ReadPosition
  <2> HIDE DEF s
  <2>3. wstamp[s] \in 1 .. Pushed + 2 /\ cseen \in Popped + 1 .. Pushed + 1 /\ Popped \in Nat
        /\ Pushed \in Nat
    BY <1>2, <2>1, StampFacts, Facts
  <2>2. SUFFICES ASSUME wstamp[s] > cseen
                 PROVE  FALSE
    BY <2>1, <2>3
  <2> HIDE DEF n
  <2>4. wstamp[s] # 1 /\ Popped + 2 <= wstamp[s] - 1 /\ Popped + 2 \in 1 .. Pushed + 1
    BY <2>1, <2>2, <2>3
  <2>5. PICK x \in marks[wstamp[s] - 1] .. marks[pseen] + Capacity - 1 : At(x) = s
    BY <1>2, <2>1, <2>4 DEF IInv, StampsOK
  <2>6. wstamp[s] - 1 \in 1 .. Pushed + 1 /\ marks[wstamp[s] - 1] \in Nat
    BY <1>2, <2>1, <2>4, StampFacts
  <2>7. marks[Popped + 2] <= marks[wstamp[s] - 1] /\ marks[Popped + 2] \in Nat
    BY <1>2, <2>4, <2>6, Facts DEF IInv, HistoryOK
  <2>8. marks[pseen] \in Nat /\ marks[pseen] <= Begin /\ Begin \in Nat /\ Capacity \in Nat
    BY <1>2, Facts, Sizes
  <2>9. x \in Nat /\ Begin + n < x /\ x < (Begin + n) + Capacity
    BY <2>1, <2>5, <2>6, <2>7, <2>8
  <2>10. QED
    BY <2>1, <2>5, <2>9, DifferentSlots DEF s
<1>3. IInv => DataRaceFree
  BY <1>1, <1>2 DEF DataRaceFree, Acquired, HeadStore, HeadLoad, TailStore, TailLoad
<1>4. QED
  BY <1>3, AlwaysIInv, PTL

-----------------------------------------------------------------------------
(* The ring implements the abstract queue.                                   *)

\* A suffix of a sequence.
LEMMA SuffixFacts ==
  ASSUME NEW s \in Seq(Payloads), NEW a \in 0 .. Len(s)
  PROVE  /\ SubSeq(s, a + 1, Len(s)) \in Seq(Payloads)
         /\ Len(SubSeq(s, a + 1, Len(s))) = Len(s) - a
         /\ \A i \in 1 .. Len(s) - a : SubSeq(s, a + 1, Len(s))[i] = s[i + a]
<1>1. Len(s) \in Nat /\ a \in Nat
  OBVIOUS
<1>2. CASE a = Len(s)
  <2>1. SubSeq(s, a + 1, Len(s)) = <<>>
    BY <1>1, <1>2
  <2>2. QED
    BY <1>1, <1>2, <2>1
<1>3. CASE a < Len(s)
  BY <1>1, <1>3
<1>4. QED
  BY <1>1, <1>2, <1>3

LEMMA InitRefines == OrderInit => Abs!AbsInit
<1> SUFFICES ASSUME OrderInit PROVE Abs!AbsInit
  OBVIOUS
<1>1. sent = <<>> /\ consumed = <<>> /\ head = 0 /\ tail = 0
  BY DEF OrderInit, Init
<1>2. Queue = <<>>
  BY <1>1 DEF Queue
<1>3. Distance(tail, head) = 0
  BY <1>1, Sizes, ModSmall DEF Distance
<1>4. QED
  BY <1>1, <1>2, <1>3 DEF Abs!AbsInit

LEMMA BytesInsideNext == IInv' => (Distance(tail, head) = End - Begin)'
<1>1. IInv => Distance(tail, head) = End - Begin
  BY BytesInside
<1>2. QED
  BY <1>1, PTL

LEMMA PushRefines ==
  ASSUME IInv, IInv', TailStored
  PROVE  \E m \in Payloads : Abs!AbsPush(m)
<1>1. /\ ppc = "publish" /\ pmsg \in Payloads /\ FrameLen(pmsg) = 4 + Len(pmsg)
      /\ Len(pmsg) \in Nat /\ End - marks[pseen] + FrameLen(pmsg) <= Capacity
      /\ sent' = Append(sent, pmsg) /\ consumed' = consumed
      /\ marks' = Append(marks, marks[Len(marks)] + FrameLen(pmsg))
  BY FrameFacts DEF TailStored, PushPublish, IInv, ProducerOK
<1>2. /\ Begin \in Nat /\ End \in Nat /\ marks[pseen] \in Nat /\ marks[pseen] <= Begin
      /\ Popped \in Nat /\ Pushed \in Nat /\ Popped <= Pushed /\ Popped + 1 \in 1 .. Pushed + 1
  BY Facts
<1>3. /\ sent \in Seq(Payloads) /\ marks \in Seq(Nat)
      /\ Len(marks) = Pushed + 1 /\ Len(sent) = Pushed
  BY DEF IInv, TypeOK, HistoryOK, Pushed
<1>4. Pushed' = Pushed + 1 /\ Popped' = Popped
  BY <1>1, <1>3 DEF Pushed, Popped
<1>5. End' = End + FrameLen(pmsg) /\ Begin' = Begin
  <2>1. marks[Len(marks)] = End /\ marks' = Append(marks, End + FrameLen(pmsg))
    BY <1>1, <1>3 DEF End
  <2>2. marks'[Pushed + 2] = End + FrameLen(pmsg) /\ marks'[Popped + 1] = marks[Popped + 1]
    BY <1>1, <1>2, <1>3, <2>1
  <2>3. QED
    BY <1>2, <1>4, <2>2 DEF Begin, End
<1>6. Distance(tail, head) = End - Begin /\ Distance(tail, head)' = End' - Begin'
  BY BytesInside, BytesInsideNext
<1>7. Queue' = Append(Queue, pmsg)
  <2>1. Queue = SubSeq(sent, Popped + 1, Pushed) /\ Queue' = SubSeq(sent', Popped + 1, Pushed + 1)
    BY <1>4 DEF Queue, Popped, Pushed
  <2>2. /\ sent' \in Seq(Payloads) /\ Len(sent') = Pushed + 1 /\ sent'[Pushed + 1] = pmsg
        /\ \A i \in 1 .. Pushed : sent'[i] = sent[i]
    BY <1>1, <1>2, <1>3
  <2>3. /\ Queue \in Seq(Payloads) /\ Len(Queue) = Pushed - Popped
        /\ \A i \in 1 .. Pushed - Popped : Queue[i] = sent[i + Popped]
    <3>1. Popped \in 0 .. Pushed
      BY <1>2
    <3>2. QED
      BY <1>3, <2>1, <3>1, SuffixFacts
  <2>4. /\ Queue' \in Seq(Payloads) /\ Len(Queue') = Pushed - Popped + 1
        /\ \A i \in 1 .. Pushed - Popped + 1 : Queue'[i] = sent'[i + Popped]
    <3>1. Popped \in 0 .. Pushed + 1 /\ (Pushed + 1) - Popped = Pushed - Popped + 1
      BY <1>2
    <3>2. QED
      BY <2>1, <2>2, <3>1, SuffixFacts
  <2>5. /\ Append(Queue, pmsg) \in Seq(Payloads) /\ Len(Append(Queue, pmsg)) = Pushed - Popped + 1
        /\ Append(Queue, pmsg)[Pushed - Popped + 1] = pmsg
        /\ \A i \in 1 .. Pushed - Popped : Append(Queue, pmsg)[i] = Queue[i]
    <3> DEFINE n == Pushed - Popped
    <3>1. n \in Nat /\ Queue \in Seq(Payloads) /\ Len(Queue) = n
      BY <1>2, <2>3
    <3> HIDE DEF n
    <3>2. /\ Append(Queue, pmsg) \in Seq(Payloads) /\ Len(Append(Queue, pmsg)) = n + 1
          /\ Append(Queue, pmsg)[n + 1] = pmsg
          /\ \A i \in 1 .. n : Append(Queue, pmsg)[i] = Queue[i]
      BY <1>1, <3>1
    <3>3. QED
      BY <3>2 DEF n
  <2>6. ASSUME NEW i \in 1 .. Pushed - Popped + 1
        PROVE  Queue'[i] = Append(Queue, pmsg)[i]
    <3>1. CASE i = Pushed - Popped + 1
      BY <1>2, <2>2, <2>4, <2>5, <3>1
    <3>2. CASE i # Pushed - Popped + 1
      <4>1. i \in 1 .. Pushed - Popped /\ i + Popped \in 1 .. Pushed
        BY <1>2, <3>2
      <4>2. QED
        BY <2>2, <2>3, <2>4, <2>5, <4>1
    <3>3. QED
      BY <3>1, <3>2
  <2>7. QED
    BY <2>4, <2>5, <2>6
<1>8. /\ Distance(tail, head) + HeaderBytes + Len(pmsg) <= Capacity
      /\ Distance(tail, head)' = Distance(tail, head) + HeaderBytes + Len(pmsg)
  <2>1. Capacity \in Nat
    BY Sizes
  <2>2. QED
    <3> DEFINE f == FrameLen(pmsg)
               d == Distance(tail, head)
    <3>1. f = 4 + Len(pmsg) /\ Len(pmsg) \in Nat /\ End - marks[pseen] + f <= Capacity
      BY <1>1
    <3>2. d = End - Begin /\ d' = (End + f) - Begin
      BY <1>5, <1>6
    <3> HIDE DEF f, d
    <3>3. d + 4 + Len(pmsg) <= Capacity /\ d' = d + 4 + Len(pmsg)
      BY <1>2, <2>1, <3>1, <3>2
    <3>4. QED
      BY <3>3 DEF d, HeaderBytes
<1>9. Abs!AbsPush(pmsg)
  BY <1>1, <1>7, <1>8 DEF Abs!AbsPush
<1>10. QED
  BY <1>1, <1>9

LEMMA PopRefines ==
  ASSUME IInv, IInv', HeadStored
  PROVE  Abs!AbsPop
<1> DEFINE m == sent[Popped + 1]
<1>1. /\ cpc = "advance" /\ Popped + 1 \in 1 .. Pushed /\ m \in Payloads
      /\ consumed' = Append(consumed, m) /\ sent' = sent /\ marks' = marks
  BY FrameIsCopied DEF HeadStored, PopAdvance
<1>2. /\ Begin \in Nat /\ End \in Nat /\ Popped \in Nat /\ Pushed \in Nat
      /\ FrameLen(m) = 4 + Len(m) /\ Len(m) \in Nat
  <2>1. Begin \in Nat /\ End \in Nat /\ Popped \in Nat /\ Pushed \in Nat
    BY Facts
  <2> HIDE DEF m
  <2>2. FrameLen(m) = 4 + Len(m) /\ Len(m) \in Nat
    BY <1>1, FrameFacts
  <2>3. QED
    BY <2>1, <2>2
<1>3. sent \in Seq(Payloads) /\ consumed \in Seq(Payloads) /\ Len(sent) = Pushed
  BY DEF IInv, TypeOK, Pushed
<1>4. Popped' = Popped + 1 /\ Pushed' = Pushed
  BY <1>1, <1>3 DEF Popped, Pushed
<1>5. End' = End /\ Begin' = Begin + FrameLen(m)
  <2>1. marks[(Popped + 1) + 1] = marks[Popped + 1] + FrameLen(m)
    BY <1>1 DEF IInv, HistoryOK
  <2>2. QED
    BY <1>1, <1>4, <2>1 DEF Begin, End
<1>6. Distance(tail, head) = End - Begin /\ Distance(tail, head)' = End' - Begin'
  BY BytesInside, BytesInsideNext
<1> HIDE DEF m
<1>7. Queue # <<>> /\ Head(Queue) = m /\ Queue' = Tail(Queue)
  <2>1. Queue = SubSeq(sent, Popped + 1, Pushed) /\ Queue' = SubSeq(sent, Popped + 2, Pushed)
    BY <1>1, <1>2, <1>4 DEF Queue, Popped, Pushed
  <2>2. /\ Queue \in Seq(Payloads) /\ Len(Queue) = Pushed - Popped /\ Pushed - Popped > 0
        /\ \A i \in 1 .. Pushed - Popped : Queue[i] = sent[i + Popped]
    <3>1. Popped \in 0 .. Pushed /\ Pushed - Popped > 0
      BY <1>1, <1>2
    <3>2. QED
      BY <1>3, <2>1, <3>1, SuffixFacts
  <2>3. /\ Queue' \in Seq(Payloads) /\ Len(Queue') = Pushed - Popped - 1
        /\ \A i \in 1 .. Pushed - Popped - 1 : Queue'[i] = sent[i + Popped + 1]
    <3> DEFINE a == Popped + 1
    <3>1. a \in 0 .. Pushed /\ Popped + 2 = a + 1 /\ Pushed - a = Pushed - Popped - 1
          /\ \A i \in 1 .. Pushed - Popped - 1 : i + a = i + Popped + 1
      BY <1>1, <1>2
    <3> HIDE DEF a
    <3>2. /\ Queue' \in Seq(Payloads) /\ Len(Queue') = Pushed - a
          /\ \A i \in 1 .. Pushed - a : Queue'[i] = sent[i + a]
      BY <1>3, <2>1, <3>1, SuffixFacts
    <3>3. QED
      BY <3>1, <3>2
  <2>4. Queue # <<>> /\ Head(Queue) = m
    BY <1>2, <2>2 DEF m
  <2>5. /\ Tail(Queue) \in Seq(Payloads) /\ Len(Tail(Queue)) = Pushed - Popped - 1
        /\ \A i \in 1 .. Pushed - Popped - 1 : Tail(Queue)[i] = Queue[i + 1]
    BY <1>2, <2>2
  <2>6. ASSUME NEW i \in 1 .. Pushed - Popped - 1
        PROVE  Queue'[i] = Tail(Queue)[i]
    <3>1. i + 1 \in 1 .. Pushed - Popped /\ (i + 1) + Popped = i + Popped + 1
      BY <1>2
    <3>2. QED
      BY <2>2, <2>3, <2>5, <3>1
  <2>7. QED
    BY <2>3, <2>4, <2>5, <2>6
<1>8. Distance(tail, head)' = Distance(tail, head) - HeaderBytes - Len(m)
  BY <1>2, <1>5, <1>6 DEF HeaderBytes
<1>9. QED
  BY <1>1, <1>7, <1>8 DEF Abs!AbsPop

\* No other step is visible.
LEMMA OtherStepsInvisible ==
  ASSUME [OrderNext]_orderVars, ~TailStored, ~HeadStored
  PROVE  UNCHANGED Abs!absVars
<1>1. UNCHANGED <<sent, consumed, head, tail>>
  BY DEF OrderNext, orderVars, vars, shared, history, OldHeadLoaded, OldTailLoaded, ByteWritten, ByteRead,
         LocalStep, PushLoadHead, PopEmpty, PopNotEmpty, PushWrite, PopReadLen, PopReadPayload,
         PushUnpackable, PushTooLarge, PushStart, PushFull, PushFits, Pop, PopReturn,
         ProducerCrash, ConsumerCrash
<1>2. QED
  BY <1>1 DEF Abs!absVars, Queue, Distance

\* The ring, with loads as old as the orderings allow, is a bounded FIFO queue.
THEOREM RingRefinesQueue == OrderSpec => ImplementsQueue
<1>1. IInv /\ IInv' /\ [OrderNext]_orderVars => [Abs!AbsNext]_(Abs!absVars)
  BY PushRefines, PopRefines, OtherStepsInvisible DEF Abs!AbsNext
<1>2. QED
  BY <1>1, InitRefines, AlwaysIInv, PTL DEF OrderSpec, ImplementsQueue, Abs!AbsSpec

=============================================================================
