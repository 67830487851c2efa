------------------------- MODULE SpscObserverProofs -------------------------
(***************************************************************************)
(* The queries of SpscObserver.tla, for every ring that SpscProofs.tla is     *)
(* about.  The invariant of the ring holds beside the queries, which only     *)
(* move on what a role saw last.  What is added to it: an answer is the       *)
(* number of bytes between two marks, one of them the asker's own and the     *)
(* other one not newer than what the asker has seen since (AnswerOK).  All    *)
(* that the answers promise is that marks only grow.                        *)
(***************************************************************************)
EXTENDS SpscObserver, SpscProofs

\* A query is made by the asker, between its calls; it has loaded head.
AskingOK ==
  /\ asker \in {"producer", "consumer"} /\ asking \in BOOLEAN
  /\ asking => AskerIdle
  /\ asking => qhead = IF asker = "producer" THEN heads[pseen] ELSE head

\* The producer was told of a head that is not newer than what it has seen, the
\* consumer of a tail that is not.
AnswerOK ==
  seen # Unknown =>
    /\ asker = "producer" => \E k \in 1 .. pseen : seen = End - marks[k]
    /\ asker = "consumer" => \E k \in Popped + 1 .. cseen : seen = marks[k] - Begin

\* The inductive invariant.
ObsInv == IInv /\ AskingOK /\ AnswerOK

-----------------------------------------------------------------------------
(* What a step of the ring does to the two marks of an answer.              *)

\* Counters of positions that are no further apart than the capacity differ.
LEMMA CountersDiffer ==
  ASSUME NEW x \in Nat, NEW y \in Nat, x < y, y - x <= Capacity
  PROVE  Counter(x) # Counter(y)
<1>1. Distance(Counter(y), Counter(x)) = y - x
  BY DistanceOf
<1>2. Distance(Counter(x), Counter(x)) = 0
  <2>1. x - x <= Capacity /\ x <= x /\ x - x = 0
    BY Sizes
  <2>2. QED
    BY <2>1, DistanceOf
<1>3. y - x # 0
  OBVIOUS
<1>4. QED
  BY <1>1, <1>2, <1>3

\* A publication moves tail: as long as tail is the same nothing was sent.
LEMMA SentStays ==
  ASSUME IInv, [OrderNext]_orderVars, tail' = tail
  PROVE  UNCHANGED <<sent, marks, tails>>
<1>1. ASSUME TailStored
      PROVE  FALSE
  <2> DEFINE n == FrameLen(pmsg)
  <2>1. ppc = "publish" /\ tail' = (ptail + n) % UsizeMod
    BY <1>1 DEF TailStored, PushPublish
  <2>2. /\ n \in Nat \ {0} /\ End \in Nat /\ marks[pseen] \in Nat /\ marks[pseen] <= End
        /\ Capacity \in Nat
    BY <2>1, Facts, Sizes
  <2>3. ptail = Counter(End) /\ tail = Counter(End) /\ End - marks[pseen] + n <= Capacity
    BY <2>1 DEF IInv, ProducerOK, CountersOK
  <2> HIDE DEF n
  <2>4. End + n \in Nat /\ End < End + n /\ (End + n) - End <= Capacity
    BY <2>2, <2>3
  <2>5. tail' = Counter(End + n)
    BY <2>1, <2>2, <2>3, CounterMoves
  <2>6. Counter(End) # Counter(End + n)
    BY <2>2, <2>4, CountersDiffer
  <2>7. QED
    BY <2>3, <2>5, <2>6
<1>2. QED
  BY <1>1 DEF OrderNext, orderVars, order, vars, shared, history, OldHeadLoaded, OldTailLoaded,
    ByteWritten, ByteRead, HeadStored, LocalStep, PushLoadHead, PopEmpty, PopNotEmpty, PushWrite,
    PopReadLen, PopReadPayload, PopAdvance, PushUnpackable, PushTooLarge, PushStart, PushFull,
    PushFits, Pop, PopReturn, ProducerCrash, ConsumerCrash

\* A pop moves head: as long as head is the same nothing was consumed.
LEMMA ConsumedStays ==
  ASSUME IInv, [OrderNext]_orderVars, head' = head
  PROVE  UNCHANGED <<consumed, heads>>
<1>1. ASSUME HeadStored
      PROVE  FALSE
  <2> DEFINE m == sent[Popped + 1]
             n == FrameLen(m)
  <2>1. /\ cpc = "advance" /\ Popped + 1 \in 1 .. Pushed /\ chead = Counter(Begin) /\ m \in Payloads
        /\ DecodeLen(cbuf) = Len(m)
    BY <1>1, FrameIsCopied DEF HeadStored, PopAdvance
  <2>2. n \in Nat \ {0} /\ n = Len(m) + 4 /\ Len(m) \in Nat
    BY <2>1, FrameFacts
  <2>3. marks[Popped + 2] = Begin + n /\ Popped + 2 \in 1 .. Pushed + 1
    <3>1. (Popped + 1) + 1 = Popped + 2 /\ Popped + 2 \in 1 .. Pushed + 1
      BY <2>1, Facts
    <3>2. marks[(Popped + 1) + 1] = marks[Popped + 1] + FrameLen(m)
      BY <2>1 DEF IInv, HistoryOK
    <3>3. QED
      BY <3>1, <3>2 DEF Begin
  <2>4. marks[Popped + 2] <= End
    BY <2>3, Facts DEF IInv, HistoryOK, End
  <2>5. head' = (chead + n) % UsizeMod
    <3>1. chead \in Nat
      BY DEF IInv, TypeOK
    <3>2. chead + HeaderBytes + DecodeLen(cbuf) = chead + n
      BY <2>1, <2>2, <3>1 DEF HeaderBytes
    <3>3. QED
      BY <1>1, <3>2 DEF HeadStored, PopAdvance
  <2>6. /\ Begin \in Nat /\ End \in Nat /\ End - Begin <= Capacity /\ Capacity \in Nat
        /\ head = Counter(Begin)
    BY BytesInside, Sizes DEF IInv, CountersOK
  <2> HIDE DEF n
  <2>7. Begin + n \in Nat /\ Begin < Begin + n /\ (Begin + n) - Begin <= Capacity
    BY <2>2, <2>3, <2>4, <2>6
  <2>8. head' = Counter(Begin + n)
    BY <2>1, <2>2, <2>5, <2>6, CounterMoves
  <2>9. Counter(Begin) # Counter(Begin + n)
    BY <2>2, <2>6, <2>7, CountersDiffer
  <2>10. QED
    BY <2>6, <2>8, <2>9
<1>2. QED
  BY <1>1 DEF OrderNext, orderVars, order, vars, shared, history, OldHeadLoaded, OldTailLoaded,
    ByteWritten, ByteRead, TailStored, LocalStep, PushLoadHead, PopEmpty, PopNotEmpty, PushWrite,
    PopReadLen, PopReadPayload, PushPublish, PushUnpackable, PushTooLarge, PushStart, PushFull,
    PushFits, Pop, PopReturn, ProducerCrash, ConsumerCrash

\* Marks are only ever added, and what a role has seen only gets newer.
LEMMA MarksGrow ==
  ASSUME IInv, [OrderNext]_orderVars
  PROVE  /\ Pushed' \in Nat /\ Pushed <= Pushed'
         /\ \A k \in 1 .. Pushed + 1 : marks'[k] = marks[k]
         /\ pseen <= pseen' /\ cseen <= cseen'
<1>1. Pushed \in Nat /\ marks \in Seq(Nat) /\ Len(marks) = Pushed + 1 /\ sent \in Seq(Payloads)
  BY Facts DEF IInv, HistoryOK, TypeOK
<1>2. pseen \in Nat /\ cseen \in Nat
  BY Facts
<1>3. CASE TailStored
  <2>1. /\ sent' = Append(sent, pmsg) /\ marks' = Append(marks, marks[Len(marks)] + FrameLen(pmsg))
        /\ pseen' = pseen /\ cseen' = cseen
    BY <1>3 DEF TailStored, PushPublish
  <2>2. \A k \in 1 .. Pushed + 1 : marks'[k] = marks[k]
    BY <1>1, <2>1
  <2>3. Pushed' = Pushed + 1
    BY <1>1, <2>1 DEF Pushed
  <2>4. QED
    BY <1>1, <1>2, <2>1, <2>2, <2>3
<1>4. CASE ~TailStored
  <2>1. UNCHANGED <<sent, marks>>
    BY <1>4 DEF OrderNext, orderVars, order, vars, history, OldHeadLoaded, OldTailLoaded,
      ByteWritten, ByteRead, HeadStored, LocalStep, PushLoadHead, PopEmpty, PopNotEmpty, PushWrite,
      PopReadLen, PopReadPayload, PopAdvance, PushUnpackable, PushTooLarge, PushStart, PushFull,
      PushFits, Pop, PopReturn, ProducerCrash, ConsumerCrash
  <2>2. pseen <= pseen' /\ cseen <= cseen'
    <3>1. pseen' \in pseen .. Len(heads) \/ pseen' = pseen
      BY <1>4 DEF OrderNext, orderVars, order, OldHeadLoaded, OldTailLoaded, ByteWritten, ByteRead,
        HeadStored, LocalStep
    <3>2. cseen' \in cseen .. Len(tails) \/ cseen' = cseen
      BY <1>4 DEF OrderNext, orderVars, order, OldHeadLoaded, OldTailLoaded, ByteWritten, ByteRead,
        HeadStored, LocalStep
    <3>3. QED
      BY <1>2, <3>1, <3>2
  <2>3. Pushed' = Pushed
    BY <2>1 DEF Pushed
  <2>4. QED
    BY <1>1, <2>1, <2>2, <2>3
<1>5. QED
  BY <1>3, <1>4

-----------------------------------------------------------------------------
(* The invariant.                                                           *)

LEMMA InitObsInv == ObsInit => ObsInv
<1> SUFFICES ASSUME ObsInit PROVE ObsInv
  OBVIOUS
<1>1. IInv
  BY InitIInv DEF ObsInit
<1>2. AskingOK /\ AnswerOK
  BY DEF ObsInit, AskingOK, AnswerOK
<1>3. QED
  BY <1>1, <1>2 DEF ObsInv

\* A query of the producer finds a head that it may find, and asks the same of tail.
LEMMA QueryHeadOK ==
  ASSUME ObsInv, QueryHead
  PROVE  ObsInv'
<1>0. IInv /\ UNCHANGED <<vars, heads, tails, cseen, wstamp, rstamp, asker, seen>>
  BY DEF ObsInv, QueryHead
<1>1. UNCHANGED <<shared, producer, consumer, history, crashes>>
  BY <1>0 DEF vars
<1>2. TypeOK'
  BY <1>0, <1>1 DEF IInv, TypeOK, shared, producer, consumer, history
<1>3. CASE asker = "producer"
  <2>1. PICK k \in pseen .. Len(heads) : qhead' = heads[k] /\ pseen' = k
    BY <1>3 DEF QueryHead
  <2>2. ppc = "idle"
    BY <1>3 DEF QueryHead, AskerIdle
  <2>3. ProducerOK'
    BY <1>0, <1>1, <2>2 DEF IInv, ProducerOK, producer, shared
  <2>4. IInv'
    BY <1>0, <1>1, <1>2, <2>1, <2>3, HeadSeen
  <2>5. AskingOK'
    BY <1>0, <1>1, <1>3, <2>1 DEF ObsInv, AskingOK, QueryHead, AskerIdle, producer, consumer
  <2>6. AnswerOK'
    <3> SUFFICES ASSUME seen # Unknown PROVE \E k2 \in 1 .. k : seen = End - marks[k2]
      BY <1>0, <1>1, <1>3, <2>1 DEF AnswerOK, End, Pushed, history
    <3>1. PICK k2 \in 1 .. pseen : seen = End - marks[k2]
      BY <1>3 DEF ObsInv, AnswerOK
    <3>2. pseen \in Nat /\ k \in Nat
      BY <1>0, Facts, StoresFound
    <3>3. k2 \in 1 .. k
      BY <3>1, <3>2, <2>1
    <3>4. QED
      BY <3>1, <3>3
  <2>7. QED
    BY <2>4, <2>5, <2>6 DEF ObsInv
<1>4. CASE asker = "consumer"
  <2>1. qhead' = head /\ UNCHANGED order
    BY <1>0, <1>4 DEF QueryHead, order
  <2>2. IInv'
    BY <1>0, <2>1, NextIInv DEF orderVars
  <2>3. AskingOK'
    BY <1>0, <1>1, <1>4, <2>1 DEF ObsInv, AskingOK, QueryHead, AskerIdle, producer, consumer, shared
  <2>4. AnswerOK'
    BY <1>0, <1>1, <1>4 DEF ObsInv, AnswerOK, Begin, End, Popped, Pushed, history
  <2>5. QED
    BY <2>2, <2>3, <2>4 DEF ObsInv
<1>5. QED
  BY <1>3, <1>4 DEF ObsInv, AskingOK

\* The answer is the bytes between two marks, however the counters have wrapped.
LEMMA QueryTailOK ==
  ASSUME ObsInv, QueryTail
  PROVE  ObsInv'
<1>0. IInv /\ UNCHANGED <<vars, heads, tails, pseen, wstamp, rstamp, asker>>
  BY DEF ObsInv, QueryTail
<1>1. UNCHANGED <<shared, producer, consumer, history, crashes>>
  BY <1>0 DEF vars
<1>2. TypeOK'
  BY <1>0, <1>1 DEF IInv, TypeOK, shared, producer, consumer, history
<1>3. AskingOK'
  BY <1>0 DEF ObsInv, AskingOK, QueryTail
<1>4. CASE asker = "producer"
  <2>1. seen' = Distance(tail, heads[pseen]) /\ UNCHANGED order
    BY <1>0, <1>4 DEF QueryTail, UsedAnswer, order, ObsInv, AskingOK
  <2>2. pseen \in pseen .. Len(heads) /\ pseen \in 1 .. pseen /\ pseen \in pseen .. Popped + 1
    BY <1>0, Facts DEF IInv, CountersOK
  <2>3. seen' = End - marks[pseen]
    BY <1>0, <2>1, <2>2, StoresFound, HeadsNear
  <2>4. AnswerOK'
    BY <1>0, <1>1, <1>4, <2>2, <2>3 DEF AnswerOK, End, Pushed, history
  <2>5. IInv'
    BY <1>0, <2>1, NextIInv DEF orderVars
  <2>6. QED
    BY <1>3, <2>4, <2>5 DEF ObsInv
<1>5. CASE asker = "consumer"
  <2>1. PICK k \in cseen .. Len(tails) : seen' = Distance(tails[k], head) /\ cseen' = k
    BY <1>5 DEF QueryTail, UsedAnswer, ObsInv, AskingOK
  <2>2. cpc = "idle"
    BY <1>5 DEF QueryTail, ObsInv, AskingOK, AskerIdle
  <2>3. ConsumerOK'
    BY <1>0, <1>1, <2>2 DEF IInv, ConsumerOK, consumer, shared, Reading
  <2>4. IInv'
    BY <1>0, <1>1, <1>2, <2>1, <2>3, TailSeen
  <2>5. k \in Popped + 1 .. Pushed + 1 /\ tails[k] = Counter(marks[k]) /\ head = Counter(Begin)
    BY <1>0, <2>1, StoresFound DEF IInv, CountersOK
  <2>6. /\ marks[k] \in Nat /\ Begin \in Nat /\ Begin <= marks[k] /\ marks[k] <= End
        /\ End \in Nat /\ End - Begin <= Capacity /\ Capacity \in Nat /\ k \in Popped + 1 .. k
    <3>1. k \in 1 .. Pushed + 1 /\ Popped + 1 \in 1 .. Pushed + 1 /\ Pushed + 1 \in 1 .. Pushed + 1
          /\ Popped + 1 <= k /\ k <= Pushed + 1 /\ k \in Popped + 1 .. k
      BY <1>0, <2>5, Facts
    <3>2. Begin <= marks[k] /\ marks[k] <= End
      BY <1>0, <3>1 DEF IInv, HistoryOK, Begin, End
    <3>3. QED
      BY <1>0, <3>1, <3>2, BytesInside, Facts, Sizes
  <2>7. seen' = marks[k] - Begin
    <3>1. marks[k] - Begin <= Capacity
      BY <2>6
    <3>2. QED
      BY <2>1, <2>5, <2>6, <3>1, DistanceOf
  <2>8. AnswerOK'
    BY <1>0, <1>1, <1>5, <2>1, <2>6, <2>7 DEF AnswerOK, Begin, Popped, history
  <2>9. QED
    BY <1>3, <2>4, <2>8 DEF ObsInv
<1>6. QED
  BY <1>4, <1>5 DEF ObsInv, AskingOK

\* A role that asks stays where it is; the other one stores no counter of the asker's.
LEMMA RingStepAsking ==
  ASSUME ObsInv, RingStep
  PROVE  AskingOK'
<1>1. IInv /\ [OrderNext]_orderVars /\ UNCHANGED <<asker, asking, qhead>>
  BY DEF ObsInv, RingStep, BesidesQueries
<1>2. CASE ~asking
  BY <1>1, <1>2 DEF ObsInv, AskingOK
<1>3. CASE asking /\ asker = "producer"
  <2>1. UNCHANGED ppc /\ pseen' = pseen /\ ppc = "idle"
    <3>1. UNCHANGED ppc /\ ppc = "idle"
      BY <1>3 DEF RingStep, BesidesQueries, producer, ObsInv, AskingOK, AskerIdle
    <3>2. ~OldHeadLoaded
      BY <3>1 DEF OldHeadLoaded, PushLoadHead
    <3>3. QED
      BY <3>1, <3>2 DEF RingStep, OrderNext, OldTailLoaded, ByteWritten, ByteRead, TailStored,
        HeadStored, LocalStep, order
  <2>2. heads'[pseen] = heads[pseen]
    <3>1. heads \in Seq(Nat) /\ pseen \in 1 .. Len(heads)
      BY <1>1, Facts DEF IInv, CountersOK
    <3>2. heads' = heads \/ heads' = Append(heads, head')
      BY DEF RingStep, OrderNext, OldHeadLoaded, OldTailLoaded, ByteWritten, ByteRead, TailStored,
        HeadStored, LocalStep, order
    <3>3. QED
      BY <3>1, <3>2
  <2>3. QED
    BY <1>1, <1>3, <2>1, <2>2 DEF ObsInv, AskingOK, AskerIdle
<1>4. CASE asking /\ asker = "consumer"
  <2>1. UNCHANGED cpc /\ cpc = "idle"
    BY <1>4 DEF RingStep, BesidesQueries, consumer, ObsInv, AskingOK, AskerIdle
  <2>2. head' = head
    BY <2>1 DEF RingStep, OrderNext, OldHeadLoaded, OldTailLoaded, ByteWritten, ByteRead, TailStored,
      HeadStored, LocalStep, PushLoadHead, PopEmpty, PopNotEmpty, PushWrite, PopReadLen,
      PopReadPayload, PushPublish, PopAdvance, PushUnpackable, PushTooLarge, PushStart, PushFull,
      PushFits, Pop, PopReturn, ProducerCrash, ConsumerCrash, shared
  <2>3. QED
    BY <1>1, <1>4, <2>1, <2>2 DEF ObsInv, AskingOK, AskerIdle
<1>5. QED
  BY <1>2, <1>3, <1>4 DEF ObsInv, AskingOK

\* The asker's own mark stays where it is as long as the answer is kept, and the other
\* one is not newer than what it saw.
LEMMA RingStepAnswer ==
  ASSUME ObsInv, RingStep
  PROVE  AnswerOK'
<1>1. IInv /\ [OrderNext]_orderVars /\ UNCHANGED <<asker, asking, qhead>>
  BY DEF ObsInv, RingStep, BesidesQueries
<1> SUFFICES ASSUME seen' # Unknown PROVE AnswerOK'
  BY DEF AnswerOK
<1>2. seen' = seen
  BY DEF RingStep, BesidesQueries
<1>3. ASSUME asker = "producer"
      PROVE  \E k \in 1 .. pseen' : seen' = End' - marks'[k]
  <2>1. tail' = tail
    BY <1>3 DEF RingStep, BesidesQueries
  <2>2. UNCHANGED <<sent, marks>> /\ pseen <= pseen' /\ pseen' \in Int
    <3>1. IInv'
      BY <1>1, NextIInv
    <3>2. pseen' \in Int
      BY <3>1 DEF IInv, CountersOK
    <3>3. QED
      BY <1>1, <2>1, <3>2, SentStays, MarksGrow
  <2>3. PICK k \in 1 .. pseen : seen = End - marks[k]
    BY <1>2, <1>3 DEF ObsInv, AnswerOK
  <2>4. k \in 1 .. pseen'
    BY <1>1, <2>2, <2>3, Facts
  <2>5. QED
    BY <1>2, <2>2, <2>3, <2>4 DEF End, Pushed
<1>4. ASSUME asker = "consumer"
      PROVE  \E k \in Popped' + 1 .. cseen' : seen' = marks'[k] - Begin'
  <2>1. head' = head
    BY <1>4 DEF RingStep, BesidesQueries
  <2>2. consumed' = consumed /\ Popped' = Popped
    BY <1>1, <2>1, ConsumedStays DEF Popped
  <2>3. PICK k \in Popped + 1 .. cseen : seen = marks[k] - Begin
    BY <1>2, <1>4 DEF ObsInv, AnswerOK
  <2>4. cseen <= cseen' /\ cseen' \in Int /\ cseen \in Popped + 1 .. Pushed + 1 /\ Popped \in Nat
    <3>1. IInv'
      BY <1>1, NextIInv
    <3>2. cseen' \in Int
      BY <3>1 DEF IInv, CountersOK
    <3>3. QED
      BY <1>1, <3>2, MarksGrow, Facts
  <2>5. k \in Popped + 1 .. cseen' /\ k \in 1 .. Pushed + 1 /\ Popped + 1 \in 1 .. Pushed + 1
    BY <1>1, <2>3, <2>4, Facts
  <2>6. marks'[k] = marks[k] /\ marks'[Popped + 1] = marks[Popped + 1]
    BY <1>1, <2>5, MarksGrow
  <2>7. QED
    BY <1>2, <2>2, <2>3, <2>5, <2>6 DEF Begin
<1>5. QED
  BY <1>1, <1>3, <1>4 DEF AnswerOK

LEMMA NextObsInv ==
  ASSUME ObsInv, [ObsNext]_obsVars
  PROVE  ObsInv'
<1>1. CASE RingStep
  <2>1. IInv'
    BY <1>1, NextIInv DEF ObsInv, RingStep
  <2>2. QED
    BY <1>1, <2>1, RingStepAsking, RingStepAnswer DEF ObsInv
<1>2. CASE QueryHead
  BY <1>2, QueryHeadOK
<1>3. CASE QueryTail
  BY <1>3, QueryTailOK
<1>4. CASE UNCHANGED obsVars
  <2>1. IInv'
    BY <1>4, NextIInv DEF ObsInv, obsVars
  <2>2. UNCHANGED <<asker, asking, qhead, seen, ppc, cpc, head, heads, pseen, cseen, sent, consumed, marks>>
    BY <1>4 DEF obsVars, queries, orderVars, order, vars, shared, producer, consumer, history
  <2>3. AskingOK' /\ AnswerOK'
    BY <2>2 DEF ObsInv, AskingOK, AskerIdle, AnswerOK, Begin, End, Popped, Pushed
  <2>4. QED
    BY <2>1, <2>3 DEF ObsInv
<1>5. QED
  BY <1>1, <1>2, <1>3, <1>4 DEF ObsNext

LEMMA AlwaysObsInv == ObsSpec => []ObsInv
<1>1. ObsInv /\ [ObsNext]_obsVars => ObsInv'
  BY NextObsInv
<1>2. QED
  BY <1>1, InitObsInv, PTL DEF ObsSpec

-----------------------------------------------------------------------------
(* The theorems.                                                            *)

\* Queries disturb nothing: beside them the ring has all the properties that
\* SpscProofs.tla derives from its invariant.
THEOREM QueriesDisturbNothing == ObsSpec => []IInv
  BY AlwaysObsInv, PTL DEF ObsInv

\* And it is the same bounded queue.
THEOREM QueriesRefineQueue == ObsSpec => ImplementsQueue
<1>1. ASSUME IInv, IInv', [ObsNext]_obsVars
      PROVE  [Abs!AbsNext]_(Abs!absVars)
  <2>1. CASE RingStep
    BY <1>1, <2>1, PushRefines, PopRefines, OtherStepsInvisible DEF RingStep, Abs!AbsNext
  <2>2. CASE UNCHANGED vars
    BY <2>2 DEF vars, shared, history, Abs!absVars, Queue, Distance
  <2>3. QED
    BY <1>1, <2>1, <2>2 DEF ObsNext, QueryHead, QueryTail, obsVars, orderVars
<1>2. IInv /\ IInv' /\ [ObsNext]_obsVars => [Abs!AbsNext]_(Abs!absVars)
  BY <1>1
<1>3. ObsInit => Abs!AbsInit
  BY InitRefines DEF ObsInit
<1>4. QED
  BY <1>2, <1>3, QueriesDisturbNothing, PTL DEF ObsSpec, ImplementsQueue, Abs!AbsSpec

\* Room that free() reported is there when push looks, although push loads head again
\* and may find another value.
THEOREM FreeRoomIsKept == ObsSpec => []FreeIsKept
<1>1. ASSUME ObsInv
      PROVE  FreeIsKept
  <2> SUFFICES ASSUME asker = "producer", ppc = "check", seen # Unknown,
                      FrameLen(pmsg) <= FreeAnswer(seen)
               PROVE  Distance(tail, phead) + FrameLen(pmsg) <= Capacity
    BY DEF FreeIsKept
  <2>1. PICK k \in 1 .. pseen : seen = End - marks[k]
    BY <1>1 DEF ObsInv, AnswerOK
  <2>2. IInv /\ phead = Counter(marks[pseen]) /\ pseen \in pseen .. Popped + 1
    BY <1>1, Facts DEF ObsInv, IInv, ProducerOK
  <2>3. Distance(tail, phead) = End - marks[pseen] /\ marks[pseen] \in Nat
    BY <2>2, HeadsNear
  <2>4. /\ marks[k] \in Nat /\ marks[k] <= marks[pseen] /\ End \in Nat /\ Capacity \in Nat
        /\ FrameLen(pmsg) \in Nat \ {0}
    <3>1. k \in 1 .. Pushed + 1 /\ pseen \in 1 .. Pushed + 1 /\ k <= pseen
      BY <2>1, <2>2, Facts
    <3>2. marks[k] <= marks[pseen]
      BY <2>2, <3>1 DEF IInv, HistoryOK
    <3>3. QED
      BY <2>2, <3>1, <3>2, Facts, Sizes
  <2>5. FrameLen(pmsg) <= Capacity - (End - marks[k])
    BY <2>1, <2>4 DEF FreeAnswer
  <2>6. QED
    BY <2>3, <2>4, <2>5
<1>2. QED
  BY <1>1, AlwaysObsInv, PTL

\* A ring that is_empty() called empty to its producer has been drained, even if the head
\* that was found was an old one.
THEOREM EmptyIsDrained == ObsSpec => []DrainedIsConsumed
<1>1. ASSUME ObsInv
      PROVE  DrainedIsConsumed
  <2> SUFFICES ASSUME asker = "producer", seen # Unknown, seen = 0
               PROVE  consumed = sent
    BY DEF DrainedIsConsumed, IsEmptyAnswer
  <2>1. PICK k \in 1 .. pseen : 0 = End - marks[k]
    BY <1>1 DEF ObsInv, AnswerOK
  <2>2. /\ IInv /\ Popped \in Nat /\ Pushed \in Nat /\ Popped <= Pushed /\ k \in 1 .. Popped + 1
        /\ k \in 1 .. Pushed + 1
    BY <1>1, <2>1, Facts DEF ObsInv
  <2>3. Popped = Pushed
    <3> SUFFICES ASSUME Popped < Pushed PROVE FALSE
      BY <2>2
    <3>1. Pushed \in 1 .. Pushed /\ Pushed \in 1 .. Pushed + 1 /\ k <= Pushed
      BY <2>2
    <3>2. marks[k] <= marks[Pushed] /\ End = marks[Pushed] + FrameLen(sent[Pushed])
      BY <2>2, <3>1 DEF IInv, HistoryOK, End
    <3>3. FrameLen(sent[Pushed]) \in Nat \ {0}
      BY <2>2, <3>1, Facts, FrameFacts
    <3>4. marks[k] \in Nat /\ marks[Pushed] \in Nat /\ End \in Nat
      BY <2>2, <3>1, Facts
    <3>5. QED
      BY <2>1, <3>2, <3>3, <3>4
  <2>4. /\ consumed \in Seq(Payloads) /\ sent \in Seq(Payloads) /\ Len(consumed) = Len(sent)
        /\ \A j \in 1 .. Len(consumed) : consumed[j] = sent[j]
    BY <2>2, <2>3 DEF IInv, TypeOK, HistoryOK, Popped, Pushed
  <2>5. QED
    BY <2>4
<1>2. QED
  BY <1>1, AlwaysObsInv, PTL

\* A message that is_empty() saw is found by the next pop, whatever tail that loads.
THEOREM MessageIsKept == ObsSpec => []NonEmptyIsKept
<1>1. ASSUME ObsInv
      PROVE  NonEmptyIsKept
  <2> SUFFICES ASSUME asker = "consumer", cpc = "load_tail", seen # Unknown, seen # 0,
                      NEW j \in cseen .. Len(tails)
               PROVE  chead # tails[j]
    BY DEF NonEmptyIsKept, IsEmptyAnswer
  <2>1. PICK k \in Popped + 1 .. cseen : seen = marks[k] - Begin
    BY <1>1 DEF ObsInv, AnswerOK
  <2>2. /\ IInv /\ chead = Counter(Begin) /\ tails[j] = Counter(marks[j])
        /\ j \in Popped + 1 .. Pushed + 1
    BY <1>1, StoresFound DEF ObsInv, IInv, ConsumerOK, CountersOK
  <2>3. /\ Popped + 1 \in 1 .. Pushed + 1 /\ k \in 1 .. Pushed + 1 /\ j \in 1 .. Pushed + 1
        /\ Pushed + 1 \in 1 .. Pushed + 1 /\ Popped + 1 <= k /\ k <= j /\ j <= Pushed + 1
    <3>1. Popped \in Nat /\ Pushed \in Nat /\ cseen \in Popped + 1 .. Pushed + 1
      BY <2>2, Facts
    <3>2. k <= cseen /\ cseen <= j /\ j \in Int /\ k \in Int
      BY <2>1, <2>2, <3>1
    <3>3. QED
      BY <2>1, <2>2, <3>1, <3>2
  <2>4. Begin <= marks[k] /\ marks[k] <= marks[j] /\ marks[j] <= End
    BY <2>2, <2>3 DEF IInv, HistoryOK, Begin, End
  <2>5. /\ Begin \in Nat /\ marks[k] \in Nat /\ marks[j] \in Nat /\ End \in Nat
        /\ End - Begin <= Capacity /\ Capacity \in Nat
    BY <2>2, <2>3, BytesInside, Facts, Sizes
  <2>6. Begin < marks[j] /\ marks[j] - Begin <= Capacity
    BY <2>1, <2>4, <2>5
  <2>7. QED
    BY <2>2, <2>5, <2>6, CountersDiffer
<1>2. QED
  BY <1>1, AlwaysObsInv, PTL

\* While a consumer that was told the ring is full does not pop, no push gets in.
THEOREM FullRingStaysFull == ObsSpec => FullStaysFull
<1> DEFINE Full == asker = "consumer" /\ seen # Unknown /\ IsFullAnswer(seen) /\ head' = head
<1>1. ASSUME ObsInv, [ObsNext]_obsVars, Full
      PROVE  tail' = tail
  <2>1. ASSUME TailStored
        PROVE  FALSE
    <3>1. PICK k \in Popped + 1 .. cseen : seen = marks[k] - Begin
      BY <1>1 DEF ObsInv, AnswerOK
    <3>2. k \in 1 .. Pushed + 1 /\ Pushed + 1 \in 1 .. Pushed + 1 /\ k <= Pushed + 1
      BY <1>1, <3>1, Facts DEF ObsInv
    <3>3. marks[k] <= End /\ marks[k] \in Nat
      BY <1>1, <3>2, Facts DEF ObsInv, IInv, HistoryOK, End
    <3>4. /\ ppc = "publish" /\ End - marks[pseen] + FrameLen(pmsg) <= Capacity
      BY <1>1, <2>1 DEF TailStored, PushPublish, ObsInv, IInv, ProducerOK
    <3>5. /\ End \in Nat /\ Begin \in Nat /\ marks[pseen] \in Nat /\ marks[pseen] <= Begin
          /\ FrameLen(pmsg) \in Nat \ {0} /\ Capacity \in Nat
      BY <1>1, <3>4, Facts, Sizes DEF ObsInv
    <3>6. marks[k] - Begin >= Capacity
      BY <1>1, <3>1 DEF IsFullAnswer
    <3>7. QED
      BY <3>3, <3>4, <3>5, <3>6
  <2>2. QED
    BY <1>1, <2>1 DEF ObsNext, RingStep, QueryHead, QueryTail, obsVars, orderVars, vars, shared,
      OrderNext, OldHeadLoaded, OldTailLoaded, ByteWritten, ByteRead, HeadStored, LocalStep,
      PushLoadHead, PopEmpty, PopNotEmpty, PushWrite, PopReadLen, PopReadPayload, PopAdvance,
      PushUnpackable, PushTooLarge, PushStart, PushFull, PushFits, Pop, PopReturn, ProducerCrash,
      ConsumerCrash
<1>2. ObsInv /\ [ObsNext]_obsVars => [Full => tail' = tail]_obsVars
  BY <1>1
<1>3. QED
  BY <1>2, AlwaysObsInv, PTL DEF ObsSpec, FullStaysFull

=============================================================================
