---------------------------- MODULE SpscObserver ----------------------------
(***************************************************************************)
(* The queries of SpscRingBuffer (used, free, is_empty, is_full), called by *)
(* the producer between two pushes or by the consumer between two pops.     *)
(*                                                                          *)
(* A query loads head and then tail, two steps, and the other side moves     *)
(* between them and after them.  The load of the other side's counter may    *)
(* find an old value, as in SpscOrder.tla; that of its own finds what the     *)
(* asker stored last.  What an answer is still good for when it is used is    *)
(* the subject of this module.  A query changes nothing that the other side   *)
(* could see, so one side asks in a behaviour.                              *)
(***************************************************************************)
EXTENDS SpscOrder

Unknown == -1           \* no query since the last push or pop of the asker took effect

VARIABLES
  asker,    \* the role that asks
  asking,   \* it stands between the two loads of a query
  qhead,    \* its `head`
  seen      \* what used() answered it, if it has changed nothing since

queries == <<asker, asking, qhead, seen>>
obsVars == <<orderVars, queries>>

ObsInit ==
  /\ OrderInit
  /\ asker \in {"producer", "consumer"}
  /\ asking = FALSE /\ qhead = 0 /\ seen = Unknown

AskerIdle == IF asker = "producer" THEN ppc = "idle" ELSE cpc = "idle"

QueryHeadCached ==
  /\ AskerIdle /\ ~asking
  /\ asking' = TRUE
  /\ UNCHANGED <<orderVars, asker, qhead, seen>>

\* The first load of used() or is_empty().
QueryHead ==
  /\ AskerIdle /\ ~asking
  /\ \/ asker = "consumer" /\ qhead' = head /\ UNCHANGED pseen
     \/ /\ asker = "producer"
        /\ \E k \in pseen .. Len(heads) : qhead' = heads[k] /\ pseen' = k
  /\ asking' = TRUE
  /\ UNCHANGED <<vars, heads, tails, cseen, wstamp, rstamp, asker, seen>>

UsedSaturating(t, h) == IF t >= h THEN t - h ELSE 0
UsedAnswer(t, h) == Distance(t, h)

\* The second one, and the answer.
QueryTail ==
  /\ asking
  /\ \/ asker = "producer" /\ seen' = UsedAnswer(tail, qhead) /\ UNCHANGED cseen
     \/ /\ asker = "consumer"
        /\ \E k \in cseen .. Len(tails) : seen' = UsedAnswer(tails[k], qhead) /\ cseen' = k
  /\ asking' = FALSE /\ qhead' = 0
  /\ UNCHANGED <<vars, heads, tails, pseen, wstamp, rstamp, asker>>

\* free() of the mapped size, which counts the 24 bytes of the header as well.
FreeOfMapping(used) == IF used <= Capacity + 24 THEN Capacity + 24 - used ELSE 0

\* What free(), is_empty() and is_full() make of the same two loads.
FreeAnswer(used) == IF used <= Capacity THEN Capacity - used ELSE 0
IsEmptyAnswer(used) == used = 0
IsFullAnswer(used) == used >= Capacity

\* Push and pop besides the queries: a role that is asking does nothing else.  The
\* answer is out of date once its own push or pop has moved a counter, or once
\* it was replaced.
BesidesQueries ==
  /\ asking => IF asker = "producer" THEN producer' = producer ELSE consumer' = consumer
  /\ seen' = IF \/ asker = "producer" /\ tail' # tail
                \/ asker = "consumer" /\ head' # head
                \/ crashes' # crashes
             THEN Unknown ELSE seen
  /\ UNCHANGED <<asker, asking, qhead>>

RingStep == OrderNext /\ BesidesQueries

ObsNext == RingStep \/ QueryHead \/ QueryTail

ObsSpec == ObsInit /\ [][ObsNext]_obsVars

PushGoesOn ==
  \/ OldHeadLoaded \/ ByteWritten \/ TailStored
  \/ (PushFull \/ PushFits) /\ UNCHANGED order
PopGoesOn ==
  \/ OldTailLoaded \/ ByteRead \/ HeadStored
  \/ (\E result \in {"value", "decode_error"} : PopReturn(result)) /\ UNCHANGED order
NewHeadLoaded == OldHeadLoaded /\ pseen' = Len(heads)
NewTailLoaded == OldTailLoaded /\ cseen' = Len(tails)

\* The loops of examples/spsc_producer.py and spsc_consumer.py, with queries in
\* between: calls run to their end, a refused push is retried, and the consumer
\* polls for ever, however often each of them asks before it goes on.  A load that is
\* made again and again does not find old values for ever.
ObsFairness ==
  /\ WF_obsVars(PushGoesOn /\ BesidesQueries) /\ WF_obsVars(PopGoesOn /\ BesidesQueries)
  /\ WF_obsVars(QueryTail)
  /\ SF_obsVars(NewHeadLoaded /\ BesidesQueries) /\ SF_obsVars(NewTailLoaded /\ BesidesQueries)
  /\ SF_obsVars(Pop /\ UNCHANGED order /\ BesidesQueries)
  /\ SF_obsVars((\E m \in Payloads : PushStart(m)) /\ UNCHANGED order /\ BesidesQueries)

FairObsSpec == ObsSpec /\ ObsFairness

-----------------------------------------------------------------------------
(* Properties.                                                              *)

\* free() keeps its word to the producer: when it said there was room for a frame
\* and the producer has published nothing since, push does not refuse the frame.
FreeIsKept ==
  asker = "producer" /\ ppc = "check" /\ seen # Unknown /\ FrameLen(pmsg) <= FreeAnswer(seen)
    => Distance(tail, phead) + FrameLen(pmsg) <= Capacity

\* is_empty() keeps its word to the producer: once it said yes, all that was sent
\* has been consumed, and that stays so until the producer publishes again.
DrainedIsConsumed ==
  asker = "producer" /\ seen # Unknown /\ IsEmptyAnswer(seen) => consumed = sent

\* is_empty() keeps its word to the consumer: when it said no, the next pop finds a
\* message, whatever value of tail its own load finds.
NonEmptyIsKept ==
  asker = "consumer" /\ cpc = "load_tail" /\ seen # Unknown /\ ~IsEmptyAnswer(seen)
    => \A k \in cseen .. Len(tails) : chead # tails[k]

\* is_full() said yes to the consumer: until it pops, the producer gets nothing in.
FullStaysFull ==
  [][asker = "consumer" /\ seen # Unknown /\ IsFullAnswer(seen) /\ head' = head
       => tail' = tail]_obsVars

=============================================================================
