------------------------------ MODULE SpscOrder ------------------------------
(***************************************************************************)
(* The ring of SpscRing.tla on a machine that orders memory only as far as   *)
(* the Ordering arguments in src/spsc.rs ask for.                            *)
(*                                                                          *)
(* A load of the other side's counter may find any value stored in it since   *)
(* the last one the role has seen (coherence), so it may be out of date.  A   *)
(* byte of the data area is plain memory: accesses by both sides, one of      *)
(* them a write, must be ordered by a release store of a counter that the     *)
(* other side's acquire load has found, or they are a data race, and what a    *)
(* racing read returns is undefined.  As long as there is no race the bytes   *)
(* read are those of SpscRing.                                              *)
(*                                                                          *)
(* A role is one sequence of accesses even if its process is replaced: the    *)
(* kernel orders the end of one process before the start of the next.        *)
(***************************************************************************)
EXTENDS SpscRing

VARIABLES
  heads, tails,   \* every value stored in head and in tail, in order
  pseen,          \* index in heads of the value the producer saw last
  cseen,          \* index in tails of the value the consumer saw last
  wstamp,         \* wstamp[s]: index in tails of the store after the last write of byte s
  rstamp          \* rstamp[s]: index in heads of the store after the last read of byte s

order == <<heads, tails, pseen, cseen, wstamp, rstamp>>
orderVars == <<vars, order>>

OrderInit ==
  /\ Init
  /\ heads = <<head>> /\ tails = <<tail>> /\ pseen = 1 /\ cseen = 1
  /\ wstamp = [s \in DOMAIN data |-> 1] /\ rstamp = [s \in DOMAIN data |-> 1]

\* The Ordering of each access to the other side's counter, and of the stores
\* they find.
HeadLoadRelaxed == "relaxed"
HeadLoad == "acquire"
HeadStore == "release"
TailLoad == "acquire"
TailStoreRelaxed == "relaxed"
TailStore == "release"

\* The store up to which a role knows what the other one did before it.
Acquired(store, load, seen) ==
  IF store = "release" /\ load = "acquire" THEN seen ELSE 1

-----------------------------------------------------------------------------

\* push loads head, perhaps an old value.
OldHeadLoaded ==
  \E k \in pseen .. Len(heads) :
    /\ PushLoadHead(heads[k])
    /\ pseen' = k
    /\ UNCHANGED <<heads, tails, cseen, wstamp, rstamp>>

\* pop loads tail, perhaps an old value, and finds nothing, or something.
OldTailLoaded ==
  \E k \in cseen .. Len(tails) :
    /\ PopEmpty(tails[k]) \/ PopNotEmpty(tails[k])
    /\ cseen' = k
    /\ UNCHANGED <<heads, tails, pseen, wstamp, rstamp>>

ByteWritten ==
  /\ PushWrite
  /\ wstamp' = [wstamp EXCEPT ![Slot(ptail, pi)] = Len(tails) + 1]
  /\ UNCHANGED <<heads, tails, pseen, cseen, rstamp>>

ByteRead ==
  /\ PopReadLen \/ PopReadPayload
  /\ rstamp' = [rstamp EXCEPT ![Slot(chead, Len(cbuf))] = Len(heads) + 1]
  /\ UNCHANGED <<heads, tails, pseen, cseen, wstamp>>

TailStored ==
  /\ PushPublish
  /\ tails' = Append(tails, tail')
  /\ UNCHANGED <<heads, pseen, cseen, wstamp, rstamp>>

HeadStored ==
  /\ PopAdvance
  /\ heads' = Append(heads, head')
  /\ UNCHANGED <<tails, pseen, cseen, wstamp, rstamp>>

\* The steps that touch neither the data area nor the other side's counter.
LocalStep ==
  /\ \/ PushUnpackable
     \/ \E m \in Payloads : PushTooLarge(m) \/ PushStart(m)
     \/ PushFull \/ PushFits
     \/ Pop
     \/ \E result \in {"value", "decode_error"} : PopReturn(result)
     \/ ProducerCrash \/ ConsumerCrash
  /\ UNCHANGED order

OrderNext ==
  \/ OldHeadLoaded \/ OldTailLoaded
  \/ ByteWritten \/ ByteRead
  \/ TailStored \/ HeadStored
  \/ LocalStep

OrderSpec == OrderInit /\ [][OrderNext]_orderVars

-----------------------------------------------------------------------------
(* Properties.                                                              *)

\* "Violating this contract leads to data races": keeping it does not.  A byte is
\* overwritten only when the producer has acquired the store of head that followed
\* its last read, and read only when the consumer has acquired the store of tail
\* that followed its last write.
DataRaceFree ==
  /\ ppc = "write" =>
       rstamp[Slot(ptail, pi)] <= Acquired(HeadStore, HeadLoad, pseen)
  /\ cpc \in {"read_len", "read_payload"} =>
       wstamp[Slot(chead, Len(cbuf))] <= Acquired(TailStore, TailLoad, cseen)

=============================================================================
