---------------------------- MODULE AbstractQueue ----------------------------
(***************************************************************************)
(* What a bounded message queue between one producer and one consumer       *)
(* promises: messages come out whole, once, in the order they went in, and   *)
(* the frames that are inside never take more than Capacity bytes.           *)
(*                                                                          *)
(* SpscRing.tla (the ring buffer of src/spsc.rs) implements it.             *)
(***************************************************************************)
EXTENDS Integers, Sequences

CONSTANTS
  Payloads,     \* the packed messages, as sequences of bytes
  Capacity,     \* bytes of the data area
  HeaderBytes   \* bytes a message takes besides its payload

VARIABLES
  sent,         \* every message that was accepted, in order
  consumed,     \* every message that was taken out, in order
  queue,        \* the messages inside
  bytes         \* the bytes they take

absVars == <<sent, consumed, queue, bytes>>

AbsInit == sent = <<>> /\ consumed = <<>> /\ queue = <<>> /\ bytes = 0

AbsPush(m) ==
  /\ bytes + HeaderBytes + Len(m) <= Capacity
  /\ sent' = Append(sent, m)
  /\ queue' = Append(queue, m)
  /\ bytes' = bytes + HeaderBytes + Len(m)
  /\ UNCHANGED consumed

AbsPop ==
  /\ queue # <<>>
  /\ consumed' = Append(consumed, Head(queue))
  /\ queue' = Tail(queue)
  /\ bytes' = bytes - HeaderBytes - Len(Head(queue))
  /\ UNCHANGED sent

AbsNext == AbsPop \/ \E m \in Payloads : AbsPush(m)

AbsSpec == AbsInit /\ [][AbsNext]_absVars

=============================================================================
