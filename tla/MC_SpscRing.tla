----------------------------- MODULE MC_SpscRing -----------------------------
(* SpscOrder on a 16-byte ring: empty, one-byte and three-byte payloads, one   *)
(* whose frame is exactly the ring, and one that can never fit.              *)
EXTENDS SpscOrder

Filled(len, b) == [i \in 1 .. len |-> b]
MCPayloads == {<<>>, <<1>>, <<2, 1, 2>>, Filled(12, 3), Filled(13, 4)}

=============================================================================
