--------------------------- MODULE MC_SpscObserver ---------------------------
(* SpscObserver on the 8-byte ring: two empty messages fill it, and so does   *)
(* one of four bytes.                                                       *)
EXTENDS SpscObserver

MCPayloads == {<<>>, <<3, 3, 3, 3>>}

=============================================================================
