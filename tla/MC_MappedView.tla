---------------------------- MODULE MC_MappedView ----------------------------
(* MappedView on an area of three bytes with one-byte length prefixes: a      *)
(* string of one byte, a byte that read as a prefix asks for more than there  *)
(* is, and the empty bytes object.  One schema has a count that runs Python   *)
(* code between its entries, the other a tag that is refused.                *)
EXTENDS MappedView, TLC

CONSTANTS t1, t2, t3, v1, v2, v3

MCPayloads == {<<1, 7>>, <<200>>, <<>>}
MCOffsets == {1, 4}
MCRanges == {2}
MCSchemas == {<<Prefixed, Index, Fixed(1)>>, <<Fixed(1), Unknown>>}

\* t1 passes counts that run Python code, whose calls are t3.
Nested == t1 :> {} @@ t2 :> {} @@ t3 :> {t1}
\* No count runs Python code.
Flat == t1 :> {} @@ t2 :> {}

\* Each flow has mapped the segment itself.
OwnViews == t1 :> {v1} @@ t2 :> {v2} @@ t3 :> {v3}
\* The threads of one process share the view it mapped.
SharedView == t1 :> {v1} @@ t2 :> {v1}
\* And so does the Python code of t1's counts.
OneView == t1 :> {v1} @@ t2 :> {v1} @@ t3 :> {v1}

=============================================================================
