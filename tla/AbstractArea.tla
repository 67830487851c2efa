---------------------------- MODULE AbstractArea ----------------------------
(***************************************************************************)
(* What the data area of a segment promises to the views on it: it behaves   *)
(* like a file that is read and written in one piece, and each view like a   *)
(* descriptor with its own position.                                         *)
(*                                                                          *)
(* MappedView.tla (the byte by byte copies of src/mapped_view.rs under the   *)
(* reader-writer lock) implements it as long as no two flows share a view.    *)
(***************************************************************************)
EXTENDS Integers, Sequences

CONSTANTS
  Thread,   \* the threads that read and write
  View,     \* the views, each with a cursor
  Size,     \* bytes of the data area
  Writes    \* the byte sequences that are written

VARIABLES
  mem,      \* the data area
  out,      \* out[t]: what the last read of t returned
  at        \* at[v]: the position of view v

absVars == <<mem, out, at>>

MemInit ==
  /\ mem = [a \in 0 .. Size - 1 |-> 0]
  /\ out = [t \in Thread |-> <<>>]

AbsInit == MemInit /\ at = [v \in View |-> 0]

Overlay(m, p, b) ==
  [a \in DOMAIN m |-> IF a \in p .. p + Len(b) - 1 THEN b[a - p + 1] ELSE m[a]]

MemWrite(p, b) ==
  /\ p \in 0 .. Size - Len(b)
  /\ mem' = Overlay(mem, p, b)
  /\ UNCHANGED out

MemRead(t, p, n) ==
  /\ p + n <= Size
  /\ out' = [out EXCEPT ![t] = [k \in 1 .. n |-> mem[p + k - 1]]]
  /\ UNCHANGED mem

MemNext ==
  \E p \in 0 .. Size : \/ \E b \in Writes : MemWrite(p, b)
                       \/ \E t \in Thread, n \in 0 .. Size : MemRead(t, p, n)

\* The area alone, wherever the calls find their positions.
MemSpec == MemInit /\ [][MemNext]_<<mem, out>>

-----------------------------------------------------------------------------

AbsWrite(p, b) == MemWrite(p, b) /\ UNCHANGED at
AbsRead(t, p, n) == MemRead(t, p, n) /\ UNCHANGED at

\* At the position of v, which moves past what was written or read.
AbsAppend(v, b) == MemWrite(at[v], b) /\ at' = [at EXCEPT ![v] = @ + Len(b)]
AbsReadNext(t, v, n) == MemRead(t, at[v], n) /\ at' = [at EXCEPT ![v] = @ + n]

AbsSeek(v, p) ==
  /\ at' = [at EXCEPT ![v] = p]
  /\ UNCHANGED <<mem, out>>

AbsNext ==
  \/ \E b \in Writes : \/ \E p \in 0 .. Size : AbsWrite(p, b)
                       \/ \E v \in View : AbsAppend(v, b)
  \/ \E t \in Thread, n \in 0 .. Size : \/ \E p \in 0 .. Size : AbsRead(t, p, n)
                                        \/ \E v \in View : AbsReadNext(t, v, n)
  \/ \E v \in View, p \in 0 .. Size : AbsSeek(v, p)

AbsSpec == AbsInit /\ [][AbsNext]_absVars

=============================================================================
