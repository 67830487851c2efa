------------------------------ MODULE MC_Segment ------------------------------
(* Segment with sizes scaled down: one too small for a lock, one with a ring  *)
(* of two bytes, one whose data area is no power of two, and 0.              *)
EXTENDS Segment, TLC

\* Processes differ in nothing but their names.
Symmetry == Permutations(Proc)

=============================================================================
