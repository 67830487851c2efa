--------------------------- MODULE MC_SegmentWin32 ---------------------------
(* SegmentWin32 with pages of two bytes: sizes 3 and 4 end in the same page,  *)
(* size 1 in the one before, and leaves no room for either header.          *)
EXTENDS SegmentWin32, TLC

\* Processes differ in nothing but their names.
Symmetry == Permutations(Proc)

=============================================================================
