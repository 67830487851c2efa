----------------------------- MODULE MC_RwLockGil -----------------------------
(* RwLockGil with three threads: two of them in one process, or each in one   *)
(* of its own.                                                              *)
EXTENDS RwLockGil, TLC

CONSTANTS t1, t2, t3, p1, p2, p3

MCLayouts == {t1 :> p1 @@ t2 :> p1 @@ t3 :> p2, t1 :> p1 @@ t2 :> p2 @@ t3 :> p3}

=============================================================================
