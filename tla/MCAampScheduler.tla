--------------------------- MODULE MCAampScheduler ---------------------------
(* Small instance of AampScheduler for TLC.                                *)
EXTENDS AampScheduler, TLC

Symmetry == Permutations(Callers)
=============================================================================
