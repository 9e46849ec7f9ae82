------------------------- MODULE MCAampEventManager -------------------------
(* Small instance of AampEventManager for TLC.                             *)
EXTENDS AampEventManager, TLC

Symmetry == Permutations(Background)
=============================================================================
