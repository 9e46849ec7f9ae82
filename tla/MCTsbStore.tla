------------------------------ MODULE MCTsbStore ------------------------------
(* Instances of TsbStore for TLC.                                            *)
EXTENDS TsbStore, TLC
===============================================================================
