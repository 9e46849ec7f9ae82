---------------------- MODULE MCStreamAbstractionAAMP ----------------------
(* Model-checking instance of StreamAbstractionAAMP. *)
EXTENDS StreamAbstractionAAMP, TLC
==============================================================================
