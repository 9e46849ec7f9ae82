---------------------- MODULE MCAampTSBSessionManager ----------------------
(* The session of a local TSB for TLC.                                     *)
EXTENDS AampTSBSessionManager, TLC

CONSTANTS high, low, only   (* representations of video and of audio       *)

MCLastPosition    == [video |-> 2, audio |-> 1]
MCMaxInits        == [video |-> 2, audio |-> 1]
MCRepresentations == [video |-> {high, low}, audio |-> {only}]
Symmetry          == Permutations({high, low})
=============================================================================
