---------------------------- MODULE MCMediaTrack ----------------------------
(* MediaTrack for TLC: the sets a .cfg cannot write.                       *)
EXTENDS MediaTrack

NoDiscontinuity == {}
ThirdIsDiscontinuous == {3}
FourthIsDiscontinuous == {4}
=============================================================================
