---------------------- MODULE MCAampTrackWorkerManager ----------------------
(* Small instances of AampTrackWorkerManager for TLC.                      *)
EXTENDS AampTrackWorkerManager

VideoAudio == <<"video", "audio">>
=============================================================================
