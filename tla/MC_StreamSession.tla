--------------------------- MODULE MC_StreamSession ---------------------------
(* Instances of StreamSession for TLC.                                     *)
EXTENDS StreamSession
==============================================================================
