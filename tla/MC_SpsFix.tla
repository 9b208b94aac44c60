------------------------------- MODULE MC_SpsFix -------------------------------
(* Instances of SpsFix for TLC.                                            *)
EXTENDS SpsFix

Sizes == {<<1280, 720>>, <<1920, 1080>>, <<1440, 1080>>, <<1280, 1024>>}
==============================================================================
