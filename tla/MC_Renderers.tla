----------------------------- MODULE MC_Renderers -----------------------------
(* Instances of Renderers for TLC.                                         *)
EXTENDS Renderers

Sizes == {<<1280, 720>>, <<1920, 1080>>, <<1440, 1080>>, <<1280, 1024>>}

(* One entry and several, some of which are split at the end of the ring,  *)
(* two of which leave room for no third.                                   *)
SomeUnits == {<<1>>, <<2, 3>>, <<2, 4>>}
==============================================================================
