------------------------------ MODULE MC_AppList ------------------------------
(* Instances of AppList for TLC.                                           *)
EXTENDS AppList
==============================================================================
