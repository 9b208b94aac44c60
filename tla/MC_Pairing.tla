----------------------------- MODULE MC_Pairing -----------------------------
(* Instances of Pairing for TLC.                                           *)
EXTENDS Pairing
=============================================================================
