----------------------------- MODULE MC_KeyStore -----------------------------
(* Instances of KeyStore for TLC.                                          *)
EXTENDS KeyStore, TLC

Symmetric == Permutations(Run)
==============================================================================
