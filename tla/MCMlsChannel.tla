---------------------------- MODULE MCMlsChannel ----------------------------
(***************************************************************************)
(* Small instances of MlsChannel for TLC.                                  *)
(***************************************************************************)
EXTENDS MlsChannel, TLC

Symmetry == Permutations(Devices) \cup Permutations(EventIds)
=============================================================================
