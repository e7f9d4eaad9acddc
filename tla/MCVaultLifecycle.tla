-------------------------- MODULE MCVaultLifecycle --------------------------
(***************************************************************************)
(* Small instances of VaultLifecycle for TLC.                              *)
(***************************************************************************)
EXTENDS VaultLifecycle
=============================================================================
