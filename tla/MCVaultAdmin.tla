---------------------------- MODULE MCVaultAdmin ----------------------------
(* Instances of VaultAdmin for TLC.  The threads are alike, but symmetry   *)
(* is not used: a liveness property is checked.                            *)
EXTENDS VaultAdmin
=============================================================================
