-------------------------- MODULE MCKeyValueStore --------------------------
(* Instances of KeyValueStore for TLC: the constants are model values,     *)
(* given in the .cfg files.                                                *)
EXTENDS KeyValueStore
=============================================================================
