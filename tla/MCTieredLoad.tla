--------------------------- MODULE MCTieredLoad ---------------------------
(* Instances of TieredLoad for TLC.                                        *)
EXTENDS TieredLoad
=============================================================================
