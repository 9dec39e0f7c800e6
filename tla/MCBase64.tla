------------------------------ MODULE MCBase64 ------------------------------
(* Instances of Base64 for TLC.                                            *)
EXTENDS Base64

CONSTANT Samples  \* bytes

\* Every message of up to five of the sample bytes: one group, more than one,
\* and both lengths of a partial one.
ShortMessages == UNION {[1..n -> Samples] : n \in 0..5}
=============================================================================
