------------------------- MODULE MCServiceRegistry -------------------------
(* An instance of ServiceRegistry for TLC.                                  *)
EXTENDS ServiceRegistry, TLC

CONSTANTS t1, t2, good, noport, name

\* The second description has an empty port.
BothMeet == (good :> {name}) @@ (noport :> {name})
\* The two threads do the same.
Alike == Permutations({t1, t2})
=============================================================================
