-------------------------- MODULE MCProfileSources --------------------------
(* An instance of ProfileSources for TLC.                                   *)
EXTENDS ProfileSources

CONSTANTS v1, key, slashes

\* Up to three arguments with the same name; up to two lines.
AllArgs == UNION {[1..n -> {t \in Texts : t.key = key}] : n \in 0..3}
Lines == {t \in Texts : t.key = key \/ t.val = v1}
AllFiles == UNION {[1..n -> Lines] : n \in 0..2}
=============================================================================
