----------------------------- MODULE MCDatabase -----------------------------
(* Small instances of Database for TLC. *)
EXTENDS KeyspaceRefinement

CONSTANTS k1, k2, v1, v2

MCKeyArgs == {<<k1>>, <<k1, k1>>, <<k1, k2>>}
MCBatches == {<<v1>>, <<v1, v2>>}
MCIndices == -3 .. 1

=============================================================================
