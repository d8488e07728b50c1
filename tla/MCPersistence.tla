--------------------------- MODULE MCPersistence ---------------------------
(* A small instance of Persistence for TLC. *)
EXTENDS Persistence, TLC

CONSTANTS k1, k2, v1

MCKeyArgs == {}
MCBatches == {<<v1>>}
MCIndices == {}

KeySymmetry == Permutations(Key)

=============================================================================
