------------------------ MODULE KeyspaceRefinement --------------------------
(***************************************************************************)
(* Database seen as Keyspace.                                              *)
(***************************************************************************)
EXTENDS Database

\* The stale names are those of the expired keys that nobody has removed yet.
KS == INSTANCE Keyspace WITH live <- LiveView, stale <- Present \ Live

\* The store with its three maps, lazy expiry and background scans behaves as
\* one map of live keys from which a key vanishes at its deadline: every
\* operation returns and does what Keyspace says, however the clock moves while
\* it runs, and removing an expired key is never visible but to the count of DEL.
ImplementsKeyspace == KS!Spec

=============================================================================
