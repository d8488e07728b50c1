------------------------------ MODULE Restart ------------------------------
(***************************************************************************)
(* Persistence with a clock that runs on from a save to the next load:     *)
(* what is left of the TTLs that the last save wrote, also while the       *)
(* server is down.  Nothing in the program looks at it.                    *)
(***************************************************************************)
EXTENDS Persistence

VARIABLE remaining      \* history: the keys last saved with a TTL to the ticks left of it

rvars == <<pvars, remaining>>

\* The deadlines of a saved keyspace.
TtlsOf(view) ==
    [k \in {x \in DOMAIN view : view[x].left >= 0} |-> view[k].left]

RInit == PInit /\ remaining = <<>>

SaveSucceeds == pc = "rename" /\ reply' = <<"save", TRUE>>

RNext ==
    \/ /\ get_snapshot \/ save \/ Crash \/ load \/ ClientOp \/ BackgroundScan
       /\ remaining' = IF SaveSucceeds THEN TtlsOf(saved') ELSE remaining
    \/ /\ PTick
       /\ remaining' = [k \in DOMAIN remaining |-> IF remaining[k] > 0 THEN remaining[k] - 1 ELSE 0]

RSpec == RInit /\ [][RNext]_rvars

\* "If the TTL has already elapsed since we saved, skip this key"
\* (persistence.cpp:399): a load brings no key back whose saved TTL has run out
\* in the meantime.  The code compares the TTL as it was at the save with 0.
ElapsedKeysAreSkipped ==
    [][pc = "down" /\ pc' = "serving" =>
          \A k \in DOMAIN remaining : remaining[k] = 0 => k \notin Present']_rvars

=============================================================================
