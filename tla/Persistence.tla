---------------------------- MODULE Persistence ----------------------------
(***************************************************************************)
(* SAVE and the load at startup, over the Database: Persistence::save      *)
(* writes dump.mrdb.tmp entry by entry, seals it with a CRC32 and puts it  *)
(* in the place of dump.mrdb; main() loads dump.mrdb into an empty         *)
(* database.  SAVE runs on the event loop's thread, so between its steps   *)
(* only time passes, the background scan runs, or the process dies.        *)
(***************************************************************************)
EXTENDS Database

CONSTANTS
    TicksPerMs,     \* TTLs are written in whole milliseconds
    Faults          \* what may go wrong: a subset of FaultKinds

FaultKinds == {"open", "write", "reopen", "checksum", "append", "rename", "crash"}

\* The bytes after the header are entries; sealed: the last four bytes are the
\* CRC32 of the rest.  Entries have distinct keys, so their order is immaterial.
FileEntry ==
    [key : Key, tag : {"string", "list"}, value : Value \cup Seq(Value), ttl : Nat \cup {Nil}]
File == [count : Nat, entries : SUBSET FileEntry, sealed : BOOLEAN]

NoFile == Nil
NoKeyspace == Nil

ASSUME PersistenceAssumption ==
    /\ Nil \notin Nat /\ NoFile \notin File
    /\ TicksPerMs \in Nat \ {0}
    /\ Faults \subseteq FaultKinds

VARIABLES
    pc,             \* where save() is; "serving" between commands, "down" after a crash
    snapshot,       \* save()'s copy of the three maps, until the clock is read
    unwritten,      \* the entries save() has still to write
    tmp, dump,      \* dump.mrdb.tmp and dump.mrdb
    writing,        \* history: what the clients could see when the running save()
                    \* read the clock
    saved           \* history: the same for the last save() that replaced dump.mrdb

disk == <<tmp, dump>>
history == <<writing, saved>>
pvars == <<vars, pc, snapshot, unwritten, disk, history>>

\* The process, the files and the database are of their types.
PTypeOK ==
    /\ TypeOK
    /\ pc \in {"serving", "copied", "writing", "checksum", "append", "remove",
               "rename", "down"}
    /\ tmp \in File \cup {NoFile} /\ dump \in File \cup {NoFile}

PInit ==
    /\ Init
    /\ pc = "serving"
    /\ snapshot = <<>> /\ unwritten = {}
    /\ tmp = NoFile /\ dump = NoFile
    /\ saved = NoKeyspace /\ writing = NoKeyspace

-----------------------------------------------------------------------------
(* What is written, and what reading it back gives *)

\* Faulty form: the TTL of a list is not written.
Entry_list_without_ttl(k) ==
    [key   |-> k,
     tag   |-> IF k \in DOMAIN snapshot.store THEN "string" ELSE "list",
     value |-> IF k \in DOMAIN snapshot.store THEN snapshot.store[k]
                                              ELSE snapshot.list_store[k],
     ttl   |-> IF k \in DOMAIN snapshot.expiry \cap DOMAIN snapshot.store
               THEN snapshot.expiry[k] \div TicksPerMs ELSE Nil]

\* A key of the snapshot as an entry of the file; a TTL below one millisecond
\* is written as 0.  The snapshot's deadlines are copied, its ticks go by.
Entry(k) ==
    [key   |-> k,
     tag   |-> IF k \in DOMAIN snapshot.store THEN "string" ELSE "list",
     value |-> IF k \in DOMAIN snapshot.store THEN snapshot.store[k]
                                              ELSE snapshot.list_store[k],
     ttl   |-> IF k \in DOMAIN snapshot.expiry THEN snapshot.expiry[k] \div TicksPerMs
                                               ELSE Nil]

\* The keys save() writes: those not expired at its one reading of the clock.
Unexpired ==
    {k \in DOMAIN snapshot.store \cup DOMAIN snapshot.list_store :
        k \in DOMAIN snapshot.expiry => snapshot.expiry[k] > 0}

entry_count == Cardinality(Unexpired)

\* load()'s checks: size, CRC, and as many entries as the header promises.
Loadable(f) == f # NoFile /\ f.sealed /\ f.count <= Cardinality(f.entries)

\* Entries with no time left are read and skipped.
Kept(entries) == {e \in entries : e.ttl # Nil => e.ttl > 0}

\* A field of each entry, by key.
FieldOf(entries, field) ==
    [k \in {e.key : e \in entries} |-> (CHOOSE e \in entries : e.key = k)[field]]

\* The deadlines of the entries that have one: now plus the stored time.
Deadlines(entries) ==
    LET ttls == FieldOf({e \in entries : e.ttl # Nil}, "ttl")
    IN  [k \in DOMAIN ttls |-> ttls[k] * TicksPerMs]

\* Faulty form: every entry is taken for a string.
load_snapshot_untagged(entries) ==
    /\ store' = FieldOf(entries, "value")
    /\ list_store' = <<>>
    /\ expiry' = Deadlines(entries)

load_snapshot(entries) ==
    /\ store' = FieldOf({e \in entries : e.tag = "string"}, "value")
    /\ list_store' = FieldOf({e \in entries : e.tag = "list"}, "value")
    /\ expiry' = Deadlines(entries)

-----------------------------------------------------------------------------
(* save(), one action for each thing it does to the disk *)

\* The end of a handled SAVE: what save() kept is gone with its frame.
EndSave(result) ==
    /\ pc' = "serving"
    /\ snapshot' = <<>> /\ unwritten' = {} /\ writing' = NoKeyspace
    /\ Returns("save", result)

\* The maps are copied under the lock; until save() ends there is no answer.
get_snapshot ==
    /\ pc = "serving"
    /\ snapshot' = [store |-> store, list_store |-> list_store, expiry |-> expiry]
    /\ pc' = "copied"
    /\ reply' = <<"none">>
    /\ UNCHANGED <<maps, unwritten, disk, history>>

\* Faulty form: the old dump goes before the new one is there.
OpenTmp_removing_dump ==
    /\ pc = "copied"
    /\ tmp' = [count |-> entry_count, entries |-> {}, sealed |-> FALSE]
    /\ unwritten' = {Entry(k) : k \in Unexpired}
    /\ writing' = LiveView
    /\ snapshot' = <<>>
    /\ pc' = "writing"
    /\ dump' = NoFile
    /\ UNCHANGED <<vars, saved>>

\* Open the temporary file, read the clock once, count, and write the header.
OpenTmp ==
    /\ pc = "copied"
    /\ \/ /\ tmp' = [count |-> entry_count, entries |-> {}, sealed |-> FALSE]
          /\ unwritten' = {Entry(k) : k \in Unexpired}
          /\ writing' = LiveView
          /\ snapshot' = <<>>
          /\ pc' = "writing"
          /\ UNCHANGED reply
       \/ "open" \in Faults /\ EndSave(FALSE) /\ UNCHANGED tmp
    /\ UNCHANGED <<maps, dump, saved>>

WriteEntry ==
    /\ pc = "writing"
    /\ \E e \in unwritten :
          /\ tmp' = [tmp EXCEPT !.entries = @ \cup {e}]
          /\ unwritten' = unwritten \ {e}
    /\ UNCHANGED <<vars, pc, snapshot, dump, history>>

\* A stream that failed at any write is seen after the flush, and a file that
\* cannot be reopened for its checksum after that: the temporary file goes.
AbandonTmp ==
    /\ \/ pc = "writing" /\ "write" \in Faults
       \/ pc = "checksum" /\ "reopen" \in Faults
       \/ pc = "append" /\ "append" \in Faults
    /\ tmp' = NoFile
    /\ EndSave(FALSE)
    /\ UNCHANGED <<maps, dump, saved>>

Flush ==
    /\ pc = "writing" /\ unwritten = {}
    /\ pc' = "checksum"
    /\ UNCHANGED <<vars, snapshot, unwritten, disk, history>>

Reopen ==
    /\ pc = "checksum"
    /\ pc' = "append"
    /\ UNCHANGED <<vars, snapshot, unwritten, disk, history>>

\* compute_crc32 returns 0 when it cannot open the file, and nobody looks
\* whether the four bytes of the checksum were written.
AppendCrc ==
    /\ pc = "append"
    /\ \/ tmp' = [tmp EXCEPT !.sealed = TRUE]
       \/ {"checksum", "append"} \cap Faults # {} /\ UNCHANGED tmp
    /\ pc' = "remove"
    /\ UNCHANGED <<vars, snapshot, unwritten, dump, history>>

RemoveDump ==
    /\ pc = "remove"
    /\ dump' = NoFile
    /\ pc' = "rename"
    /\ UNCHANGED <<vars, snapshot, unwritten, tmp, history>>

RenameTmp ==
    /\ pc = "rename"
    /\ tmp' = NoFile
    /\ \/ dump' = tmp /\ saved' = writing /\ EndSave(TRUE)
       \/ "rename" \in Faults /\ EndSave(FALSE) /\ UNCHANGED <<dump, saved>>
    /\ UNCHANGED maps

save == OpenTmp \/ WriteEntry \/ AbandonTmp \/ Flush \/ Reopen \/ AppendCrc
            \/ RemoveDump \/ RenameTmp

-----------------------------------------------------------------------------
(* The rest of the process *)

\* The process dies: memory and the unflushed part of a file are gone.
Crash ==
    /\ "crash" \in Faults /\ pc # "down"
    /\ pc' = "down"
    /\ store' = <<>> /\ list_store' = <<>> /\ expiry' = <<>>
    /\ snapshot' = <<>> /\ unwritten' = {} /\ writing' = NoKeyspace
    /\ reply' = <<"none">>
    /\ UNCHANGED <<disk, saved>>

\* main() loads dump.mrdb; a file that does not load leaves the database empty.
load ==
    /\ pc = "down"
    /\ pc' = "serving"
    /\ \/ /\ Loadable(dump)
          /\ \E entries \in SUBSET dump.entries :
                Cardinality(entries) = dump.count /\ load_snapshot(Kept(entries))
          /\ Returns("load", TRUE)
       \/ ~Loadable(dump) /\ Returns("load", FALSE) /\ UNCHANGED maps
    /\ UNCHANGED <<snapshot, unwritten, disk, history>>

\* The clients' commands that write; what reads and lazy expiry remove, the
\* background scan removes as well.
ClientOp ==
    /\ pc = "serving"
    /\ \/ flushdb
       \/ \E k \in Key : \/ \E v \in Value : set(k, v)
                         \/ \E b \in Batches : rpush(k, b)
                         \/ \E s \in Seconds : expire(k, s)
    /\ UNCHANGED <<pc, snapshot, unwritten, disk, history>>

BackgroundScan ==
    /\ pc # "down"
    /\ \E sample \in SUBSET DOMAIN expiry : expiry_scan(sample)
    /\ UNCHANGED <<pc, snapshot, unwritten, disk, history>>

\* Time passes, also for the deadlines in the snapshot and while down.
PTick ==
    /\ Tick
    /\ snapshot' = IF pc = "copied"
                   THEN [snapshot EXCEPT !.expiry =
                            [k \in DOMAIN @ |-> IF @[k] > 0 THEN @[k] - 1 ELSE 0]]
                   ELSE snapshot
    /\ UNCHANGED <<pc, unwritten, disk, history>>

PNext == get_snapshot \/ save \/ Crash \/ load \/ ClientOp \/ BackgroundScan \/ PTick

PSpec == PInit /\ [][PNext]_pvars

-----------------------------------------------------------------------------
(* Properties *)

\* What reading back a keyspace gives: TTLs in whole milliseconds, and no key
\* with less than one left.
Reloaded(view) ==
    [k \in {x \in DOMAIN view : view[x].left \notin 0 .. TicksPerMs - 1} |->
        [view[k] EXCEPT !.left = IF @ < 0 THEN @ ELSE @ - (@ % TicksPerMs)]]

\* A load gives back the keyspace the clients saw at one instant of the last
\* save that replaced dump.mrdb, or nothing at all, whatever failed or crashed
\* in that save and in later ones: never a part of a keyspace or a mixture of
\* two.  The TTLs are those of that instant, however long ago it was: what the
\* comment in load() says of it is ElapsedKeysAreSkipped of Restart.
LoadRestoresSaved ==
    [][pc = "down" /\ pc' = "serving" =>
          \/ reply' = <<"load", TRUE>> /\ LiveView' = Reloaded(saved)
          \/ reply' = <<"load", FALSE>> /\ Present' = {}]_pvars

\* f has every key of a keyspace, and its header counts them.
HasAll(f, view) ==
    {e.key : e \in f.entries} = DOMAIN view /\ f.count = Cardinality(f.entries)

\* A loadable dump.mrdb is given up for nothing less than a temporary file that
\* has every key of the keyspace being saved: no fault and no crash before
\* save() is that far takes it away (persistence.cpp:184-290).
OldDumpGoesLast ==
    [][Loadable(dump) /\ ~Loadable(dump)' => pc = "remove" /\ HasAll(tmp, writing)]_pvars

\* Once a SAVE has succeeded, dump.mrdb holds a loadable snapshot, except
\* between the remove and the rename of a later save().
DumpSurvives == saved # NoKeyspace /\ pc # "rename" => Loadable(dump)

=============================================================================
