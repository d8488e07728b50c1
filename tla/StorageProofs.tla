---------------------------- MODULE StorageProofs ----------------------------
(***************************************************************************)
(* What Database promises to its callers (Keyspace), and what it finds     *)
(* again in dump.mrdb (Persistence).                                       *)
(***************************************************************************)
EXTENDS KeyspaceRefinement, Persistence, DatabaseProofs

-----------------------------------------------------------------------------
(* Persistence.  What a load finds in dump.mrdb, for every set of keys and *)
(* values, every clock and every combination of faults.                    *)

\* What clients may see of a key.
TimeLeft == {-1} \cup (Nat \ {0})
Seen == [type : {"string"}, val : Value, left : TimeLeft]
          \cup [type : {"list"}, val : Seq(Value) \ {<<>>}, left : TimeLeft]

IsKeyspace(view) ==
    /\ DOMAIN view \subseteq Key /\ IsFiniteSet(DOMAIN view)
    /\ view \in [DOMAIN view -> Seen]

\* The entries that a whole dump of a keyspace has.
EntryOf(k, r) ==
    [key |-> k, tag |-> r.type, value |-> r.val,
     ttl |-> IF r.left = -1 THEN Nil ELSE r.left \div TicksPerMs]

EntriesOf(view) == {EntryOf(k, view[k]) : k \in DOMAIN view}

\* f has, but for the entries in rest, the dump of a keyspace, and its header
\* counts all of them.
Dumps(f, rest, view) ==
    /\ IsKeyspace(view)
    /\ f \in [count : {Cardinality(DOMAIN view)}, entries : SUBSET EntriesOf(view),
              sealed : BOOLEAN]
    /\ f.entries \cup rest = EntriesOf(view)

\* What save() has copied still looks like what the clients see: the scan
\* removes only what is expired in both, and time passes for both.
SnapshotView(k) ==
    [type |-> IF k \in DOMAIN snapshot.store THEN "string" ELSE "list",
     val  |-> IF k \in DOMAIN snapshot.store THEN snapshot.store[k] ELSE snapshot.list_store[k],
     left |-> IF k \in DOMAIN snapshot.expiry THEN snapshot.expiry[k] ELSE -1]

SnapshotOK ==
    pc = "copied" =>
        /\ DOMAIN snapshot = {"store", "list_store", "expiry"}
        /\ snapshot.expiry \in [DOMAIN snapshot.expiry -> Nat]
        /\ Unexpired = Live
        /\ \A k \in Live : SnapshotView(k) = View(k)

Writing == {"writing", "checksum", "append", "remove", "rename"}

\* The temporary file and what is left to write make up the keyspace of the
\* instant at which save() read the clock; nothing is left after the flush.
TmpOK ==
    /\ tmp \in File \cup {NoFile}
    /\ pc \in Writing => Dumps(tmp, unwritten, writing)
    /\ pc \in Writing \ {"writing"} => unwritten = {}

\* Whatever dump.mrdb there is holds the whole of the last keyspace saved.
DumpOK == dump # NoFile => Dumps(dump, {}, saved)

\* The database is consistent and finite, and empty before it is loaded.
MapsOK == Inv /\ IsFiniteSet(Present) /\ (pc = "down" => Present = {})

\* The inductive invariant.
PInv ==
    /\ pc \in {"serving", "copied", "down"} \cup Writing
    /\ MapsOK /\ SnapshotOK /\ TmpOK /\ DumpOK

-----------------------------------------------------------------------------
(* Entries and what reading them back gives *)

\* Times are written in whole milliseconds.
LEMMA WholeMs ==
    ASSUME NEW a \in Nat
    PROVE  /\ a \div TicksPerMs \in Nat
           /\ (a \div TicksPerMs) * TicksPerMs = a - (a % TicksPerMs)
           /\ a \div TicksPerMs > 0 <=> a \notin 0 .. TicksPerMs - 1
           /\ a - (a % TicksPerMs) \in Nat
BY PersistenceAssumption

\* The fields of what is seen.
LEMMA SeenFields ==
    ASSUME NEW r \in Seen
    PROVE  /\ r.type \in {"string", "list"}
           /\ r.type = "string" => r.val \in Value
           /\ r.type = "list" => r.val \in Seq(Value) \ {<<>>}
           /\ r.left \in TimeLeft
           /\ r = [type |-> r.type, val |-> r.val, left |-> r.left]
BY DEF Seen

\* Entries differ in their keys, so a field of them is a field by key.
LEMMA FieldByKey ==
    ASSUME NEW view, NEW S, NEW field
    PROVE  FieldOf({EntryOf(k, view[k]) : k \in S}, field) =
               [k \in S |-> EntryOf(k, view[k])[field]]
<1> DEFINE E == {EntryOf(k, view[k]) : k \in S}
<1>1. \A k : EntryOf(k, view[k]).key = k
  BY DEF EntryOf
<1> HIDE DEF E
<1>2. \A k \in S : EntryOf(k, view[k]) \in E
  BY DEF E
<1>3. \A e \in E : e.key \in S /\ e = EntryOf(e.key, view[e.key])
  BY <1>1 DEF E
<1>4. {e.key : e \in E} = S
  BY <1>1, <1>2, <1>3
<1>5. ASSUME NEW k \in S
      PROVE  (CHOOSE e \in E : e.key = k) = EntryOf(k, view[k])
  BY <1>1, <1>2, <1>3
<1>6. FieldOf(E, field) = [k \in S |-> (CHOOSE e \in E : e.key = k)[field]]
  BY <1>4 DEF FieldOf
<1> QED BY <1>5, <1>6 DEF E

\* The keys of a keyspace that have at least a millisecond left.
Lasting(view) == {k \in DOMAIN view : view[k].left \notin 0 .. TicksPerMs - 1}

\* load() skips exactly the entries of the keys that have less left.
LEMMA KeptEntries ==
    ASSUME NEW view, IsKeyspace(view)
    PROVE  Kept(EntriesOf(view)) = {EntryOf(k, view[k]) : k \in Lasting(view)}
<1>1. ASSUME NEW k \in DOMAIN view
      PROVE  (EntryOf(k, view[k]).ttl # Nil => EntryOf(k, view[k]).ttl > 0) <=> k \in Lasting(view)
  <2> DEFINE left == view[k].left
  <2>1. left \in TimeLeft
    BY SeenFields DEF IsKeyspace
  <2> HIDE DEF left
  <2>2. EntryOf(k, view[k]).ttl = IF left = -1 THEN Nil ELSE left \div TicksPerMs
    BY DEF EntryOf, left
  <2>3. k \in Lasting(view) <=> left \notin 0 .. TicksPerMs - 1
    BY DEF Lasting, left
  <2>4. CASE left = -1
    BY <2>2, <2>3, <2>4
  <2>5. CASE left \in Nat
    <3>1. left \div TicksPerMs \in Nat /\ (left \div TicksPerMs > 0 <=> left \notin 0 .. TicksPerMs - 1)
      BY <2>5, WholeMs
    <3>2. left \div TicksPerMs # Nil
      BY <3>1, PersistenceAssumption
    <3> QED BY <2>2, <2>3, <2>5, <3>1, <3>2
  <2> QED BY <2>1, <2>4, <2>5 DEF TimeLeft
<1>2. Lasting(view) \subseteq DOMAIN view
  BY DEF Lasting
<1> HIDE DEF Lasting
<1> QED BY <1>1, <1>2 DEF Kept, EntriesOf

\* The three maps after a load of a whole dump.
LEMMA LoadedMaps ==
    ASSUME NEW view, IsKeyspace(view), load_snapshot(Kept(EntriesOf(view)))
    PROVE  /\ store' = [k \in {x \in Lasting(view) : view[x].type = "string"} |-> view[k].val]
           /\ list_store' = [k \in {x \in Lasting(view) : view[x].type = "list"} |-> view[k].val]
           /\ expiry' = [k \in {x \in Lasting(view) : view[x].left # -1} |->
                            view[k].left - (view[k].left % TicksPerMs)]
<1> DEFINE E == Kept(EntriesOf(view))
           Strings == {x \in Lasting(view) : view[x].type = "string"}
           Lists == {x \in Lasting(view) : view[x].type = "list"}
           Mortals == {x \in Lasting(view) : view[x].left # -1}
<1>1. E = {EntryOf(k, view[k]) : k \in Lasting(view)}
  BY KeptEntries
<1>2. \A k \in Lasting(view) : view[k] \in Seen
  BY DEF Lasting, IsKeyspace
<1> HIDE DEF E
<1>3. {e \in E : e.tag = "string"} = {EntryOf(k, view[k]) : k \in Strings}
  <2>1. \A k : EntryOf(k, view[k]).tag = view[k].type
    BY DEF EntryOf
  <2> QED BY <1>1, <2>1
<1>4. {e \in E : e.tag = "list"} = {EntryOf(k, view[k]) : k \in Lists}
  <2>1. \A k : EntryOf(k, view[k]).tag = view[k].type
    BY DEF EntryOf
  <2> QED BY <1>1, <2>1
<1>5. {e \in E : e.ttl # Nil} = {EntryOf(k, view[k]) : k \in Mortals}
  <2>1. ASSUME NEW k \in Lasting(view)
        PROVE  EntryOf(k, view[k]).ttl # Nil <=> view[k].left # -1
    <3>1. view[k].left \in TimeLeft
      BY <1>2, SeenFields
    <3>2. view[k].left # -1 => view[k].left \div TicksPerMs \in Nat
      BY <3>1, WholeMs DEF TimeLeft
    <3> QED BY <3>2, PersistenceAssumption DEF EntryOf
  <2> QED BY <1>1, <2>1
<1> HIDE DEF Strings, Lists, Mortals
<1>6. store' = [k \in Strings |-> view[k].val]
  <2>1. store' = [k \in Strings |-> EntryOf(k, view[k])["value"]]
    BY <1>3, FieldByKey DEF load_snapshot, E
  <2> QED BY <2>1 DEF EntryOf
<1>7. list_store' = [k \in Lists |-> view[k].val]
  <2>1. list_store' = [k \in Lists |-> EntryOf(k, view[k])["value"]]
    BY <1>4, FieldByKey DEF load_snapshot, E
  <2> QED BY <2>1 DEF EntryOf
<1>8. expiry' = [k \in Mortals |-> view[k].left - (view[k].left % TicksPerMs)]
  <2>1. FieldOf({e \in E : e.ttl # Nil}, "ttl") = [k \in Mortals |-> EntryOf(k, view[k])["ttl"]]
    BY <1>5, FieldByKey
  <2>2. expiry' = [k \in Mortals |-> EntryOf(k, view[k])["ttl"] * TicksPerMs]
    BY <2>1, Zenon DEF load_snapshot, Deadlines, E
  <2>3. ASSUME NEW k \in Mortals
        PROVE  EntryOf(k, view[k])["ttl"] * TicksPerMs = view[k].left - (view[k].left % TicksPerMs)
    <3>1. view[k].left \in Nat
      BY <1>2, SeenFields DEF Mortals, TimeLeft
    <3>2. view[k].left # -1
      BY DEF Mortals
    <3> QED BY <3>1, <3>2, WholeMs DEF EntryOf
  <2> QED BY <2>2, <2>3
<1> QED BY <1>6, <1>7, <1>8 DEF Strings, Lists, Mortals

\* A load of a whole dump gives back the keyspace, less what rounding to
\* milliseconds takes, and consistent maps.
LEMMA LoadGives ==
    ASSUME NEW view, IsKeyspace(view), load_snapshot(Kept(EntriesOf(view)))
    PROVE  LiveView' = Reloaded(view) /\ Inv' /\ Present' \subseteq DOMAIN view
<1> DEFINE L == Lasting(view)
<1>1. L \subseteq DOMAIN view /\ L \subseteq Key
  BY DEF Lasting, IsKeyspace
<1>2. ASSUME NEW k \in L
      PROVE  /\ view[k].type \in {"string", "list"}
             /\ view[k].type = "string" => view[k].val \in Value
             /\ view[k].type = "list" => view[k].val \in Seq(Value) \ {<<>>}
             /\ view[k].left \in Int
             /\ view[k].left # -1 => view[k].left - (view[k].left % TicksPerMs) \in Nat \ {0}
             /\ view[k] = [type |-> view[k].type, val |-> view[k].val, left |-> view[k].left]
  <2>1. view[k] \in Seen
    BY <1>1 DEF IsKeyspace
  <2>2. view[k].left # -1 => view[k].left - (view[k].left % TicksPerMs) \in Nat \ {0}
    <3>1. SUFFICES ASSUME view[k].left # -1
                   PROVE  view[k].left - (view[k].left % TicksPerMs) \in Nat \ {0}
      OBVIOUS
    <3>2. view[k].left \in Nat /\ view[k].left \notin 0 .. TicksPerMs - 1
      BY <2>1, <3>1, SeenFields DEF TimeLeft, Lasting
    <3> QED BY <3>2, PersistenceAssumption
  <2> QED BY <2>1, <2>2, SeenFields DEF TimeLeft
<1>3. /\ store' = [k \in {x \in L : view[x].type = "string"} |-> view[k].val]
      /\ list_store' = [k \in {x \in L : view[x].type = "list"} |-> view[k].val]
      /\ expiry' = [k \in {x \in L : view[x].left # -1} |-> view[k].left - (view[k].left % TicksPerMs)]
  BY LoadedMaps, Zenon
<1> HIDE DEF L
<1>4. Inv'
  BY <1>1, <1>2, <1>3, Zenon DEF Inv, TypeOK, IsMap, OneTypePerKey, NoOrphanDeadline, NoEmptyList, Present
<1>5. Present' = L /\ Live' = L
  <2>1. /\ DOMAIN store' = {x \in L : view[x].type = "string"}
        /\ DOMAIN list_store' = {x \in L : view[x].type = "list"}
    BY <1>3
  <2>2. Present' = L
    BY <1>2, <2>1, Zenon DEF Present
  <2>3. ASSUME NEW k \in DOMAIN expiry'
        PROVE  ~(expiry'[k] <= 0)
    <3>1. k \in L /\ view[k].left # -1 /\ expiry'[k] = view[k].left - (view[k].left % TicksPerMs)
      BY <1>3
    <3>2. expiry'[k] \in Nat \ {0}
      BY <1>2, <3>1, Zenon
    <3> QED BY <3>2
  <2> QED BY <2>2, <2>3 DEF Live, is_expired_unlocked
<1>6. ASSUME NEW k \in L
      PROVE  View(k)' = [view[k] EXCEPT !.left = IF @ < 0 THEN @ ELSE @ - (@ % TicksPerMs)]
  <2>1. view[k].left < 0 <=> view[k].left = -1
    BY <1>1, SeenFields DEF IsKeyspace, TimeLeft
  <2>2. /\ (k \in DOMAIN store') <=> view[k].type = "string"
        /\ (k \in DOMAIN expiry') <=> view[k].left # -1
    BY <1>3
  <2>3. view[k].val = IF k \in DOMAIN store' THEN store'[k] ELSE list_store'[k]
    BY <1>2, <1>3, Zenon
  <2>4. k \in DOMAIN expiry' => expiry'[k] = view[k].left - (view[k].left % TicksPerMs)
    BY <1>3
  <2>5. View(k)' = [type |-> view[k].type, val |-> view[k].val,
                    left |-> IF view[k].left < 0 THEN view[k].left
                             ELSE view[k].left - (view[k].left % TicksPerMs)]
    BY <1>2, <2>1, <2>2, <2>3, <2>4, Zenon DEF View
  <2>6. \A x : [view[k] EXCEPT !.left = x] = [type |-> view[k].type, val |-> view[k].val, left |-> x]
    <3>1. PICK type, val, left : view[k] = [type |-> type, val |-> val, left |-> left]
      BY <1>2, Zenon
    <3> QED BY <3>1
  <2> QED BY <2>5, <2>6
<1>7. LiveView' = [k \in L |-> View(k)']
  BY <1>5 DEF LiveView, View
<1>8. Reloaded(view) =
          [k \in L |-> [view[k] EXCEPT !.left = IF @ < 0 THEN @ ELSE @ - (@ % TicksPerMs)]]
  BY DEF Reloaded, L, Lasting
<1> QED BY <1>1, <1>4, <1>5, <1>6, <1>7, <1>8

-----------------------------------------------------------------------------
(* The invariant, step by step *)

\* What clients see is a keyspace.
LEMMA SeenIsKeyspace ==
    ASSUME Inv, IsFiniteSet(Present)
    PROVE  IsKeyspace(LiveView) /\ DOMAIN LiveView = Live
<1>1. DOMAIN LiveView = Live
  BY DEF LiveView
<1>2. Live \subseteq Key /\ Live \subseteq Present
  BY DEF Live, Present, Inv, TypeOK, IsMap
<1>3. IsFiniteSet(Live)
  BY <1>2, FS_Subset
<1>4. ASSUME NEW k \in Live
      PROVE  LiveView[k] \in Seen
  <2>1. k \in DOMAIN store \/ k \in DOMAIN list_store
    BY DEF Live, Present
  <2>2. k \in DOMAIN store => store[k] \in Value
    BY DEF Inv, TypeOK, IsMap
  <2>3. k \in DOMAIN list_store => list_store[k] \in Seq(Value) \ {<<>>}
    BY DEF Inv, TypeOK, IsMap, NoEmptyList
  <2>4. (IF k \in DOMAIN expiry THEN expiry[k] ELSE -1) \in TimeLeft
    BY DEF Inv, TypeOK, IsMap, Live, is_expired_unlocked, TimeLeft
  <2> QED BY <2>1, <2>2, <2>3, <2>4 DEF LiveView, Seen
<1>5. LiveView \in [Live -> Seen]
  BY <1>4 DEF LiveView
<1> QED BY <1>1, <1>2, <1>3, <1>5 DEF IsKeyspace

\* The maps stay as they are.
LEMMA SameMapsOK ==
    ASSUME MapsOK, UNCHANGED maps, pc' # "down"
    PROVE  MapsOK'
BY DEF MapsOK, maps, Inv, TypeOK, OneTypePerKey, NoOrphanDeadline, NoEmptyList, Present

\* The files and what save() writes stay as they are.
LEMMA SameFilesOK ==
    ASSUME TmpOK, DumpOK, UNCHANGED <<disk, unwritten, history>>,
           pc' \in Writing => pc \in Writing,
           pc' \in Writing \ {"writing"} => pc \in Writing \ {"writing"}
    PROVE  TmpOK' /\ DumpOK'
BY DEF TmpOK, DumpOK, disk, history, Dumps, IsKeyspace, EntriesOf

\* The copy is, at first, what clients see.
LEMMA GetSnapshotInv ==
    ASSUME PInv, get_snapshot
    PROVE  PInv'
<1>1. pc' = "copied" /\ UNCHANGED maps
  BY DEF get_snapshot
<1>2. MapsOK'
  BY <1>1, SameMapsOK DEF PInv
<1>3. TmpOK' /\ DumpOK'
  BY <1>1, SameFilesOK DEF PInv, get_snapshot, Writing
<1>4. SnapshotOK'
  <2>1. snapshot' = [store |-> store, list_store |-> list_store, expiry |-> expiry]
    BY DEF get_snapshot
  <2>2. UNCHANGED <<store, list_store, expiry>>
    BY <1>1 DEF maps
  <2>3. expiry \in [DOMAIN expiry -> Nat]
    BY DEF PInv, MapsOK, Inv, TypeOK, IsMap
  <2>4. Unexpired' = Live'
    BY <2>1, <2>2, <2>3 DEF Unexpired, Live, Present, is_expired_unlocked
  <2>5. \A k : SnapshotView(k)' = View(k)'
    BY <2>1, <2>2 DEF SnapshotView, View
  <2> QED BY <2>1, <2>3, <2>4, <2>5 DEF SnapshotOK
<1> QED BY <1>1, <1>2, <1>3, <1>4 DEF PInv

\* Outside "copied" nothing is claimed of the copy.
LEMMA NoSnapshot ==
    ASSUME pc' # "copied"
    PROVE  SnapshotOK'
BY DEF SnapshotOK

\* The entries of the copy are those of what clients see now.
LEMMA SnapshotEntries ==
    ASSUME MapsOK, SnapshotOK, pc = "copied"
    PROVE  {Entry(k) : k \in Unexpired} = EntriesOf(LiveView)
<1>1. DOMAIN LiveView = Live /\ Unexpired = Live
  BY SeenIsKeyspace DEF MapsOK, SnapshotOK
<1>2. ASSUME NEW k \in Live
      PROVE  Entry(k) = EntryOf(k, LiveView[k])
  <2>1. LiveView[k] = SnapshotView(k)
    BY Viewed DEF SnapshotOK
  <2>2. k \in DOMAIN snapshot.expiry => snapshot.expiry[k] \in Nat
    BY DEF SnapshotOK
  <2>3. /\ SnapshotView(k).type = IF k \in DOMAIN snapshot.store THEN "string" ELSE "list"
        /\ SnapshotView(k).val = IF k \in DOMAIN snapshot.store THEN snapshot.store[k]
                                                                ELSE snapshot.list_store[k]
        /\ SnapshotView(k).left = IF k \in DOMAIN snapshot.expiry THEN snapshot.expiry[k] ELSE -1
    BY DEF SnapshotView
  <2>4. (IF SnapshotView(k).left = -1 THEN Nil ELSE SnapshotView(k).left \div TicksPerMs)
          = IF k \in DOMAIN snapshot.expiry THEN snapshot.expiry[k] \div TicksPerMs ELSE Nil
    BY <2>2, <2>3
  <2> QED BY <2>1, <2>3, <2>4 DEF Entry, EntryOf
<1> QED BY <1>1, <1>2 DEF EntriesOf

\* When the clock is read, the keyspace to write is settled.
LEMMA OpenTmpInv ==
    ASSUME PInv, OpenTmp
    PROVE  PInv'
<1>1. pc = "copied" /\ UNCHANGED <<maps, dump, saved>>
  BY DEF OpenTmp
<1>2. DumpOK'
  BY <1>1 DEF PInv, DumpOK, Dumps, IsKeyspace, EntriesOf
<1>3. CASE EndSave(FALSE) /\ UNCHANGED tmp
  <2>1. pc' = "serving"
    BY <1>3 DEF EndSave
  <2>2. TmpOK'
    BY <1>3, <2>1 DEF PInv, TmpOK, Writing
  <2> QED BY <1>1, <1>2, <2>1, <2>2, SameMapsOK, NoSnapshot DEF PInv
<1>4. CASE /\ tmp' = [count |-> entry_count, entries |-> {}, sealed |-> FALSE]
           /\ unwritten' = {Entry(k) : k \in Unexpired}
           /\ writing' = LiveView
           /\ pc' = "writing"
  <2>1. IsKeyspace(LiveView) /\ DOMAIN LiveView = Live /\ Unexpired = Live
    BY <1>1, SeenIsKeyspace DEF PInv, MapsOK, SnapshotOK
  <2>2. entry_count = Cardinality(DOMAIN LiveView) /\ entry_count \in Nat
    BY <2>1, FS_CardinalityType DEF entry_count, IsKeyspace
  <2>3. unwritten' = EntriesOf(LiveView)
    BY <1>1, <1>4, SnapshotEntries DEF PInv
  <2>4. tmp' \in [count : {Cardinality(DOMAIN LiveView)}, entries : SUBSET EntriesOf(LiveView),
                  sealed : BOOLEAN]
    BY <1>4, <2>2
  <2>5. tmp'.entries = {}
    BY <1>4
  <2>6. Dumps(tmp', unwritten', LiveView)
    BY <2>1, <2>3, <2>4, <2>5 DEF Dumps
  <2>7. Dumps(tmp, unwritten, writing)'
    BY <1>4, <2>6 DEF Dumps, IsKeyspace, EntriesOf
  <2>8. (tmp \in File)'
    BY <1>4, <2>2 DEF File
  <2>9. TmpOK'
    BY <1>4, <2>7, <2>8 DEF TmpOK
  <2> QED BY <1>1, <1>2, <1>4, <2>9, SameMapsOK, NoSnapshot DEF PInv, Writing
<1> QED BY <1>3, <1>4, Zenon DEF OpenTmp

\* The parts of a dump: a file of its type, whole or not.
LEMMA DumpsIsFile ==
    ASSUME NEW f, NEW rest, NEW view, Dumps(f, rest, view)
    PROVE  f \in File
<1>1. IsKeyspace(view) /\ Cardinality(DOMAIN view) \in Nat
  BY FS_CardinalityType DEF Dumps, IsKeyspace
<1>2. ASSUME NEW e \in EntriesOf(view)
      PROVE  e \in FileEntry
  <2>1. PICK k \in DOMAIN view : e = EntryOf(k, view[k])
    BY DEF EntriesOf
  <2>2. k \in Key /\ view[k] \in Seen
    BY <1>1 DEF IsKeyspace
  <2>3. view[k].left # -1 => view[k].left \div TicksPerMs \in Nat
    BY <2>2, SeenFields, WholeMs DEF TimeLeft
  <2> QED BY <2>1, <2>2, <2>3, SeenFields DEF EntryOf, FileEntry
<1> QED BY <1>1, <1>2 DEF Dumps, File

\* An entry goes from what is left to the file.
LEMMA WriteEntryInv ==
    ASSUME PInv, WriteEntry
    PROVE  PInv'
<1>1. /\ pc = "writing" /\ pc' = "writing"
      /\ UNCHANGED <<store, list_store, expiry, dump, writing, saved>>
  BY DEF WriteEntry, vars, history
<1>2. PICK e \in unwritten : tmp' = [tmp EXCEPT !.entries = @ \cup {e}] /\ unwritten' = unwritten \ {e}
  BY Zenon DEF WriteEntry
<1>3. Dumps(tmp, unwritten, writing)
  BY <1>1 DEF PInv, TmpOK, Writing
<1>4. e \in EntriesOf(writing)
  BY <1>2, <1>3 DEF Dumps
<1>5. tmp'.entries = tmp.entries \cup {e}
  BY <1>2, <1>3 DEF Dumps
<1>6. tmp' \in [count : {Cardinality(DOMAIN writing)}, entries : SUBSET EntriesOf(writing),
                sealed : BOOLEAN]
  BY <1>2, <1>3, <1>4 DEF Dumps
<1>7. Dumps(tmp', unwritten', writing)
  BY <1>2, <1>3, <1>5, <1>6 DEF Dumps
<1>8. Dumps(tmp, unwritten, writing)' /\ (tmp \in File)'
  <2>1. Dumps(tmp, unwritten, writing)'
    BY <1>1, <1>7 DEF Dumps, IsKeyspace, EntriesOf
  <2>2. tmp' \in File
    BY <1>7, DumpsIsFile
  <2> QED BY <2>1, <2>2
<1>9. MapsOK'
  BY <1>1, SameMapsOK DEF PInv, maps
<1>10. DumpOK'
  BY <1>1 DEF PInv, DumpOK, Dumps, IsKeyspace, EntriesOf
<1> QED BY <1>1, <1>8, <1>9, <1>10, NoSnapshot DEF PInv, TmpOK, Writing

\* A save() that gives up removes its file and leaves dump.mrdb alone.
LEMMA AbandonTmpInv ==
    ASSUME PInv, AbandonTmp
    PROVE  PInv'
<1>1. pc' = "serving" /\ tmp' = Nil /\ UNCHANGED <<maps, dump, saved>>
  BY DEF AbandonTmp, EndSave, NoFile
<1>2. MapsOK'
  BY <1>1, SameMapsOK DEF PInv
<1>3. TmpOK'
  BY <1>1 DEF TmpOK, NoFile, Writing
<1>4. DumpOK'
  BY <1>1 DEF PInv, DumpOK, Dumps, IsKeyspace, EntriesOf
<1> QED BY <1>1, <1>2, <1>3, <1>4, NoSnapshot DEF PInv

\* The flush finds nothing left to write.
LEMMA FlushInv ==
    ASSUME PInv, Flush \/ Reopen
    PROVE  PInv'
<1>1. /\ pc \in Writing /\ pc' \in Writing \ {"writing"} /\ unwritten' = {}
      /\ UNCHANGED <<maps, tmp, dump, unwritten, writing, saved>>
  BY DEF PInv, TmpOK, Flush, Reopen, vars, maps, disk, history, Writing
<1>2. pc' # "down" /\ pc' # "copied"
  BY <1>1 DEF Writing
<1>3. MapsOK'
  BY <1>1, <1>2, SameMapsOK DEF PInv
<1>4. TmpOK' /\ DumpOK'
  BY <1>1 DEF PInv, TmpOK, DumpOK, Dumps, IsKeyspace, EntriesOf
<1> QED BY <1>1, <1>2, <1>3, <1>4, NoSnapshot DEF PInv

\* The checksum is the last thing written, or it is not written.
LEMMA AppendCrcInv ==
    ASSUME PInv, AppendCrc
    PROVE  PInv'
<1>1. /\ pc = "append" /\ pc' = "remove" /\ unwritten = {}
      /\ UNCHANGED <<maps, dump, unwritten, writing, saved>>
  BY DEF PInv, TmpOK, AppendCrc, vars, maps, history, Writing
<1>2. tmp' = [tmp EXCEPT !.sealed = TRUE] \/ tmp' = tmp
  BY DEF AppendCrc
<1>3. Dumps(tmp, {}, writing)
  BY <1>1 DEF PInv, TmpOK, Writing
<1>4. /\ tmp' \in [count : {Cardinality(DOMAIN writing)}, entries : SUBSET EntriesOf(writing),
                   sealed : BOOLEAN]
      /\ tmp'.entries = tmp.entries
  BY <1>2, <1>3, Zenon DEF Dumps
<1>5. Dumps(tmp', {}, writing)
  BY <1>3, <1>4 DEF Dumps
<1>6. tmp' \in File
  BY <1>5, DumpsIsFile
<1>7. TmpOK'
  BY <1>1, <1>5, <1>6 DEF TmpOK, Dumps, IsKeyspace, EntriesOf
<1>8. MapsOK'
  BY <1>1, SameMapsOK DEF PInv
<1>9. DumpOK'
  BY <1>1 DEF PInv, DumpOK, Dumps, IsKeyspace, EntriesOf
<1> QED BY <1>1, <1>7, <1>8, <1>9, NoSnapshot DEF PInv, Writing

\* The old dump is removed.
LEMMA RemoveDumpInv ==
    ASSUME PInv, RemoveDump
    PROVE  PInv'
<1>1. /\ pc = "remove" /\ pc' = "rename" /\ dump' = Nil
      /\ UNCHANGED <<maps, tmp, unwritten, writing, saved>>
  BY DEF RemoveDump, vars, maps, history, NoFile
<1>2. MapsOK'
  BY <1>1, SameMapsOK DEF PInv
<1>3. TmpOK'
  BY <1>1 DEF PInv, TmpOK, Dumps, IsKeyspace, EntriesOf, Writing
<1>4. DumpOK'
  BY <1>1 DEF DumpOK, NoFile
<1> QED BY <1>1, <1>2, <1>3, <1>4, NoSnapshot DEF PInv, Writing

\* The file that becomes dump.mrdb is whole.
LEMMA RenameTmpInv ==
    ASSUME PInv, RenameTmp
    PROVE  PInv'
<1>1. pc = "rename" /\ pc' = "serving" /\ tmp' = Nil /\ UNCHANGED maps
  BY Zenon DEF RenameTmp, EndSave, NoFile
<1>2. MapsOK'
  BY <1>1, SameMapsOK DEF PInv
<1>3. TmpOK'
  BY <1>1 DEF TmpOK, NoFile, Writing
<1>4. Dumps(tmp, {}, writing)
  BY <1>1 DEF PInv, TmpOK, Writing
<1>5. DumpOK'
  <2>1. CASE dump' = tmp /\ saved' = writing
    BY <1>4, <2>1 DEF DumpOK, Dumps, IsKeyspace, EntriesOf
  <2>2. CASE UNCHANGED <<dump, saved>>
    BY <2>2 DEF PInv, DumpOK, Dumps, IsKeyspace, EntriesOf
  <2> QED BY <2>1, <2>2, Zenon DEF RenameTmp
<1> QED BY <1>1, <1>2, <1>3, <1>5, NoSnapshot DEF PInv

\* A crash leaves the files as they are and empties the database.
LEMMA CrashInv ==
    ASSUME PInv, Crash
    PROVE  PInv'
<1>1. pc' = "down" /\ UNCHANGED <<tmp, dump, saved>>
  BY DEF Crash, disk
<1>2. /\ store' = <<>> /\ list_store' = <<>> /\ expiry' = <<>>
  BY DEF Crash
<1>3. Present' = {}
  BY <1>2 DEF Present
<1>4. Inv'
  BY <1>2 DEF Inv, TypeOK, IsMap, OneTypePerKey, NoOrphanDeadline, NoEmptyList, Present
<1>5. MapsOK'
  BY <1>3, <1>4, FS_EmptySet DEF MapsOK
<1>6. TmpOK' /\ DumpOK'
  BY <1>1 DEF PInv, TmpOK, DumpOK, Dumps, IsKeyspace, EntriesOf, Writing
<1> QED BY <1>1, <1>5, <1>6, NoSnapshot DEF PInv

\* load() reads all entries of the file, since there are no more of them than
\* the header counts.
LEMMA LoadReadsAll ==
    ASSUME DumpOK, Loadable(dump),
           NEW entries \in SUBSET dump.entries, Cardinality(entries) = dump.count
    PROVE  IsKeyspace(saved) /\ entries = EntriesOf(saved)
<1> DEFINE E == EntriesOf(saved)
           f == [k \in DOMAIN saved |-> EntryOf(k, saved[k])]
<1>1. IsKeyspace(saved) /\ dump.entries = E /\ dump.count = Cardinality(DOMAIN saved)
  BY DEF DumpOK, Loadable, Dumps
<1>2. f \in Surjection(DOMAIN saved, E)
  BY DEF Surjection, EntriesOf
<1>3. IsFiniteSet(E) /\ Cardinality(E) <= Cardinality(DOMAIN saved)
  BY <1>1, <1>2, FS_Surjection DEF IsKeyspace
<1> HIDE DEF E
<1>4. Cardinality(E) \in Nat /\ Cardinality(DOMAIN saved) \in Nat
  BY <1>1, <1>3, FS_CardinalityType DEF IsKeyspace
<1>5. Cardinality(DOMAIN saved) <= Cardinality(E)
  BY <1>1 DEF Loadable
<1>6. Cardinality(entries) = Cardinality(E)
  BY <1>1, <1>3, <1>4, <1>5
<1>7. entries = E
  BY <1>1, <1>3, <1>6, FS_Subset
<1> QED BY <1>1, <1>7 DEF E

\* A load gives the keyspace of the last save, or nothing.
LEMMA LoadRestores ==
    ASSUME PInv, load
    PROVE  /\ \/ reply' = <<"load", TRUE>> /\ LiveView' = Reloaded(saved)
              \/ reply' = <<"load", FALSE>> /\ Present' = {}
           /\ Inv' /\ IsFiniteSet(Present)'
<1>1. CASE /\ Loadable(dump)
           /\ \E entries \in SUBSET dump.entries :
                 Cardinality(entries) = dump.count /\ load_snapshot(Kept(entries))
           /\ Returns("load", TRUE)
  <2>1. PICK entries \in SUBSET dump.entries :
                 Cardinality(entries) = dump.count /\ load_snapshot(Kept(entries))
    BY <1>1
  <2>2. IsKeyspace(saved) /\ entries = EntriesOf(saved)
    BY <1>1, <2>1, LoadReadsAll DEF PInv
  <2>3. load_snapshot(Kept(EntriesOf(saved)))
    BY <2>1, <2>2
  <2>4. LiveView' = Reloaded(saved) /\ Inv' /\ Present' \subseteq DOMAIN saved
    BY <2>2, <2>3, LoadGives
  <2>5. IsFiniteSet(Present')
    BY <2>2, <2>4, FS_Subset DEF IsKeyspace
  <2>6. reply' = <<"load", TRUE>>
    BY <1>1 DEF Returns
  <2> QED BY <2>4, <2>5, <2>6
<1>2. CASE ~Loadable(dump) /\ Returns("load", FALSE) /\ UNCHANGED maps
  <2>1. Present' = {} /\ Inv'
    BY <1>2 DEF PInv, MapsOK, load, maps, Present, Inv, TypeOK, OneTypePerKey,
                NoOrphanDeadline, NoEmptyList
  <2>2. reply' = <<"load", FALSE>>
    BY <1>2 DEF Returns
  <2> QED BY <2>1, <2>2, FS_EmptySet
<1> QED BY <1>1, <1>2, Zenon DEF load

\* The load at startup fills the maps from whatever file is there.
LEMMA LoadInv ==
    ASSUME PInv, load
    PROVE  PInv'
<1>1. pc' = "serving" /\ UNCHANGED <<tmp, dump, saved>>
  BY DEF load, disk, history
<1>2. MapsOK'
  BY <1>1, LoadRestores DEF MapsOK
<1>3. TmpOK' /\ DumpOK'
  BY <1>1 DEF PInv, TmpOK, DumpOK, Dumps, IsKeyspace, EntriesOf, Writing
<1> QED BY <1>1, <1>2, <1>3, NoSnapshot DEF PInv

\* Steps of the database leave save() and the files alone.
LEMMA ClientOpInv ==
    ASSUME PInv, ClientOp
    PROVE  PInv'
<1>1. pc = "serving" /\ pc' = "serving" /\ UNCHANGED <<unwritten, disk, history>>
  BY DEF ClientOp
<1>2. CASE flushdb
  <2>1. Inv'
    BY <1>2, KeyspaceOpInv DEF KeyspaceOp, PInv, MapsOK
  <2>2. Present' = {}
    BY <1>2 DEF flushdb, Present
  <2> QED BY <1>1, <2>1, <2>2, SameFilesOK, NoSnapshot, FS_EmptySet DEF PInv, MapsOK
<1>3. ASSUME NEW k \in Key,
             \/ \E v \in Value : set(k, v)
             \/ \E b \in Batches : rpush(k, b)
             \/ \E s \in Seconds : expire(k, s)
      PROVE  PInv'
  <2>1. Inv'
    <3>1. \/ \E v \in Value : set(k, v)
          \/ ListOp(k)
          \/ TtlOp(k)
      BY <1>3 DEF ListOp, TtlOp
    <3> QED BY <3>1, SetInv, ListOpInv, TtlOpInv DEF PInv, MapsOK
  <2>2. Present' \subseteq Present \cup {k}
    BY <1>3, Zenon DEF set, rpush, Push, expire, remove_expired_unlocked, Put, Erase, Restrict, Present, maps
  <2>3. IsFiniteSet(Present \cup {k})
    BY FS_AddElement DEF PInv, MapsOK
  <2>4. IsFiniteSet(Present')
    BY <2>2, <2>3, FS_Subset
  <2> QED BY <1>1, <2>1, <2>4, SameFilesOK, NoSnapshot DEF PInv, MapsOK
<1> QED BY <1>2, <1>3 DEF ClientOp

\* The copy keeps looking like what clients see when that does not change.
LEMMA SameSnapshotOK ==
    ASSUME SnapshotOK, LiveView' = LiveView, UNCHANGED <<pc, snapshot>>
    PROVE  SnapshotOK'
<1>1. Live' = Live
  BY DEF LiveView
<1>2. \A k \in Live : View(k)' = View(k)
  BY <1>1, Zenon DEF LiveView, View
<1> QED BY <1>1, <1>2 DEF SnapshotOK, Unexpired, SnapshotView

\* The background scan, at any point of save(), removes nothing that is seen.
LEMMA BackgroundScanInv ==
    ASSUME PInv, BackgroundScan
    PROVE  PInv'
<1>1. PICK sample \in SUBSET DOMAIN expiry : expiry_scan(sample)
  BY DEF BackgroundScan
<1> DEFINE S == {k \in sample : expiry[k] <= 0}
<1>2. remove_expired_unlocked(S) /\ S \cap Live = {}
  BY <1>1 DEF expiry_scan, Live, is_expired_unlocked
<1>3. UNCHANGED <<pc, snapshot, unwritten, disk, history>> /\ pc # "down"
  BY DEF BackgroundScan
<1> HIDE DEF S
<1>4. LiveView' = LiveView
  BY <1>2, RemoveUnseen DEF PInv, MapsOK
<1>5. SnapshotOK'
  BY <1>3, <1>4, SameSnapshotOK DEF PInv
<1>6. Inv'
  BY <1>2, RemoveInv DEF PInv, MapsOK
<1>7. Present' \subseteq Present
  BY <1>2 DEF remove_expired_unlocked, Erase, Restrict, Present
<1>8. MapsOK'
  BY <1>3, <1>6, <1>7, FS_Subset DEF PInv, MapsOK
<1>9. TmpOK' /\ DumpOK'
  BY <1>3, SameFilesOK DEF PInv
<1> QED BY <1>3, <1>5, <1>8, <1>9 DEF PInv

\* Time passes for the database and for the copy alike.
LEMMA PTickInv ==
    ASSUME PInv, PTick
    PROVE  PInv'
<1>1. UNCHANGED <<pc, unwritten, disk, history>> /\ Tick
  BY DEF PTick
<1>2. Inv'
  BY <1>1, NextInv DEF Next, PInv, MapsOK
<1>3. Present' = Present
  BY <1>1 DEF Tick, Present
<1>4. MapsOK'
  BY <1>1, <1>2, <1>3 DEF PInv, MapsOK
<1>5. TmpOK' /\ DumpOK'
  BY <1>1, SameFilesOK DEF PInv
<1>6. SnapshotOK'
  <2> SUFFICES ASSUME pc = "copied"
               PROVE  SnapshotOK'
    BY <1>1 DEF SnapshotOK
  <2> DEFINE e == snapshot.expiry
             Less(x) == IF x > 0 THEN x - 1 ELSE 0
  <2>1. /\ DOMAIN snapshot = {"store", "list_store", "expiry"}
        /\ e \in [DOMAIN e -> Nat]
        /\ Unexpired = Live
        /\ \A k \in Live : SnapshotView(k) = View(k)
    BY DEF PInv, SnapshotOK
  <2>2. /\ DOMAIN snapshot' = {"store", "list_store", "expiry"}
        /\ snapshot'.store = snapshot.store
        /\ snapshot'.list_store = snapshot.list_store
        /\ snapshot'.expiry = [k \in DOMAIN e |-> Less(e[k])]
    BY <2>1 DEF PTick
  <2>3. expiry' = [k \in DOMAIN expiry |-> Less(expiry[k])]
    <3>1. \A k \in DOMAIN expiry : expiry[k] \in Nat
      BY DEF PInv, MapsOK, Inv, TypeOK, IsMap
    <3> QED BY <1>1, <3>1 DEF Tick, Elapse
  <2>4. UNCHANGED <<store, list_store>>
    BY <1>1 DEF Tick
  <2>5. snapshot'.expiry \in [DOMAIN snapshot'.expiry -> Nat]
    BY <2>1, <2>2
  <2>6. Unexpired' = {k \in Unexpired : k \in DOMAIN e => e[k] > 1}
    BY <2>1, <2>2 DEF Unexpired
  <2>7. Live' = {k \in Live : k \in DOMAIN expiry => expiry[k] > 1}
    <3>1. \A k \in DOMAIN expiry : expiry[k] \in Nat
      BY DEF PInv, MapsOK, Inv, TypeOK, IsMap
    <3> QED BY <2>3, <2>4, <3>1 DEF Live, Present, is_expired_unlocked
  <2>8. ASSUME NEW k \in Live
        PROVE  /\ k \in DOMAIN e <=> k \in DOMAIN expiry
               /\ k \in DOMAIN e => e[k] = expiry[k]
               /\ SnapshotView(k)' = View(k)'
    <3>1. /\ SnapshotView(k).type = View(k).type
          /\ SnapshotView(k).val = View(k).val
          /\ SnapshotView(k).left = View(k).left
      BY <2>1
    <3>2. /\ k \in DOMAIN e => e[k] \in Nat
          /\ k \in DOMAIN expiry => expiry[k] \in Nat
      BY <2>1 DEF PInv, MapsOK, Inv, TypeOK, IsMap
    <3>3. (IF k \in DOMAIN e THEN e[k] ELSE -1) = (IF k \in DOMAIN expiry THEN expiry[k] ELSE -1)
      BY <3>1 DEF SnapshotView, View
    <3>4. /\ k \in DOMAIN e <=> k \in DOMAIN expiry
          /\ k \in DOMAIN e => e[k] = expiry[k]
      BY <3>2, <3>3
    <3>5. SnapshotView(k)'.left = View(k)'.left
      BY <2>2, <2>3, <3>4 DEF SnapshotView, View
    <3>6. SnapshotView(k)'.type = View(k)'.type /\ SnapshotView(k)'.val = View(k)'.val
      BY <2>2, <2>4, <3>1 DEF SnapshotView, View
    <3>7. SnapshotView(k)' = View(k)'
      BY <3>5, <3>6, Zenon DEF SnapshotView, View
    <3> QED BY <3>4, <3>7
  <2>9. Unexpired' = Live' /\ Live' \subseteq Live
    BY <2>1, <2>6, <2>7, <2>8
  <2> QED BY <2>2, <2>5, <2>8, <2>9 DEF SnapshotOK
<1> QED BY <1>1, <1>4, <1>5, <1>6 DEF PInv

-----------------------------------------------------------------------------
(* Theorems *)

\* The inductive invariant holds in every reachable state.
LEMMA PInvHolds == PSpec => []PInv
<1>1. PInit => PInv
  <2> SUFFICES ASSUME PInit PROVE PInv
    OBVIOUS
  <2>1. Present = {} /\ Inv
    BY DEF PInit, Init, Present, Inv, TypeOK, IsMap, OneTypePerKey, NoOrphanDeadline, NoEmptyList
  <2> QED BY <2>1, FS_EmptySet
       DEF PInit, PInv, MapsOK, SnapshotOK, TmpOK, DumpOK, Writing
<1>2. PInv /\ [PNext]_pvars => PInv'
  <2> SUFFICES ASSUME PInv, [PNext]_pvars PROVE PInv'
    OBVIOUS
  <2>1. CASE get_snapshot
    BY <2>1, GetSnapshotInv
  <2>2. CASE save
    BY <2>2, OpenTmpInv, WriteEntryInv, AbandonTmpInv, FlushInv, AppendCrcInv, RemoveDumpInv,
       RenameTmpInv DEF save
  <2>3. CASE Crash \/ load
    BY <2>3, CrashInv, LoadInv
  <2>4. CASE ClientOp \/ BackgroundScan \/ PTick
    BY <2>4, ClientOpInv, BackgroundScanInv, PTickInv
  <2>5. CASE UNCHANGED pvars
    <3>1. UNCHANGED maps /\ UNCHANGED <<pc, snapshot, unwritten, disk, history>>
      BY <2>5 DEF pvars, vars, maps
    <3>2. LiveView' = LiveView /\ Inv' /\ Present' = Present
      BY <3>1 DEF PInv, MapsOK, maps, LiveView, Live, Present, is_expired_unlocked, Inv, TypeOK,
                  OneTypePerKey, NoOrphanDeadline, NoEmptyList
    <3>3. MapsOK'
      BY <3>1, <3>2 DEF PInv, MapsOK
    <3> QED BY <3>1, <3>2, <3>3, SameSnapshotOK, SameFilesOK DEF PInv
  <2> QED BY <2>1, <2>2, <2>3, <2>4, <2>5 DEF PNext
<1> QED BY <1>1, <1>2, PTL DEF PSpec

\* Files and maps stay of their types through saves, failures, crashes and loads.
THEOREM FilesAndMapsTyped == PSpec => []PTypeOK
<1>1. PInv => PTypeOK
  <2> SUFFICES ASSUME PInv PROVE PTypeOK
    OBVIOUS
  <2>1. dump \in File \cup {NoFile}
    BY DumpsIsFile DEF PInv, DumpOK
  <2> QED BY <2>1 DEF PInv, PTypeOK, MapsOK, Inv, TmpOK, Writing
<1> QED BY <1>1, PInvHolds, PTL

\* The maps stay consistent also where a load fills them.
THEOREM MapsConsistentAcrossRestarts == PSpec => []Inv
<1>1. PInv => Inv
  BY DEF PInv, MapsOK
<1> QED BY <1>1, PInvHolds, PTL

\* Whatever fails or crashes in whatever save, a load gives back the keyspace
\* of one instant of the last save that replaced dump.mrdb, or nothing.
THEOREM LoadGivesLastSave == PSpec => LoadRestoresSaved
<1>1. PInv /\ [PNext]_pvars =>
          [pc = "down" /\ pc' = "serving" =>
              \/ reply' = <<"load", TRUE>> /\ LiveView' = Reloaded(saved)
              \/ reply' = <<"load", FALSE>> /\ Present' = {}]_pvars
  <2> SUFFICES ASSUME PInv, [PNext]_pvars, pc = "down", pc' = "serving"
               PROVE  \/ reply' = <<"load", TRUE>> /\ LiveView' = Reloaded(saved)
                      \/ reply' = <<"load", FALSE>> /\ Present' = {}
    BY Zenon
  <2>1. load
    BY DEF PNext, pvars, get_snapshot, save, OpenTmp, WriteEntry, AbandonTmp, Flush, Reopen,
           AppendCrc, RemoveDump, RenameTmp, Crash, ClientOp, BackgroundScan, PTick
  <2> QED BY <2>1, LoadRestores, Zenon
<1> QED BY <1>1, PInvHolds, PTL DEF PSpec, LoadRestoresSaved

-----------------------------------------------------------------------------
(* When the dump survives, and when it goes *)

\* A whole dump has as many entries as its header counts.
LEMMA AllEntriesCounted ==
    ASSUME NEW view, IsKeyspace(view)
    PROVE  Cardinality(EntriesOf(view)) = Cardinality(DOMAIN view)
<1> DEFINE f == [k \in DOMAIN view |-> EntryOf(k, view[k])]
<1>1. f \in Surjection(DOMAIN view, EntriesOf(view))
  BY DEF Surjection, EntriesOf
<1>2. \A k \in DOMAIN view : f[k].key = k
  BY DEF EntryOf
<1> HIDE DEF f
<1>3. f \in Bijection(DOMAIN view, EntriesOf(view))
  BY <1>1, <1>2 DEF Bijection, Injection, IsInjective, Surjection
<1>4. ExistsBijection(DOMAIN view, EntriesOf(view))
  BY <1>3 DEF ExistsBijection
<1> QED BY <1>4, FS_Bijection DEF IsKeyspace

\* A file that dumps a keyspace has all of its keys.
LEMMA DumpHasAll ==
    ASSUME NEW f, NEW view, Dumps(f, {}, view)
    PROVE  HasAll(f, view)
<1>1. f.entries = EntriesOf(view) /\ f.count = Cardinality(DOMAIN view) /\ IsKeyspace(view)
  BY DEF Dumps
<1>2. {e.key : e \in EntriesOf(view)} = DOMAIN view
  <2>1. \A k \in DOMAIN view : EntryOf(k, view[k]).key = k
    BY DEF EntryOf
  <2> QED BY <2>1 DEF EntriesOf
<1> QED BY <1>1, <1>2, AllEntriesCounted DEF HasAll

\* Between the remove and the rename there is no dump.mrdb.
NoDumpAtRename == pc = "rename" => dump = NoFile

\* Only save() comes to the rename, through the remove.
LEMMA NoDumpNext == PInv /\ NoDumpAtRename /\ [PNext]_pvars => NoDumpAtRename'
<1> SUFFICES ASSUME NoDumpAtRename, [PNext]_pvars PROVE NoDumpAtRename'
  OBVIOUS
<1>1. CASE RemoveDump
  BY <1>1 DEF RemoveDump, NoDumpAtRename
<1>2. CASE OpenTmp \/ AbandonTmp \/ RenameTmp
  <2>1. pc' # "rename"
    BY <1>2, Zenon DEF OpenTmp, AbandonTmp, RenameTmp, EndSave
  <2> QED BY <2>1 DEF NoDumpAtRename
<1>3. CASE WriteEntry \/ Flush \/ Reopen \/ AppendCrc
  BY <1>3 DEF WriteEntry, Flush, Reopen, AppendCrc, NoDumpAtRename, disk
<1>4. CASE get_snapshot \/ load \/ ClientOp \/ Crash
  <2>1. pc' # "rename"
    BY <1>4, Zenon DEF get_snapshot, load, ClientOp, Crash
  <2> QED BY <2>1 DEF NoDumpAtRename
<1>5. CASE BackgroundScan \/ PTick \/ UNCHANGED pvars
  BY <1>5 DEF BackgroundScan, PTick, pvars, NoDumpAtRename, disk
<1> QED BY <1>1, <1>2, <1>3, <1>4, <1>5 DEF PNext, save

\* save() removes a loadable dump.mrdb only once the temporary file has every
\* key that it saves; no other step, fault or crash takes the dump away.
THEOREM OldDumpKeptUntilNewIsWhole == PSpec => OldDumpGoesLast
<1>1. PInit => NoDumpAtRename
  BY DEF PInit, NoDumpAtRename
<1>2. PInv /\ NoDumpAtRename /\ [PNext]_pvars =>
          [Loadable(dump) /\ ~Loadable(dump)' => pc = "remove" /\ HasAll(tmp, writing)]_pvars
  <2> SUFFICES ASSUME PInv, NoDumpAtRename, PNext, Loadable(dump), ~Loadable(dump)'
               PROVE  pc = "remove" /\ HasAll(tmp, writing)
    OBVIOUS
  <2>1. dump' # dump
    BY DEF Loadable
  <2>2. ~RenameTmp
    BY Zenon DEF RenameTmp, NoDumpAtRename, Loadable
  <2>3. ~(OpenTmp \/ AbandonTmp \/ WriteEntry \/ Flush \/ Reopen \/ AppendCrc)
    BY <2>1, Zenon DEF OpenTmp, AbandonTmp, WriteEntry, Flush, Reopen, AppendCrc, disk
  <2>4. ~(get_snapshot \/ load \/ ClientOp \/ Crash \/ BackgroundScan \/ PTick)
    BY <2>1, Zenon DEF get_snapshot, load, ClientOp, Crash, BackgroundScan, PTick, disk
  <2>5. RemoveDump
    BY <2>2, <2>3, <2>4 DEF PNext, save
  <2>6. pc = "remove" /\ Dumps(tmp, {}, writing)
    BY <2>5 DEF RemoveDump, PInv, TmpOK, Writing
  <2> QED BY <2>6, DumpHasAll
<1> QED BY <1>1, <1>2, PInvHolds, NoDumpNext, PTL DEF PSpec, OldDumpGoesLast

\* The checksum is on every file that save() puts in the place of dump.mrdb,
\* and a dump once saved is only missing between the remove and the rename.
SealedInv ==
    /\ pc \in {"remove", "rename"} => tmp.sealed
    /\ saved # NoKeyspace /\ pc # "rename" => dump # NoFile /\ dump.sealed

\* The induction step for the sealed dump, without the faults of the rename.
LEMMA SealedNext ==
    ASSUME Faults \subseteq {"open", "write", "reopen", "crash"},
           PInv, SealedInv, [PNext]_pvars, ~(pc = "rename" /\ pc' = "down")
    PROVE  SealedInv'
<1>1. CASE AppendCrc
  <2>1. tmp \in File /\ tmp' = [tmp EXCEPT !.sealed = TRUE]
    BY <1>1, DumpsIsFile DEF AppendCrc, PInv, TmpOK, Writing
  <2>2. tmp'.sealed
    BY <2>1 DEF File
  <2> QED BY <1>1, <2>2 DEF AppendCrc, SealedInv, history
<1>2. CASE RenameTmp
  <2>1. tmp # NoFile
    BY <1>2, DumpsIsFile, PersistenceAssumption DEF RenameTmp, PInv, TmpOK, Writing
  <2>2. dump' = tmp /\ pc' = "serving"
    BY <1>2, Zenon DEF RenameTmp, EndSave
  <2> QED BY <1>2, <2>1, <2>2 DEF RenameTmp, SealedInv
<1>3. CASE Crash
  BY <1>3 DEF Crash, SealedInv, disk
<1>4. CASE RemoveDump
  BY <1>4 DEF RemoveDump, SealedInv, history
<1>5. CASE OpenTmp \/ AbandonTmp
  BY <1>5, Zenon DEF OpenTmp, AbandonTmp, EndSave, SealedInv
<1>6. CASE WriteEntry \/ Flush \/ Reopen
  BY <1>6 DEF WriteEntry, Flush, Reopen, SealedInv, disk, history
<1>7. CASE get_snapshot \/ load \/ ClientOp
  BY <1>7, Zenon DEF get_snapshot, load, ClientOp, SealedInv, disk, history
<1>8. CASE BackgroundScan \/ PTick \/ UNCHANGED pvars
  BY <1>8 DEF BackgroundScan, PTick, pvars, SealedInv, disk, history
<1> QED BY <1>1, <1>2, <1>3, <1>4, <1>5, <1>6, <1>7, <1>8 DEF PNext, save

\* A saved dump is lost only if the CRC is not written, the rename fails, or
\* the process dies between std::filesystem::remove and the rename: with files
\* that cannot be opened, written or reopened, and with crashes anywhere else,
\* it stays loadable.
THEOREM DumpLostOnlyAtRename ==
    ASSUME Faults \subseteq {"open", "write", "reopen", "crash"}
    PROVE  PSpec /\ [][~(pc = "rename" /\ pc' = "down")]_pvars => []DumpSurvives
<1>1. PInit => SealedInv
  BY DEF PInit, SealedInv
<1>2. PInv /\ SealedInv /\ [PNext]_pvars /\ [~(pc = "rename" /\ pc' = "down")]_pvars => SealedInv'
  <2>1. pvars' = pvars => pc' = pc
    BY DEF pvars
  <2> QED BY <2>1, SealedNext
<1>3. PInv /\ SealedInv => DumpSurvives
  <2> SUFFICES ASSUME PInv, SealedInv, saved # NoKeyspace, pc # "rename"
               PROVE  Loadable(dump)
    BY DEF DumpSurvives
  <2>1. dump # NoFile /\ dump.sealed /\ Dumps(dump, {}, saved)
    BY DEF SealedInv, PInv, DumpOK
  <2>2. dump.count = Cardinality(dump.entries) /\ dump.count \in Nat
    BY <2>1, AllEntriesCounted, FS_CardinalityType DEF Dumps, IsKeyspace
  <2> QED BY <2>1, <2>2 DEF Loadable
<1> QED BY <1>1, <1>2, <1>3, PInvHolds, PTL DEF PSpec

-----------------------------------------------------------------------------
(* Database implements Keyspace: each operation on the three maps is the   *)
(* operation of the same name on the one map of live keys, with the same   *)
(* answer, and removing expired keys is not seen.  The invariant of        *)
(* DatabaseProofs is what makes it true: a key in both maps would have two *)
(* values, and an orphan deadline would give a new list a TTL.             *)

-----------------------------------------------------------------------------
(* Ranges of a list *)

\* The larger of two numbers, as the library defines Max.
LEMMA MaxOfTwo ==
    ASSUME NEW a \in Int, NEW b \in Int
    PROVE  Max({a, b}) = IF a >= b THEN a ELSE b
<1> DEFINE m == IF a >= b THEN a ELSE b
<1>1. m \in {a, b} /\ \A y \in {a, b} : m >= y
  OBVIOUS
<1>2. \A x \in {a, b} : (\A y \in {a, b} : x >= y) => x = m
  OBVIOUS
<1> QED BY <1>1, <1>2 DEF Max

\* The smaller of two numbers, as the library defines Min.
LEMMA MinOfTwo ==
    ASSUME NEW a \in Int, NEW b \in Int
    PROVE  Min({a, b}) = IF a <= b THEN a ELSE b
<1> DEFINE m == IF a <= b THEN a ELSE b
<1>1. m \in {a, b} /\ \A y \in {a, b} : m <= y
  OBVIOUS
<1>2. \A x \in {a, b} : (\A y \in {a, b} : x <= y) => x = m
  OBVIOUS
<1> QED BY <1>1, <1>2 DEF Min

\* The clamped zero-based range of LRANGE is the subsequence between its two
\* one-based positions, whatever the indices.
LEMMA SliceIsSubSeq ==
    ASSUME NEW L \in Seq(Value), NEW i \in Int, NEW j \in Int
    PROVE  Slice(L, i, j) =
               SubSeq(L, Max({1, Normalize(i, Len(L)) + 1}), Min({Len(L), Normalize(j, Len(L)) + 1}))
<1> DEFINE len == Len(L)
           ni  == Normalize(i, len)
           nj  == Normalize(j, len)
           a   == IF 1 >= ni + 1 THEN 1 ELSE ni + 1
           b   == IF len <= nj + 1 THEN len ELSE nj + 1
           first == IF ni < 0 THEN 0 ELSE ni
           last  == IF nj >= len THEN len - 1 ELSE nj
<1>1. len \in Nat /\ ni \in Int /\ nj \in Int
  BY DEF Normalize
<1>2. Max({1, ni + 1}) = a /\ Min({len, nj + 1}) = b
  BY <1>1, MaxOfTwo, MinOfTwo
<1>3. Slice(L, i, j) = IF first > last \/ first >= len THEN <<>>
                       ELSE [n \in 1 .. last - first + 1 |-> L[first + n]]
  BY DEF Slice
<1> HIDE DEF ni, nj
<1>4. a = first + 1 /\ b = last + 1 /\ b <= len /\ a >= 1 /\ first \in Int /\ last \in Int
  BY <1>1
<1>5. CASE first > last \/ first >= len
  <2>1. a > b
    BY <1>1, <1>4, <1>5
  <2>2. SubSeq(L, a, b) = <<>>
    BY <1>4, <2>1
  <2> QED BY <1>2, <1>3, <1>5, <2>2, Zenon DEF ni, nj
<1>6. CASE ~(first > last \/ first >= len)
  <2> HIDE DEF a, b, first, last
  <2>1. SubSeq(L, a, b) = [n \in 1 .. (b - a + 1) |-> L[a + n - 1]]
    BY <1>1, <1>4, <1>6
  <2>2. b - a + 1 = last - first + 1 /\ \A n \in 1 .. (b - a + 1) : a + n - 1 = first + n
    BY <1>1, <1>4
  <2>3. SubSeq(L, a, b) = [n \in 1 .. last - first + 1 |-> L[first + n]]
    BY <2>1, <2>2
  <2> QED BY <1>2, <1>3, <1>6, <2>3, Zenon DEF ni, nj
<1> QED BY <1>5, <1>6, Zenon

-----------------------------------------------------------------------------
(* The helpers of the two modules *)

\* The helpers are the same ones in the abstract module.
LEMMA SameHelpers ==
    /\ \A S : KS!Cardinality(S) = Cardinality(S)
    /\ \A s : KS!Range(s) = Range(s)
    /\ \A f, S : KS!Restrict(f, S) = Restrict(f, S)
    /\ \A S : KS!Max(S) = Max(S)
    /\ \A S : KS!Min(S) = Min(S)
    /\ \A s : KS!Reverse(s) = Reverse(s)
    /\ \A s : KS!Front(s) = Front(s)
    /\ \A s : KS!Last(s) = Last(s)
<1>1. ASSUME NEW S PROVE KS!Cardinality(S) = Cardinality(S)
  BY DEF KS!Cardinality, Cardinality
<1>2. ASSUME NEW s PROVE KS!Range(s) = Range(s)
  BY DEF KS!Range, Range
<1>3. ASSUME NEW f, NEW S PROVE KS!Restrict(f, S) = Restrict(f, S)
  BY DEF KS!Restrict, Restrict
<1>4. ASSUME NEW S PROVE KS!Max(S) = Max(S)
  BY DEF KS!Max, Max
<1>5. ASSUME NEW S PROVE KS!Min(S) = Min(S)
  BY DEF KS!Min, Min
<1>6. ASSUME NEW s PROVE KS!Reverse(s) = Reverse(s)
  BY DEF KS!Reverse, Reverse
<1>7. ASSUME NEW s PROVE KS!Front(s) = Front(s)
  BY DEF KS!Front, Front
<1>8. ASSUME NEW s PROVE KS!Last(s) = Last(s)
  BY DEF KS!Last, Last
<1> QED BY <1>1, <1>2, <1>3, <1>4, <1>5, <1>6, <1>7, <1>8

\* The two ways to change the keyspace.
LEMMA KeptKeys ==
    ASSUME NEW S
    PROVE  KS!Keep(S) = Restrict(LiveView, DOMAIN LiveView \cap S)
BY DEF KS!Keep, KS!Restrict, Restrict

\* A view with one key stored anew is a step of the keyspace.
LEMMA StoredKey ==
    ASSUME NEW k, NEW type, NEW val, NEW left, LiveView' = Stored(k, type, val, left)
    PROVE  KS!Store(k, type, val, left)
BY Viewed DEF KS!Store, Stored

\* The abstract questions about a key, answered from the maps.
LEMMA Asked ==
    ASSUME Inv, NEW k \in Key
    PROVE  /\ KS!Holds(k, "string") <=> k \in DOMAIN store /\ ~is_expired_unlocked(k)
           /\ KS!Holds(k, "list") <=> k \in DOMAIN list_store /\ ~is_expired_unlocked(k)
           /\ KS!Holds(k, "string") => LiveView[k].val = store[k]
           /\ KS!List(k) = ListAt(k)
           /\ KS!Left(k) = LeftOf(k)
<1>1. KS!Holds(k, "string") <=> k \in Live /\ View(k).type = "string"
  BY Viewed DEF KS!Holds
<1>2. KS!Holds(k, "list") <=> k \in Live /\ View(k).type = "list"
  BY Viewed DEF KS!Holds
<1>3. k \in Live <=> k \in DOMAIN store \cup DOMAIN list_store /\ ~is_expired_unlocked(k)
  BY DEF Live, Present
<1>4. ~(k \in DOMAIN store /\ k \in DOMAIN list_store)
  BY DEF Inv, OneTypePerKey
<1>5. /\ View(k).type = "string" <=> k \in DOMAIN store
      /\ View(k).type = "list" <=> k \notin DOMAIN store
      /\ View(k).val = IF k \in DOMAIN store THEN store[k] ELSE list_store[k]
      /\ View(k).left = IF k \in DOMAIN expiry THEN expiry[k] ELSE -1
  BY DEF View
<1>6. KS!Holds(k, "string") => LiveView[k].val = store[k]
  BY <1>1, <1>5, Viewed
<1>7. KS!List(k) = ListAt(k)
  BY <1>2, <1>3, <1>4, <1>5, Viewed DEF KS!List, ListAt
<1>8. KS!Left(k) = LeftOf(k)
  BY <1>5, Viewed DEF KS!Left, KS!Forever, LeftOf
<1> QED BY <1>1, <1>2, <1>3, <1>4, <1>5, <1>6, <1>7, <1>8

-----------------------------------------------------------------------------
(* The stale names: expired keys that are still in the maps *)

\* The names of the abstract state.
LEMMA SameNames == DOMAIN LiveView = Live /\ DOMAIN LiveView' = Live'
BY DEF LiveView

\* A step brings no key back and forgets no live one but at its deadline.
LEMMA FadeRefines ==
    ASSUME NEW n, Present' \subseteq Present \cup Live',
           Live \cap Present' \subseteq Live' \cup (Live \ DOMAIN KS!After(n))
    PROVE  KS!Fade(n)
<1>1. (Present \ Live)' = Present' \ Live'
  OBVIOUS
<1> QED BY <1>1, SameNames DEF KS!Fade

\* Removing expired keys makes nothing stale.
LEMMA RemoveFades ==
    ASSUME Inv, NEW S, S \cap Live = {}, remove_expired_unlocked(S)
    PROVE  LiveView' = LiveView /\ KS!Fade(0)
<1>1. LiveView' = LiveView
  BY RemoveUnseen
<1>2. Live' = Live
  BY <1>1, SameNames
<1>3. Present' \subseteq Present
  BY DEF remove_expired_unlocked, Erase, Restrict, Present
<1> QED BY <1>1, <1>2, <1>3, FadeRefines

\* Nor does the lazy check.
LEMMA LazyFades ==
    ASSUME Inv, NEW k, remove_expired_unlocked(Expired(k))
    PROVE  LiveView' = LiveView /\ KS!Fade(0)
<1>1. Expired(k) \cap Live = {}
  BY DEF Expired, Live
<1> QED BY <1>1, RemoveFades

\* While time passes, keys become stale at their deadlines only.
LEMMA LateFades ==
    ASSUME NEW n, DOMAIN KS!After(n) \subseteq Live', Present' \subseteq Present
    PROVE  KS!Fade(n)
BY FadeRefines

\* An expiry check some ticks from now, seen in the keyspace.
LEMMA LivesWhen ==
    ASSUME Inv, NEW k, NEW n \in Nat
    PROVE  KS!LivesAt(k, n) <=> k \in Present /\ ~ExpiredAt(k, n)
<1>1. k \in DOMAIN expiry => expiry[k] \in Nat
  BY DEF Inv, TypeOK, IsMap
<1>2. k \in Live => LiveView[k].left = IF k \in DOMAIN expiry THEN expiry[k] ELSE -1
  BY Viewed DEF View
<1>3. k \in Live <=> k \in Present /\ ~(k \in DOMAIN expiry /\ expiry[k] <= 0)
  BY DEF Live, is_expired_unlocked
<1> QED BY <1>1, <1>2, <1>3, SameNames DEF KS!LivesAt, KS!Forever, ExpiredAt

\* Keys whose deadlines are reached by the end of an operation are removed.
LEMMA LateRefines ==
    ASSUME Inv, NEW S, NEW n \in Nat, remove_while_time_passes(S, n),
           \A x \in S : ExpiredAt(x, n)
    PROVE  LiveView' = KS!After(n) /\ KS!Fade(n)
<1>1. LiveView' = KS!After(n) /\ Present' \subseteq Present
  BY LateSeen, Zenon DEF KS!After, KS!Forever, Later
<1> QED BY <1>1, LateFades, SameNames

-----------------------------------------------------------------------------
(* One lemma for each operation *)

\* GET answers as the keyspace does.
LEMMA GetRefines ==
    ASSUME Inv, NEW k \in Key, get(k)
    PROVE  KS!Get(k) /\ KS!Fade(0)
<1>1. LiveView' = LiveView /\ KS!Fade(0)
  BY LazyFades DEF get
<1>2. (IF k \in DOMAIN store /\ ~is_expired_unlocked(k) THEN store[k] ELSE Nil) =
          (IF KS!Holds(k, "string") THEN LiveView[k].val ELSE Nil)
  BY Asked
<1> QED BY <1>1, <1>2 DEF get, Returns, KS!Get, KS!Answers

\* SET, with the deadline it drops.
LEMMA SetRefines ==
    ASSUME Inv, NEW k \in Key, NEW v \in Value, set(k, v)
    PROVE  KS!Set(k, v) /\ KS!Fade(0)
<1>1. LiveView' = Stored(k, "string", v, -1)
  BY SetSeen
<1>2. KS!Store(k, "string", v, -1)
  BY <1>1, StoredKey
<1>3. Live' = Live \cup {k}
  BY <1>1, SameNames DEF Stored
<1>4. Present' \subseteq Present \cup {k}
  BY DEF set, Put, Erase, Restrict, Present
<1>5. KS!Fade(0)
  BY <1>3, <1>4, FadeRefines
<1> QED BY <1>2, <1>5 DEF set, Returns, KS!Set, KS!Answers, KS!Forever

\* DEL, whose count includes the stale keys it names.
LEMMA DelRefines ==
    ASSUME Inv, NEW ks \in KeyArgs, del(ks)
    PROVE  KS!Del(ks)
<1>1. LiveView' = KS!Keep(Key \ Range(ks))
  BY DelSeen, KeptKeys, Zenon
<1>2. (Present \ Live)' = (Present \ Live) \ Range(ks)
  BY DelSeen, Zenon
<1>3. Live \cup (Present \ Live) = Present
  BY DEF Live
<1>4. reply' = <<"del", Cardinality(Range(ks) \cap (DOMAIN LiveView \cup (Present \ Live)))>>
  BY <1>3, SameNames, Zenon DEF del, Returns
<1> QED BY <1>1, <1>2, <1>4, SameHelpers, Zenon DEF KS!Del, KS!Answers

\* EXISTS, at whatever times it reads the clock for its arguments.
LEMMA ExistsRefines ==
    ASSUME Inv, NEW ks \in KeyArgs, exists(ks)
    PROVE  \E lag \in 0 .. MaxLag : KS!Fade(lag) /\ KS!Exists(ks, lag)
<1>1. PICK lag \in 0 .. MaxLag : \E at \in ArgumentTimes(Len(ks), lag) :
          /\ remove_while_time_passes({ks[i] : i \in {j \in DOMAIN ks : ExpiredAt(ks[j], at[j])}}, lag)
          /\ Returns("exists",
                     Cardinality({i \in DOMAIN ks : ks[i] \in Present /\ ~ExpiredAt(ks[i], at[i])}))
  BY Zenon DEF exists
<1>2. PICK at \in ArgumentTimes(Len(ks), lag) :
          /\ remove_while_time_passes({ks[i] : i \in {j \in DOMAIN ks : ExpiredAt(ks[j], at[j])}}, lag)
          /\ Returns("exists",
                     Cardinality({i \in DOMAIN ks : ks[i] \in Present /\ ~ExpiredAt(ks[i], at[i])}))
  BY <1>1, Zenon
<1>3. lag \in Nat /\ ks \in Seq(Key)
  BY DatabaseAssumption
<1>4. /\ at \in [1 .. Len(ks) -> 0 .. lag]
      /\ \A i, j \in 1 .. Len(ks) : i <= j => at[i] <= at[j]
  BY DEF ArgumentTimes
<1>5. DOMAIN ks = 1 .. Len(ks)
  BY <1>3
<1>6. \A i \in DOMAIN ks : at[i] \in Nat /\ at[i] <= lag
  BY <1>3, <1>4, <1>5
<1> DEFINE S == {ks[i] : i \in {j \in DOMAIN ks : ExpiredAt(ks[j], at[j])}}
<1>7. \A x \in S : ExpiredAt(x, lag)
  BY <1>3, <1>6 DEF ExpiredAt, Inv, TypeOK, IsMap
<1>8. remove_while_time_passes(S, lag)
  BY <1>2
<1> HIDE DEF S
<1>9. LiveView' = KS!After(lag) /\ KS!Fade(lag)
  BY <1>3, <1>7, <1>8, LateRefines
<1>10. {i \in DOMAIN ks : ks[i] \in Present /\ ~ExpiredAt(ks[i], at[i])} =
           {i \in DOMAIN ks : KS!LivesAt(ks[i], at[i])}
  <2>1. \A i \in DOMAIN ks :
            KS!LivesAt(ks[i], at[i]) <=> ks[i] \in Present /\ ~ExpiredAt(ks[i], at[i])
    BY <1>6, LivesWhen
  <2> QED BY <2>1
<1>11. reply' = <<"exists", KS!Cardinality({i \in DOMAIN ks : KS!LivesAt(ks[i], at[i])})>>
  BY <1>2, <1>10, SameHelpers, Zenon DEF Returns
<1>12. KS!Exists(ks, lag)
  BY <1>4, <1>9, <1>11, Zenon DEF KS!Exists, KS!Answers
<1> QED BY <1>9, <1>12

\* KEYS and DBSIZE, at whatever times they read the clock for the keys.
LEMMA ListingRefines ==
    ASSUME Inv, keys \/ dbsize
    PROVE  \E lag \in 0 .. MaxLag : KS!Fade(lag) /\ (KS!Keys(lag) \/ KS!DbSize(lag))
<1>1. PICK lag \in 0 .. MaxLag : \E at \in KeyTimes(lag) :
          /\ remove_while_time_passes({k \in Present : ExpiredAt(k, at[k])}, lag)
          /\ \/ Returns("keys", {k \in Present : ~ExpiredAt(k, at[k])})
             \/ Returns("dbsize", Cardinality({k \in Present : ~ExpiredAt(k, at[k])}))
  BY Zenon DEF keys, dbsize
<1>2. PICK at \in KeyTimes(lag) :
          /\ remove_while_time_passes({k \in Present : ExpiredAt(k, at[k])}, lag)
          /\ \/ Returns("keys", {k \in Present : ~ExpiredAt(k, at[k])})
             \/ Returns("dbsize", Cardinality({k \in Present : ~ExpiredAt(k, at[k])}))
  BY <1>1, Zenon
<1>3. lag \in Nat
  BY DatabaseAssumption
<1>4. at \in [Present -> 0 .. lag]
  BY DEF KeyTimes
<1>5. \A k \in Present : at[k] \in Nat /\ at[k] <= lag
  BY <1>3, <1>4
<1> DEFINE S == {k \in Present : ExpiredAt(k, at[k])}
           seen == [k \in DOMAIN LiveView |-> at[k]]
<1>6. \A x \in S : ExpiredAt(x, lag)
  BY <1>3, <1>5 DEF ExpiredAt, Inv, TypeOK, IsMap
<1>7. remove_while_time_passes(S, lag)
  BY <1>2
<1> HIDE DEF S
<1>8. LiveView' = KS!After(lag) /\ KS!Fade(lag)
  BY <1>3, <1>6, <1>7, LateRefines
<1>9. Live \subseteq Present
  BY DEF Live
<1>10. seen \in [DOMAIN LiveView -> 0 .. lag]
  BY <1>4, <1>9, SameNames
<1>11. {k \in Present : ~ExpiredAt(k, at[k])} = KS!Listed(seen)
  <2>1. \A k \in Present : KS!LivesAt(k, at[k]) <=> ~ExpiredAt(k, at[k])
    BY <1>5, LivesWhen
  <2>2. \A k, n : KS!LivesAt(k, n) => k \in Live
    BY SameNames DEF KS!LivesAt
  <2>3. \A k \in Live : seen[k] = at[k]
    BY SameNames
  <2>4. KS!Listed(seen) = {k \in Live : KS!LivesAt(k, seen[k])}
    BY SameNames, Zenon DEF KS!Listed
  <2> HIDE DEF seen
  <2> QED BY <1>9, <2>1, <2>2, <2>3, <2>4
<1> HIDE DEF seen
<1>12. \/ reply' = <<"keys", KS!Listed(seen)>>
       \/ reply' = <<"dbsize", KS!Cardinality(KS!Listed(seen))>>
  BY <1>2, <1>11, SameHelpers, Zenon DEF Returns
<1>13. KS!Keys(lag) \/ KS!DbSize(lag)
  BY <1>8, <1>10, <1>12, Zenon DEF KS!Keys, KS!DbSize, KS!Answers
<1> QED BY <1>8, <1>13

\* FLUSHDB.
LEMMA FlushRefines ==
    ASSUME flushdb
    PROVE  KS!FlushDb
<1>1. Live' = {}
  BY DEF flushdb, Live, Present
<1>2. LiveView' = <<>>
  BY <1>1 DEF LiveView
<1>3. (Present \ Live)' = {}
  BY DEF flushdb, Present
<1> QED BY <1>2, <1>3 DEF flushdb, Returns, KS!FlushDb, KS!Answers

\* LPUSH and RPUSH.
LEMMA PushRefines ==
    ASSUME Inv, NEW k \in Key, NEW op, NEW list, Push(op, k, list)
    PROVE  KS!Pushed(op, k, list) /\ KS!Fade(0)
<1>1. CASE k \in DOMAIN store /\ ~is_expired_unlocked(k)
  <2>1. UNCHANGED maps /\ Returns(op, -1)
    BY <1>1 DEF Push
  <2>2. LiveView' = LiveView
    BY <2>1 DEF maps, LiveView, Live, Present, is_expired_unlocked
  <2>3. Present' = Present
    BY <2>1 DEF maps, Present
  <2>4. KS!Fade(0)
    BY <2>2, <2>3, SameNames, FadeRefines
  <2> QED BY <1>1, <2>1, <2>2, <2>4, Asked DEF Returns, KS!Pushed, KS!Answers
<1>2. CASE ~(k \in DOMAIN store /\ ~is_expired_unlocked(k))
  <2>1. Len(list) <= MaxListLen /\ Returns(op, Len(list))
    BY <1>2 DEF Push
  <2>2. KS!Store(k, "list", list, KS!Left(k))
    BY <1>2, PushSeen, StoredKey, Asked
  <2>3. Live' = Live \cup {k}
    BY <1>2, PushSeen, SameNames DEF Stored
  <2>4. Present' \subseteq Present \cup {k}
    BY <1>2 DEF Push, Put, Erase, Restrict, Present
  <2>5. KS!Fade(0)
    BY <2>3, <2>4, FadeRefines
  <2> QED BY <1>2, <2>1, <2>2, <2>5, Asked DEF Returns, KS!Pushed, KS!Answers
<1> QED BY <1>1, <1>2

\* LPOP and RPOP, with the list that goes with its last element.
LEMMA PopRefines ==
    ASSUME Inv, NEW k \in Key, NEW op, NEW rest, NEW element, Pop(op, k, rest, element)
    PROVE  KS!Popped(op, k, rest, element) /\ KS!Fade(0)
<1>1. CASE ListAt(k) = <<>>
  <2>1. Returns(op, Nil)
    BY <1>1 DEF Pop
  <2>2. Present' \subseteq Present
    BY <1>1 DEF Pop, Erase, Restrict, Present
  <2>3. KS!Fade(0)
    BY <1>1, <2>2, PopUnseen, SameNames, FadeRefines
  <2> QED BY <1>1, <2>1, <2>3, PopUnseen, Asked DEF Returns, KS!Popped, KS!Answers
<1>2. CASE ListAt(k) # <<>>
  <2>1. KS!Holds(k, "list") /\ Returns(op, element)
    BY <1>2, Asked DEF Pop, ListAt
  <2>2. CASE rest = <<>>
    <3>1. LiveView' = Restrict(LiveView, DOMAIN LiveView \cap (Key \ {k}))
      BY <1>2, <2>2, PopSeen
    <3>2. LiveView' = KS!Keep(Key \ {k})
      BY <3>1, KeptKeys
    <3>3. Live' = Live \cap (Key \ {k}) /\ Live \subseteq Key
      BY <3>1, SameNames DEF Restrict, Inv, TypeOK, IsMap, Live, Present
    <3>4. k \in DOMAIN list_store /\ k \notin DOMAIN store
      BY <1>2 DEF ListAt, Inv, OneTypePerKey
    <3>5. Present' = Present \ {k}
      BY <1>2, <2>2, <3>4 DEF Pop, Erase, Restrict, Present
    <3>6. KS!Fade(0)
      BY <3>3, <3>5, FadeRefines
    <3> QED BY <2>1, <2>2, <3>2, <3>6 DEF Returns, KS!Popped, KS!Answers
  <2>3. CASE rest # <<>>
    <3>1. LiveView' = Stored(k, "list", rest, LeftOf(k))
      BY <1>2, <2>3, PopSeen, Zenon
    <3>2. KS!Store(k, "list", rest, KS!Left(k))
      BY <3>1, StoredKey, Asked
    <3>3. Live' = Live \cup {k}
      BY <3>1, SameNames DEF Stored
    <3>4. Present' \subseteq Present \cup {k}
      BY <1>2, <2>3, Zenon DEF Pop, Put, Present
    <3>5. KS!Fade(0)
      BY <3>3, <3>4, FadeRefines
    <3> QED BY <2>1, <2>3, <3>2, <3>5 DEF Returns, KS!Popped, KS!Answers
  <2> QED BY <2>2, <2>3
<1> QED BY <1>1, <1>2

\* LRANGE, LLEN and LINDEX.
LEMMA ListReadsRefine ==
    ASSUME Inv, NEW k \in Key
    PROVE  /\ llen(k) => KS!LLen(k) /\ KS!Fade(0)
           /\ \A i, j \in Indices : lrange(k, i, j) => KS!LRange(k, i, j) /\ KS!Fade(0)
           /\ \A i \in Indices : lindex(k, i) => KS!LIndex(k, i) /\ KS!Fade(0)
<1>0. ListAt(k) \in Seq(Value) /\ Len(ListAt(k)) \in Nat /\ KS!List(k) = ListAt(k)
  BY ListAtType, Asked
<1>1. ASSUME remove_expired_unlocked(Expired(k)) PROVE LiveView' = LiveView /\ KS!Fade(0)
  BY <1>1, LazyFades
<1>2. ASSUME llen(k) PROVE KS!LLen(k)
  BY <1>0, <1>1, <1>2, Asked DEF llen, Returns, KS!LLen, KS!Answers
<1>3. ASSUME NEW i \in Int PROVE KS!Position(k, i) = Normalize(i, Len(ListAt(k))) + 1
  BY <1>0 DEF KS!Position, Normalize
<1>4. ASSUME NEW i \in Indices, NEW j \in Indices, lrange(k, i, j) PROVE KS!LRange(k, i, j)
  <2>1. i \in Int /\ j \in Int
    BY DatabaseAssumption
  <2>2. Slice(ListAt(k), i, j) = SubSeq(KS!List(k), Max({1, KS!Position(k, i)}),
                                        Min({Len(KS!List(k)), KS!Position(k, j)}))
    <3> DEFINE L == ListAt(k)
    <3>1. KS!Position(k, i) = Normalize(i, Len(L)) + 1 /\ KS!Position(k, j) = Normalize(j, Len(L)) + 1
      BY <2>1, <1>3
    <3>2. L \in Seq(Value) /\ KS!List(k) = L
      BY <1>0
    <3> HIDE DEF L
    <3>3. Slice(L, i, j) = SubSeq(L, Max({1, Normalize(i, Len(L)) + 1}),
                                     Min({Len(L), Normalize(j, Len(L)) + 1}))
      BY <2>1, <3>2, SliceIsSubSeq, Zenon
    <3>4. Slice(L, i, j) = SubSeq(KS!List(k), Max({1, KS!Position(k, i)}),
                                              Min({Len(KS!List(k)), KS!Position(k, j)}))
      BY <3>1, <3>2, <3>3
    <3> QED BY <3>4 DEF L
  <2> QED BY <1>1, <1>4, <2>2, SameHelpers, Zenon DEF lrange, Returns, KS!LRange, KS!Answers
<1>5. ASSUME NEW i \in Indices, lindex(k, i) PROVE KS!LIndex(k, i)
  <2>1. i \in Int
    BY DatabaseAssumption
  <2> DEFINE n == Normalize(i, Len(ListAt(k)))
  <2>2. n \in Int
    BY <1>0, <2>1 DEF Normalize
  <2>3. KS!Position(k, i) \in DOMAIN KS!List(k) <=> ~(n < 0 \/ n >= Len(ListAt(k)))
    BY <1>0, <1>3, <2>1, <2>2
  <2>4. reply' = <<"lindex", IF n < 0 \/ n >= Len(ListAt(k)) THEN Nil ELSE ListAt(k)[n + 1]>>
    BY <1>5 DEF lindex, Returns
  <2>5. LiveView' = LiveView
    BY <1>1, <1>5 DEF lindex
  <2> HIDE DEF n
  <2>6. KS!Position(k, i) = n + 1
    BY <1>3, <2>1 DEF n
  <2> QED BY <1>0, <2>3, <2>4, <2>5, <2>6 DEF KS!LIndex, KS!Answers
<1>6. llen(k) \/ (\E i, j \in Indices : lrange(k, i, j)) \/ (\E i \in Indices : lindex(k, i))
          => KS!Fade(0)
  BY <1>1, Zenon DEF llen, lrange, lindex
<1> QED BY <1>2, <1>4, <1>5, <1>6, Zenon

\* Time passes for all keys; a key is seen until its deadline.
LEMMA ElapseRefines ==
    ASSUME Inv, NEW n \in Nat, expiry' = Elapse(n), UNCHANGED <<store, list_store>>
    PROVE  LiveView' = KS!After(n) /\ KS!Fade(n)
<1>1. LiveView' = KS!After(n)
  BY ElapseSeen, Zenon DEF KS!After, KS!Forever, Later
<1>2. Present' = Present
  BY DEF Present
<1> QED BY <1>1, <1>2, LateFades, SameNames

\* EXPIRE.
LEMMA ExpireRefines ==
    ASSUME Inv, NEW k \in Key, NEW s \in Seconds, expire(k, s)
    PROVE  \E lag \in 0 .. MaxLag : KS!Fade(lag) /\ KS!Expire(k, s, lag)
<1>1. CASE k \in Live
  <2>1. Returns("expire", TRUE) /\ UNCHANGED <<store, list_store>>
    BY <1>1, Zenon DEF expire
  <2>2. PICK lag \in 0 .. MaxLag :
            LiveView' = [x \in DOMAIN Later(lag) \cup {k} |->
                            IF x = k THEN [LiveView[k] EXCEPT !.left = s * TicksPerSecond]
                                     ELSE Later(lag)[x]]
    BY <1>1, ExpireSeen, Zenon
  <2>3. KS!After(lag) = Later(lag)
    BY Zenon DEF KS!After, KS!Forever, Later
  <2>4. Live' = DOMAIN KS!After(lag) \cup {k}
    BY <2>2, <2>3, SameNames
  <2>5. Present' = Present
    BY <2>1 DEF Present
  <2>6. KS!Fade(lag)
    BY <2>4, <2>5, LateFades
  <2>7. KS!Expire(k, s, lag)
    BY <1>1, <2>1, <2>2, <2>3, SameNames, Zenon DEF Returns, KS!Expire, KS!Answers
  <2> QED BY <2>6, <2>7
<1>2. CASE k \notin Live
  <2>1. (Expired(k) \cap Present) \cap Live = {}
    BY <1>2 DEF Expired
  <2>2. LiveView' = LiveView /\ KS!Fade(0) /\ Returns("expire", FALSE)
    BY <1>2, <2>1, RemoveFades, Zenon DEF expire
  <2>3. KS!Expire(k, s, 0)
    BY <1>2, <2>2, SameNames, Zenon DEF Returns, KS!Expire, KS!Answers
  <2>4. 0 \in 0 .. MaxLag
    BY DatabaseAssumption
  <2> QED BY <2>2, <2>3, <2>4
<1> QED BY <1>1, <1>2

\* TTL, for every time between its two readings of the clock.
LEMMA TtlRefines ==
    ASSUME Inv, NEW k \in Key, NEW lag \in 0 .. MaxLag, ttl(k, lag)
    PROVE  \E n \in 0 .. MaxLag : KS!Fade(n) /\ KS!Ttl(k, n)
<1>0. lag \in Nat
  BY DatabaseAssumption
<1>1. CASE k \in Live
  <2>1. LiveView' = KS!After(lag) /\ KS!Fade(lag)
    BY <1>0, <1>1, ElapseRefines DEF ttl
  <2>2. KS!Left(k) = IF k \in DOMAIN expiry THEN expiry[k] ELSE -1
    BY <1>1, Asked DEF LeftOf
  <2>3. k \in DOMAIN expiry => expiry[k] \in Nat
    BY DEF Inv, TypeOK, IsMap
  <2>4. reply' = <<"ttl", IF k \in DOMAIN expiry THEN ToSeconds(expiry[k] - lag) ELSE -1>>
    BY <1>1 DEF ttl, Returns
  <2>5. k \in DOMAIN expiry => ToSeconds(expiry[k] - lag) = KS!Truncated(expiry[k] - lag)
    BY <1>0, <2>3 DEF ToSeconds, KS!Truncated
  <2>6. reply' = <<"ttl", IF KS!Left(k) = -1 THEN -1 ELSE KS!Truncated(KS!Left(k) - lag)>>
    BY <2>2, <2>3, <2>4, <2>5
  <2>7. KS!Ttl(k, lag)
    BY <1>1, <2>1, <2>6, SameNames DEF KS!Ttl, KS!Answers, KS!Forever
  <2> QED BY <2>1, <2>7
<1>2. CASE k \notin Live
  <2>1. (Expired(k) \cap Present) \cap Live = {}
    BY <1>2 DEF Expired
  <2>2. LiveView' = LiveView /\ KS!Fade(0) /\ Returns("ttl", -2)
    BY <1>2, <2>1, RemoveFades DEF ttl
  <2>3. KS!Ttl(k, 0)
    BY <1>2, <2>2, SameNames DEF Returns, KS!Ttl, KS!Answers
  <2>4. 0 \in 0 .. MaxLag
    BY DatabaseAssumption
  <2> QED BY <2>2, <2>3, <2>4
<1> QED BY <1>1, <1>2

\* PERSIST.
LEMMA PersistRefines ==
    ASSUME Inv, NEW k \in Key, persist(k)
    PROVE  KS!Persist(k) /\ KS!Fade(0)
<1>1. CASE k \in Live
  <2>0. KS!Fade(0)
    <3>1. Live' = Live
      BY <1>1, PersistSeen, SameNames
    <3>2. Present' = Present
      BY <1>1 DEF persist, Present
    <3> QED BY <3>1, <3>2, FadeRefines
  <2>1. Returns("persist", k \in DOMAIN expiry)
    BY <1>1 DEF persist
  <2>2. CASE k \in DOMAIN expiry
    <3>1. expiry[k] \in Nat /\ KS!Left(k) = expiry[k]
      BY <1>1, <2>2, Asked DEF Inv, TypeOK, IsMap, LeftOf
    <3>2. KS!Left(k) # -1
      BY <3>1
    <3>3. reply' = <<"persist", TRUE>>
      BY <2>1, <2>2, Zenon DEF Returns
    <3> QED BY <1>1, <2>0, <3>2, <3>3, PersistSeen, Viewed DEF KS!Persist, KS!Answers, KS!Forever
  <2>3. CASE k \notin DOMAIN expiry
    <3>1. KS!Left(k) = -1
      BY <2>3, Asked DEF LeftOf
    <3>2. (k \in DOMAIN expiry) = FALSE
      BY <2>3
    <3>3. reply' = <<"persist", FALSE>>
      BY <2>1, <3>2, Zenon DEF Returns
    <3> QED BY <1>1, <2>0, <2>3, <3>1, <3>3, PersistSeen DEF KS!Persist, KS!Answers, KS!Forever
  <2> QED BY <2>2, <2>3
<1>2. CASE k \notin Live
  <2>1. (Expired(k) \cap Present) \cap Live = {}
    BY <1>2 DEF Expired
  <2>2. LiveView' = LiveView /\ KS!Fade(0) /\ Returns("persist", FALSE)
    BY <1>2, <2>1, RemoveFades, Zenon DEF persist
  <2>3. KS!Left(k) = -1
    BY <1>2, Asked DEF LeftOf
  <2> QED BY <2>2, <2>3 DEF Returns, KS!Persist, KS!Answers, KS!Forever
<1> QED BY <1>1, <1>2

-----------------------------------------------------------------------------
(* The refinement *)

\* Every step of the store is a step of the keyspace, or one it does not see.
LEMMA NextRefines == Inv /\ [Next]_vars => [KS!Next]_(KS!vars)
<1> SUFFICES ASSUME Inv, [Next]_vars PROVE [KS!Next]_(KS!vars)
  OBVIOUS
<1>1. ASSUME NEW k \in Key, StringOp(k) PROVE KS!Next
  <2>1. KS!Fade(0) /\ (KS!Get(k) \/ \E v \in Value : KS!Set(k, v))
    BY <1>1, GetRefines, SetRefines DEF StringOp
  <2> QED BY <2>1, Zenon DEF KS!Next, KS!InstantOp
<1>2. ASSUME NEW k \in Key, ListOp(k) PROVE KS!Next
  <2>0. KS!List(k) = ListAt(k)
    BY Asked
  <2>1. ASSUME NEW b \in Batches, lpush(k, b) PROVE KS!LPush(k, b) /\ KS!Fade(0)
    BY <2>0, <2>1, PushRefines, SameHelpers DEF lpush, KS!LPush
  <2>2. ASSUME NEW b \in Batches, rpush(k, b) PROVE KS!RPush(k, b) /\ KS!Fade(0)
    BY <2>0, <2>2, PushRefines DEF rpush, KS!RPush
  <2>3. ASSUME lpop(k) PROVE KS!LPop(k) /\ KS!Fade(0)
    BY <2>0, <2>3, PopRefines DEF lpop, KS!LPop
  <2>4. ASSUME rpop(k) PROVE KS!RPop(k) /\ KS!Fade(0)
    BY <2>0, <2>4, PopRefines, SameHelpers DEF rpop, KS!RPop
  <2>5. /\ KS!Fade(0)
        /\ \/ \E b \in Batches : KS!LPush(k, b) \/ KS!RPush(k, b)
           \/ KS!LPop(k) \/ KS!RPop(k) \/ KS!LLen(k)
           \/ \E i, j \in Indices : KS!LRange(k, i, j)
           \/ \E i \in Indices : KS!LIndex(k, i)
    BY <1>2, <2>1, <2>2, <2>3, <2>4, ListReadsRefine, Zenon DEF ListOp
  <2> QED BY <2>5, Zenon DEF KS!Next, KS!InstantOp
<1>3. ASSUME NEW k \in Key, TtlOp(k) PROVE KS!Next
  <2>1. CASE persist(k)
    BY <2>1, PersistRefines, Zenon DEF KS!Next, KS!InstantOp
  <2>2. CASE \E s \in Seconds : expire(k, s)
    BY <2>2, ExpireRefines, Zenon DEF KS!Next, KS!TimedOp
  <2>3. CASE \E lag \in 0 .. MaxLag : ttl(k, lag)
    BY <2>3, TtlRefines, Zenon DEF KS!Next, KS!TimedOp
  <2> QED BY <1>3, <2>1, <2>2, <2>3 DEF TtlOp
<1>4. CASE KeyspaceOp
  <2>1. CASE (\E ks \in KeyArgs : exists(ks)) \/ keys \/ dbsize
    BY <2>1, ExistsRefines, ListingRefines, Zenon DEF KS!Next, KS!TimedOp
  <2>2. CASE (\E ks \in KeyArgs : del(ks)) \/ flushdb
    BY <2>2, DelRefines, FlushRefines, Zenon DEF KS!Next
  <2> QED BY <1>4, <2>1, <2>2, Zenon DEF KeyspaceOp
<1>5. ASSUME NEW sample \in SUBSET DOMAIN expiry, expiry_scan(sample)
      PROVE  KS!Next
  <2> DEFINE S == {k \in sample : expiry[k] <= 0}
  <2>1. S \cap Live = {} /\ remove_expired_unlocked(S) /\ UNCHANGED reply
    BY <1>5 DEF expiry_scan, Live, is_expired_unlocked
  <2> HIDE DEF S
  <2>2. LiveView' = LiveView /\ KS!Fade(0)
    BY <2>1, RemoveFades
  <2>3. KS!Forget
    BY <2>1, <2>2 DEF KS!Forget
  <2> QED BY <2>2, <2>3, Zenon DEF KS!Next
<1>6. CASE Tick
  <2>1. LiveView' = KS!After(1) /\ KS!Fade(1)
    BY <1>6, ElapseRefines DEF Tick
  <2>2. KS!Tick
    BY <1>6, <2>1 DEF Tick, KS!Tick
  <2> QED BY <2>1, <2>2, Zenon DEF KS!Next
<1>7. CASE UNCHANGED vars
  BY <1>7 DEF vars, KS!vars, LiveView, Live, Present, is_expired_unlocked
<1> QED BY <1>1, <1>2, <1>3, <1>4, <1>5, <1>6, <1>7 DEF Next

\* The three maps, with lazy and active expiry, behave as the one map of live
\* keys of Keyspace: every operation of Database returns and does what Keyspace
\* says, for any keys, values and arguments and however the clock moves from one
\* of its readings to the next within EXISTS, KEYS, DBSIZE, EXPIRE and TTL.
THEOREM StoreImplementsKeyspace == Spec => ImplementsKeyspace
<1>1. Init => Inv
  BY DEF Init, Inv, TypeOK, IsMap, OneTypePerKey, NoOrphanDeadline, NoEmptyList, Present
<1>2. Init => KS!Init
  <2> SUFFICES ASSUME Init PROVE KS!Init
    OBVIOUS
  <2>1. Live = {}
    BY DEF Init, Live, Present
  <2>2. LiveView = <<>>
    BY <2>1 DEF LiveView
  <2>3. Present \ Live = {}
    BY DEF Init, Present
  <2> QED BY <2>2, <2>3 DEF Init, KS!Init
<1> QED BY <1>1, <1>2, NextInv, NextRefines, PTL DEF Spec, ImplementsKeyspace, KS!Spec

=============================================================================
