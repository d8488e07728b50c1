--------------------------- MODULE DatabaseProofs ---------------------------
(***************************************************************************)
(* The three maps of Database, for every set of keys and values, every     *)
(* number of list elements and every TTL: they stay consistent, and what a *)
(* step changes of what clients see.                                       *)
(***************************************************************************)
EXTENDS Database, FiniteSetTheorems, TLAPS

\* The inductive invariant.  Its parts need each other: a push leaves the
\* deadline of the list it creates to NoOrphanDeadline, and a pop that erases
\* a list and its deadline relies on OneTypePerKey not to strip a string.
Inv ==
    /\ TypeOK
    /\ OneTypePerKey
    /\ NoOrphanDeadline
    /\ NoEmptyList

-----------------------------------------------------------------------------
(* Steps that several operations share *)

\* Removing keys from the three maps together, as remove_expired_unlocked and
\* expiry_loop do, keeps them consistent whichever the keys are.
LEMMA RemoveInv ==
    ASSUME Inv, NEW S, remove_expired_unlocked(S)
    PROVE  Inv'
<1>1. IsMap(store', Key, Value) /\ DOMAIN store' = DOMAIN store \ S
  BY DEF Inv, TypeOK, remove_expired_unlocked, IsMap, Erase, Restrict
<1>2. /\ IsMap(list_store', Key, Seq(Value)) /\ DOMAIN list_store' = DOMAIN list_store \ S
      /\ \A x \in DOMAIN list_store' : list_store'[x] = list_store[x]
  BY DEF Inv, TypeOK, remove_expired_unlocked, IsMap, Erase, Restrict
<1>3. IsMap(expiry', Key, Nat) /\ DOMAIN expiry' = DOMAIN expiry \ S
  BY DEF Inv, TypeOK, remove_expired_unlocked, IsMap, Erase, Restrict
<1> QED
  BY <1>1, <1>2, <1>3
  DEF Inv, TypeOK, OneTypePerKey, NoOrphanDeadline, NoEmptyList, Present

\* The same for an operation during which time passes, as EXISTS, KEYS and
\* DBSIZE read the clock for every key.
LEMMA LateInv ==
    ASSUME Inv, NEW S, NEW lag \in Nat, remove_while_time_passes(S, lag)
    PROVE  Inv'
<1>1. IsMap(store', Key, Value) /\ DOMAIN store' = DOMAIN store \ S
  BY DEF Inv, TypeOK, remove_while_time_passes, IsMap, Erase, Restrict
<1>2. /\ IsMap(list_store', Key, Seq(Value)) /\ DOMAIN list_store' = DOMAIN list_store \ S
      /\ \A x \in DOMAIN list_store' : list_store'[x] = list_store[x]
  BY DEF Inv, TypeOK, remove_while_time_passes, IsMap, Erase, Restrict
<1>3. IsMap(Elapse(lag), Key, Nat) /\ DOMAIN Elapse(lag) = DOMAIN expiry
  BY DEF Inv, TypeOK, IsMap, Elapse
<1>4. IsMap(expiry', Key, Nat) /\ DOMAIN expiry' = DOMAIN expiry \ S
  BY <1>3 DEF remove_while_time_passes, IsMap, Restrict
<1> QED
  BY <1>1, <1>2, <1>4
  DEF Inv, TypeOK, OneTypePerKey, NoOrphanDeadline, NoEmptyList, Present

\* set() makes the key a string, whatever it was, and drops its deadline.
LEMMA SetInv ==
    ASSUME Inv, NEW k \in Key, NEW v \in Value, set(k, v)
    PROVE  Inv'
<1>1. IsMap(store', Key, Value) /\ DOMAIN store' = DOMAIN store \cup {k}
  BY DEF Inv, TypeOK, set, IsMap, Put
<1>2. /\ IsMap(list_store', Key, Seq(Value)) /\ DOMAIN list_store' = DOMAIN list_store \ {k}
      /\ \A x \in DOMAIN list_store' : list_store'[x] = list_store[x]
  BY DEF Inv, TypeOK, set, IsMap, Erase, Restrict
<1>3. IsMap(expiry', Key, Nat) /\ DOMAIN expiry' = DOMAIN expiry \ {k}
  BY DEF Inv, TypeOK, set, IsMap, Erase, Restrict
<1> QED
  BY <1>1, <1>2, <1>3
  DEF Inv, TypeOK, OneTypePerKey, NoOrphanDeadline, NoEmptyList, Present

\* The list an operation works on is a sequence of values.
LEMMA ListAtType ==
    ASSUME Inv, NEW k \in Key
    PROVE  ListAt(k) \in Seq(Value)
BY DEF Inv, TypeOK, IsMap, ListAt

\* A push refuses a live string and otherwise makes the key a non-empty list;
\* an expired key of either type is gone from all maps before.
LEMMA PushInv ==
    ASSUME Inv, NEW k \in Key, NEW op,
           NEW list \in Seq(Value), list # <<>>, Push(op, k, list)
    PROVE  Inv'
<1>1. CASE k \in DOMAIN store /\ ~is_expired_unlocked(k)
  BY <1>1 DEF Push, maps, Inv, TypeOK, OneTypePerKey, NoOrphanDeadline, NoEmptyList, Present
<1>2. CASE ~(k \in DOMAIN store /\ ~is_expired_unlocked(k))
  <2>1. IsMap(store', Key, Value) /\ DOMAIN store' = DOMAIN store \ Expired(k)
    BY <1>2 DEF Push, Inv, TypeOK, IsMap, Erase, Restrict
  <2>2. /\ IsMap(list_store', Key, Seq(Value)) /\ DOMAIN list_store' = DOMAIN list_store \cup {k}
        /\ \A x \in DOMAIN list_store' : list_store'[x] = IF x = k THEN list ELSE list_store[x]
    BY <1>2 DEF Push, Inv, TypeOK, IsMap, Put
  <2>3. IsMap(expiry', Key, Nat) /\ DOMAIN expiry' = DOMAIN expiry \ Expired(k)
    BY <1>2 DEF Push, Inv, TypeOK, IsMap, Erase, Restrict
  <2>4. k \notin DOMAIN store'
    BY <1>2, <2>1 DEF Expired
  <2> QED
    BY <2>1, <2>2, <2>3, <2>4
    DEF Inv, TypeOK, OneTypePerKey, NoOrphanDeadline, NoEmptyList, Present, Expired
<1> QED
  BY <1>1, <1>2

\* A pop keeps a shorter list, or deletes it with its deadline when nothing
\* is left.
LEMMA PopInv ==
    ASSUME Inv, NEW k \in Key, NEW op, NEW element,
           NEW rest, ListAt(k) # <<>> => rest \in Seq(Value), Pop(op, k, rest, element)
    PROVE  Inv'
<1>1. CASE ListAt(k) = <<>>
  <2>1. k \in DOMAIN list_store => is_expired_unlocked(k)
    BY <1>1 DEF Inv, NoEmptyList, ListAt
  <2>2. Erase(list_store, {k}) = Erase(list_store, Expired(k))
    BY <2>1 DEF Erase, Restrict, Expired
  <2>3. Expired(k) \cup ({k} \cap DOMAIN list_store) = Expired(k)
    BY <2>1 DEF Expired
  <2>4. remove_expired_unlocked(Expired(k))
    BY <1>1, <2>2, <2>3, Zenon DEF Pop, remove_expired_unlocked
  <2> QED
    BY <2>4, RemoveInv
<1>2. CASE ListAt(k) # <<>> /\ rest = <<>>
  <2>1. store' = store /\ k \notin DOMAIN store
    BY <1>2 DEF Pop, ListAt, Inv, OneTypePerKey
  <2>2. /\ IsMap(list_store', Key, Seq(Value)) /\ DOMAIN list_store' = DOMAIN list_store \ {k}
        /\ \A x \in DOMAIN list_store' : list_store'[x] = list_store[x]
    BY <1>2 DEF Pop, Inv, TypeOK, IsMap, Erase, Restrict
  <2>3. IsMap(expiry', Key, Nat) /\ DOMAIN expiry' = DOMAIN expiry \ {k}
    BY <1>2 DEF Pop, Inv, TypeOK, IsMap, Erase, Restrict
  <2> QED
    BY <2>1, <2>2, <2>3
    DEF Inv, TypeOK, OneTypePerKey, NoOrphanDeadline, NoEmptyList, Present
<1>3. CASE ListAt(k) # <<>> /\ rest # <<>>
  <2>1. store' = store /\ expiry' = expiry /\ k \in DOMAIN list_store
    BY <1>3 DEF Pop, ListAt
  <2>2. /\ IsMap(list_store', Key, Seq(Value)) /\ DOMAIN list_store' = DOMAIN list_store
        /\ \A x \in DOMAIN list_store' : list_store'[x] = IF x = k THEN rest ELSE list_store[x]
    BY <1>3, <2>1 DEF Pop, Inv, TypeOK, IsMap, Put
  <2> QED
    BY <1>3, <2>1, <2>2
    DEF Inv, TypeOK, OneTypePerKey, NoOrphanDeadline, NoEmptyList, Present
<1> QED
  BY <1>1, <1>2, <1>3

\* A change of deadlines alone keeps the maps consistent when only a key
\* that exists can gain one.
LEMMA DeadlineInv ==
    ASSUME Inv, UNCHANGED <<store, list_store>>,
           IsMap(expiry', Key, Nat), DOMAIN expiry' \subseteq Present
    PROVE  Inv'
BY DEF Inv, TypeOK, OneTypePerKey, NoOrphanDeadline, NoEmptyList, Present

\* The operations on deadlines: EXPIRE, TTL and PERSIST.
LEMMA TtlOpInv ==
    ASSUME Inv, NEW k \in Key, TtlOp(k)
    PROVE  Inv'
<1>1. ASSUME NEW s \in Seconds, expire(k, s)
      PROVE  Inv'
  <2>1. CASE k \in Live
    <3>1. s * TicksPerSecond \in Nat
      BY DatabaseAssumption
    <3>2. PICK lag \in 0 .. MaxLag : expiry' = Put(Elapse(lag), k, s * TicksPerSecond)
      BY <1>1, <2>1, Zenon DEF expire
    <3>3. IsMap(Elapse(lag), Key, Nat) /\ DOMAIN Elapse(lag) = DOMAIN expiry
      BY DatabaseAssumption DEF Inv, TypeOK, IsMap, Elapse
    <3>4. IsMap(expiry', Key, Nat) /\ DOMAIN expiry' = DOMAIN expiry \cup {k}
      BY <3>1, <3>2, <3>3 DEF IsMap, Put
    <3>5. DOMAIN expiry' \subseteq Present
      BY <2>1, <3>4 DEF Live, Inv, NoOrphanDeadline
    <3>6. UNCHANGED <<store, list_store>>
      BY <1>1, <2>1, Zenon DEF expire
    <3> QED
      BY <3>4, <3>5, <3>6, DeadlineInv
  <2>2. CASE k \notin Live
    BY <1>1, <2>2, RemoveInv DEF expire
  <2> QED
    BY <2>1, <2>2
<1>2. ASSUME NEW lag \in 0 .. MaxLag, ttl(k, lag)
      PROVE  Inv'
  <2>1. CASE k \in Live
    <3>1. IsMap(expiry', Key, Nat) /\ DOMAIN expiry' = DOMAIN expiry
      BY <1>2, <2>1, DatabaseAssumption DEF ttl, Inv, TypeOK, IsMap, Elapse
    <3> QED
      BY <1>2, <2>1, <3>1, DeadlineInv DEF ttl, Inv, NoOrphanDeadline
  <2>2. CASE k \notin Live
    BY <1>2, <2>2, RemoveInv DEF ttl
  <2> QED
    BY <2>1, <2>2
<1>3. ASSUME persist(k)
      PROVE  Inv'
  <2>1. CASE k \in Live
    <3>1. IsMap(expiry', Key, Nat) /\ DOMAIN expiry' = DOMAIN expiry \ {k}
      BY <1>3, <2>1 DEF persist, Inv, TypeOK, IsMap, Erase, Restrict
    <3> QED
      BY <1>3, <2>1, <3>1, DeadlineInv DEF persist, Inv, NoOrphanDeadline
  <2>2. CASE k \notin Live
    BY <1>3, <2>2, RemoveInv DEF persist
  <2> QED
    BY <2>1, <2>2
<1> QED
  BY <1>1, <1>2, <1>3 DEF TtlOp

\* The operations on one list.
LEMMA ListOpInv ==
    ASSUME Inv, NEW k \in Key, ListOp(k)
    PROVE  Inv'
<1> DEFINE L == ListAt(k)
<1>0. L \in Seq(Value)
  BY ListAtType
<1>1. ASSUME NEW b \in Batches, lpush(k, b)
      PROVE  Inv'
  <2>1. b \in Seq(Value) /\ b # <<>>
    BY DatabaseAssumption
  <2>2. Reverse(b) \in Seq(Value) /\ Len(Reverse(b)) = Len(b)
    BY <2>1 DEF Reverse
  <2>3. Reverse(b) \o L \in Seq(Value) /\ Reverse(b) \o L # <<>>
    BY <1>0, <2>1, <2>2
  <2> QED
    BY <1>1, <2>3, PushInv, Zenon DEF lpush
<1>2. ASSUME NEW b \in Batches, rpush(k, b)
      PROVE  Inv'
  <2>1. b \in Seq(Value) /\ b # <<>>
    BY DatabaseAssumption
  <2>2. L \o b \in Seq(Value) /\ L \o b # <<>>
    BY <1>0, <2>1
  <2> QED
    BY <1>2, <2>2, PushInv, Zenon DEF rpush
<1>3. ASSUME lpop(k)
      PROVE  Inv'
  <2>1. L # <<>> => Tail(L) \in Seq(Value)
    BY <1>0
  <2> QED
    BY <1>3, <2>1, PopInv, Zenon DEF lpop
<1>4. ASSUME rpop(k)
      PROVE  Inv'
  <2>1. L # <<>> => Front(L) \in Seq(Value)
    BY <1>0 DEF Front
  <2> QED
    BY <1>4, <2>1, PopInv DEF rpop
<1>5. ASSUME llen(k)
      PROVE  Inv'
  BY <1>5, RemoveInv DEF llen
<1>6. ASSUME NEW i \in Indices, NEW j \in Indices, lrange(k, i, j)
      PROVE  Inv'
  BY <1>6, RemoveInv DEF lrange
<1>7. ASSUME NEW i \in Indices, lindex(k, i)
      PROVE  Inv'
  BY <1>7, RemoveInv DEF lindex
<1> QED
  BY <1>1, <1>2, <1>3, <1>4, <1>5, <1>6, <1>7 DEF ListOp

\* The operations on several keys or on all of them.
LEMMA KeyspaceOpInv ==
    ASSUME Inv, KeyspaceOp
    PROVE  Inv'
<1>1. ASSUME NEW ks \in KeyArgs, del(ks)
      PROVE  Inv'
  BY <1>1, RemoveInv DEF del, remove_expired_unlocked
<1>2. ASSUME NEW ks \in KeyArgs, exists(ks)
      PROVE  Inv'
  <2>1. \E lag \in 0 .. MaxLag : \E S : remove_while_time_passes(S, lag)
    BY <1>2, Zenon DEF exists
  <2> QED BY <2>1, LateInv, DatabaseAssumption
<1>3. ASSUME keys \/ dbsize
      PROVE  Inv'
  <2>1. \E lag \in 0 .. MaxLag : \E S : remove_while_time_passes(S, lag)
    BY <1>3, Zenon DEF keys, dbsize
  <2> QED BY <2>1, LateInv, DatabaseAssumption
<1>4. ASSUME flushdb
      PROVE  Inv'
  BY <1>4 DEF flushdb, Inv, TypeOK, IsMap, OneTypePerKey, NoOrphanDeadline, NoEmptyList, Present
<1> QED
  BY <1>1, <1>2, <1>3, <1>4, Zenon DEF KeyspaceOp

-----------------------------------------------------------------------------
(* The invariant *)

\* Every step of Next preserves the invariant.
LEMMA NextInv == Inv /\ [Next]_vars => Inv'
<1> SUFFICES ASSUME Inv, [Next]_vars
             PROVE  Inv'
  OBVIOUS
<1>1. ASSUME NEW k \in Key, StringOp(k)
      PROVE  Inv'
  BY <1>1, SetInv, RemoveInv DEF StringOp, get
<1>2. ASSUME NEW k \in Key, ListOp(k) \/ TtlOp(k)
      PROVE  Inv'
  BY <1>2, ListOpInv, TtlOpInv
<1>3. CASE KeyspaceOp
  BY <1>3, KeyspaceOpInv
<1>4. ASSUME NEW sample \in SUBSET DOMAIN expiry, expiry_scan(sample)
      PROVE  Inv'
  BY <1>4, RemoveInv DEF expiry_scan
<1>5. CASE Tick
  <2>1. IsMap(expiry', Key, Nat) /\ DOMAIN expiry' = DOMAIN expiry
    BY <1>5 DEF Tick, Inv, TypeOK, IsMap, Elapse
  <2> QED
    BY <1>5, <2>1, DeadlineInv DEF Tick, Inv, NoOrphanDeadline
<1>6. CASE UNCHANGED vars
  BY <1>6 DEF vars, Inv, TypeOK, OneTypePerKey, NoOrphanDeadline, NoEmptyList, Present
<1> QED
  BY <1>1, <1>2, <1>3, <1>4, <1>5, <1>6 DEF Next

\* The maps are consistent in every reachable state: no key is both a string
\* and a list, no deadline outlives its key, no list is empty.
THEOREM MapsConsistent ==
    Spec => [](TypeOK /\ OneTypePerKey /\ NoOrphanDeadline /\ NoEmptyList)
<1>1. Init => Inv
  BY DEF Init, Inv, TypeOK, IsMap, OneTypePerKey, NoOrphanDeadline, NoEmptyList, Present
<1>2. Inv => TypeOK /\ OneTypePerKey /\ NoOrphanDeadline /\ NoEmptyList
  BY DEF Inv
<1> QED
  BY <1>1, <1>2, NextInv, PTL DEF Spec

\* No deadline outlives its key, so a push may leave expiry_ alone.
COROLLARY DeadlinesHaveKeys == Spec => []NoOrphanDeadline
BY MapsConsistent, PTL

\* A list is gone with its last element, whichever operation took it.
COROLLARY ListsHaveElements == Spec => []NoEmptyList
BY MapsConsistent, PTL

-----------------------------------------------------------------------------
(* A new key has no deadline *)

\* Removing keys together with their deadlines brings no key to life.
LEMMA RemoveBorn ==
    ASSUME Inv, NEW S, remove_expired_unlocked(S)
    PROVE  BornWithoutDeadline
<1>1. DOMAIN store' = DOMAIN store \ S /\ DOMAIN list_store' = DOMAIN list_store \ S
  BY DEF remove_expired_unlocked, Erase, Restrict
<1>2. /\ DOMAIN expiry' = DOMAIN expiry \ S
      /\ \A x \in DOMAIN expiry' : expiry'[x] = expiry[x]
  BY DEF remove_expired_unlocked, Erase, Restrict
<1> QED
  BY <1>1, <1>2 DEF BornWithoutDeadline, Live, Present, is_expired_unlocked

\* Nor does it while time passes.
LEMMA LateBorn ==
    ASSUME Inv, NEW S, NEW lag \in Nat, remove_while_time_passes(S, lag)
    PROVE  BornWithoutDeadline
<1>1. DOMAIN store' = DOMAIN store \ S /\ DOMAIN list_store' = DOMAIN list_store \ S
  BY DEF remove_while_time_passes, Erase, Restrict
<1>2. /\ DOMAIN expiry' = DOMAIN expiry \ S
      /\ \A x \in DOMAIN expiry' : expiry[x] <= 0 => expiry'[x] <= 0
  BY DEF remove_while_time_passes, Elapse, Restrict, Inv, TypeOK, IsMap
<1> QED
  BY <1>1, <1>2 DEF BornWithoutDeadline, Live, Present, is_expired_unlocked

\* set() drops the deadline of the one key it can bring to life.
LEMMA SetBorn ==
    ASSUME Inv, NEW k \in Key, NEW v \in Value, set(k, v)
    PROVE  BornWithoutDeadline
<1>1. DOMAIN store' = DOMAIN store \cup {k} /\ DOMAIN list_store' = DOMAIN list_store \ {k}
  BY DEF set, Put, Erase, Restrict
<1>2. /\ DOMAIN expiry' = DOMAIN expiry \ {k}
      /\ \A x \in DOMAIN expiry' : expiry'[x] = expiry[x]
  BY DEF set, Erase, Restrict
<1> QED
  BY <1>1, <1>2 DEF BornWithoutDeadline, Live, Present, is_expired_unlocked

\* A push brings its key to life only when the key was absent, and then has
\* no deadline by NoOrphanDeadline, or expired, and then the deadline goes.
LEMMA PushBorn ==
    ASSUME Inv, NEW k \in Key, NEW op, NEW list, Push(op, k, list)
    PROVE  BornWithoutDeadline
<1>1. CASE k \in DOMAIN store /\ ~is_expired_unlocked(k)
  BY <1>1 DEF Push, maps, BornWithoutDeadline, Live, Present, is_expired_unlocked
<1>2. CASE ~(k \in DOMAIN store /\ ~is_expired_unlocked(k))
  <2>1. /\ DOMAIN store' = DOMAIN store \ Expired(k)
        /\ DOMAIN list_store' = DOMAIN list_store \cup {k}
    BY <1>2 DEF Push, Put, Erase, Restrict
  <2>2. /\ DOMAIN expiry' = DOMAIN expiry \ Expired(k)
        /\ \A x \in DOMAIN expiry' : expiry'[x] = expiry[x]
    BY <1>2 DEF Push, Erase, Restrict
  <2>3. \A x \in Key : x \notin Present => x \notin DOMAIN expiry
    BY DEF Inv, NoOrphanDeadline
  <2> QED
    BY <2>1, <2>2, <2>3 DEF BornWithoutDeadline, Live, Present, Expired, is_expired_unlocked
<1> QED
  BY <1>1, <1>2

\* A pop brings no key to life.
LEMMA PopBorn ==
    ASSUME Inv, NEW k \in Key, NEW op, NEW rest, NEW element, Pop(op, k, rest, element)
    PROVE  BornWithoutDeadline
<1>1. DOMAIN store' \subseteq DOMAIN store /\ DOMAIN list_store' \subseteq DOMAIN list_store
  BY DEF Pop, Put, Erase, Restrict, ListAt
<1>2. /\ DOMAIN expiry \ {k} \subseteq DOMAIN expiry'
      /\ DOMAIN expiry' \subseteq DOMAIN expiry
      /\ \A x \in DOMAIN expiry' : expiry'[x] = expiry[x]
  BY DEF Pop, Erase, Restrict, Expired
<1>3. k \in DOMAIN expiry \ DOMAIN expiry' => k \notin Present'
  <2> SUFFICES ASSUME k \in DOMAIN expiry, k \notin DOMAIN expiry'
               PROVE  k \notin DOMAIN store' /\ k \notin DOMAIN list_store'
    BY DEF Present
  <2>1. k \notin DOMAIN list_store'
    BY DEF Pop, Erase, Restrict
  <2>2. CASE k \in Expired(k)
    BY <2>2, <2>1 DEF Pop, ListAt, Expired, Erase, Restrict
  <2>3. CASE k \notin Expired(k)
    <3>1. k \in DOMAIN list_store
      BY <2>3 DEF Pop, ListAt, Erase, Restrict
    <3> QED
      BY <1>1, <2>1, <3>1 DEF Inv, OneTypePerKey
  <2> QED
    BY <2>2, <2>3
<1> QED
  BY <1>1, <1>2, <1>3 DEF BornWithoutDeadline, Live, Present, is_expired_unlocked

\* The passing of time brings no key to life: an expired key stays expired.
LEMMA ElapseBorn ==
    ASSUME Inv, NEW t \in Nat, UNCHANGED <<store, list_store>>, expiry' = Elapse(t)
    PROVE  BornWithoutDeadline
<1>1. /\ DOMAIN expiry' = DOMAIN expiry
      /\ \A x \in DOMAIN expiry : expiry[x] <= 0 => expiry'[x] <= 0
  BY DEF Elapse, Inv, TypeOK, IsMap
<1> QED
  BY <1>1 DEF BornWithoutDeadline, Live, Present, is_expired_unlocked

\* EXPIRE, TTL and PERSIST bring no key to life: the first and the last
\* change the deadline of a live key only.
LEMMA TtlOpBorn ==
    ASSUME Inv, NEW k \in Key, TtlOp(k)
    PROVE  BornWithoutDeadline
<1>1. ASSUME k \in Live, UNCHANGED <<store, list_store>>,
             \/ \E lag \in Nat : \E t : expiry' = Put(Elapse(lag), k, t)
             \/ expiry' = Erase(expiry, {k})
      PROVE  BornWithoutDeadline
  <2>1. \A x \in Key \ {k} : /\ x \in DOMAIN expiry' <=> x \in DOMAIN expiry
                            /\ x \in DOMAIN expiry /\ expiry[x] <= 0 => expiry'[x] <= 0
    <3>1. CASE expiry' = Erase(expiry, {k})
      BY <3>1 DEF Erase, Restrict
    <3>2. ASSUME NEW lag \in Nat, NEW t, expiry' = Put(Elapse(lag), k, t)
          PROVE  \A x \in Key \ {k} :
                     /\ x \in DOMAIN expiry' <=> x \in DOMAIN expiry
                     /\ x \in DOMAIN expiry /\ expiry[x] <= 0 => expiry'[x] <= 0
      BY <3>2 DEF Put, Elapse, Inv, TypeOK, IsMap
    <3> QED BY <1>1, <3>1, <3>2
  <2> QED
    BY <1>1, <2>1 DEF BornWithoutDeadline, Live, Present, is_expired_unlocked
<1>2. ASSUME NEW s \in Seconds, expire(k, s)
      PROVE  BornWithoutDeadline
  <2>1. 0 .. MaxLag \subseteq Nat
    BY DatabaseAssumption
  <2> QED BY <1>1, <1>2, <2>1, RemoveBorn, Zenon DEF expire
<1>3. ASSUME NEW lag \in 0 .. MaxLag, ttl(k, lag)
      PROVE  BornWithoutDeadline
  BY <1>3, RemoveBorn, ElapseBorn, DatabaseAssumption DEF ttl
<1>4. ASSUME persist(k)
      PROVE  BornWithoutDeadline
  BY <1>1, <1>4, RemoveBorn, Zenon DEF persist
<1> QED
  BY <1>2, <1>3, <1>4 DEF TtlOp

\* Every step that brings a key to life leaves it without a deadline.
LEMMA NextBorn == Inv /\ [Next]_vars => [BornWithoutDeadline]_vars
<1> SUFFICES ASSUME Inv, Next
             PROVE  BornWithoutDeadline
  OBVIOUS
<1>1. ASSUME NEW k \in Key, StringOp(k)
      PROVE  BornWithoutDeadline
  BY <1>1, SetBorn, RemoveBorn DEF StringOp, get
<1>2. ASSUME NEW k \in Key, ListOp(k)
      PROVE  BornWithoutDeadline
  BY <1>2, PushBorn, PopBorn, RemoveBorn DEF ListOp, lpush, rpush, lpop, rpop, llen, lrange, lindex
<1>3. ASSUME NEW k \in Key, TtlOp(k)
      PROVE  BornWithoutDeadline
  BY <1>3, TtlOpBorn
<1>4. CASE KeyspaceOp
  <2>1. CASE flushdb
    BY <2>1 DEF flushdb, BornWithoutDeadline, Live, Present
  <2>2. CASE \E ks \in KeyArgs : del(ks)
    BY <2>2, RemoveBorn, Zenon DEF del, remove_expired_unlocked
  <2>3. CASE (\E ks \in KeyArgs : exists(ks)) \/ keys \/ dbsize
    <3>1. \E lag \in 0 .. MaxLag : \E S : remove_while_time_passes(S, lag)
      BY <2>3, Zenon DEF exists, keys, dbsize
    <3> QED BY <3>1, LateBorn, DatabaseAssumption
  <2> QED
    BY <1>4, <2>1, <2>2, <2>3, Zenon DEF KeyspaceOp
<1>5. ASSUME NEW sample \in SUBSET DOMAIN expiry, expiry_scan(sample)
      PROVE  BornWithoutDeadline
  BY <1>5, RemoveBorn DEF expiry_scan
<1>6. CASE Tick
  BY <1>6, ElapseBorn DEF Tick
<1> QED
  BY <1>1, <1>2, <1>3, <1>4, <1>5, <1>6 DEF Next

\* No key ever inherits the deadline of an earlier life of the same name.
THEOREM NoInheritedDeadline == Spec => NewKeyHasNoDeadline
<1>1. Init => Inv
  BY DEF Init, Inv, TypeOK, IsMap, OneTypePerKey, NoOrphanDeadline, NoEmptyList, Present
<1> QED
  BY <1>1, NextInv, NextBorn, PTL DEF Spec, NewKeyHasNoDeadline

-----------------------------------------------------------------------------
(* What clients see of a step.  Removing expired keys is not seen; every    *)
(* other operation changes what is seen of its own key only.                *)

\* What clients see of a live key.
View(k) ==
    [type |-> IF k \in DOMAIN store THEN "string" ELSE "list",
     val  |-> IF k \in DOMAIN store THEN store[k] ELSE list_store[k],
     left |-> IF k \in DOMAIN expiry THEN expiry[k] ELSE -1]

LeftOf(k) == IF k \in Live /\ k \in DOMAIN expiry THEN expiry[k] ELSE -1

\* What is seen with k given a value, and what is seen some ticks later.
Stored(k, type, val, left) ==
    [x \in Live \cup {k} |->
        IF x = k THEN [type |-> type, val |-> val, left |-> left] ELSE LiveView[x]]

Later(n) ==
    [x \in {y \in DOMAIN LiveView : LiveView[y].left = -1 \/ LiveView[y].left > n} |->
        [LiveView[x] EXCEPT !.left = IF @ = -1 THEN @ ELSE @ - n]]

\* All that clients see, key by key.
LEMMA Viewed ==
    /\ DOMAIN LiveView = Live
    /\ \A k \in Live : LiveView[k] = View(k)
BY DEF LiveView, View

\* Nothing is seen of a step after which the same keys look the same.
LEMMA SameView ==
    ASSUME Live' = Live, \A k \in Live : View(k)' = View(k)
    PROVE  LiveView' = LiveView
BY DEF LiveView, View

\* Removing keys that are not live is not seen.
LEMMA RemoveUnseen ==
    ASSUME Inv, NEW S, S \cap Live = {}, remove_expired_unlocked(S)
    PROVE  LiveView' = LiveView
<1>1. /\ DOMAIN store' = DOMAIN store \ S
      /\ \A x \in DOMAIN store' : store'[x] = store[x]
  BY DEF remove_expired_unlocked, Erase, Restrict
<1>2. /\ DOMAIN list_store' = DOMAIN list_store \ S
      /\ \A x \in DOMAIN list_store' : list_store'[x] = list_store[x]
  BY DEF remove_expired_unlocked, Erase, Restrict
<1>3. /\ DOMAIN expiry' = DOMAIN expiry \ S
      /\ \A x \in DOMAIN expiry' : expiry'[x] = expiry[x]
  BY DEF remove_expired_unlocked, Erase, Restrict
<1>4. Live' = Live
  BY <1>1, <1>2, <1>3 DEF Live, Present, is_expired_unlocked
<1>5. \A k \in Live : View(k)' = View(k)
  <2> SUFFICES ASSUME NEW k \in Live PROVE View(k)' = View(k)
    OBVIOUS
  <2>1. k \notin S /\ k \in DOMAIN store \cup DOMAIN list_store
    BY DEF Live, Present
  <2> QED BY <2>1, <1>1, <1>2, <1>3 DEF View
<1> QED BY <1>4, <1>5, SameView

\* What the lazy check of an operation removes is not live.
LEMMA LazyUnseen ==
    ASSUME Inv, NEW k, remove_expired_unlocked(Expired(k))
    PROVE  LiveView' = LiveView
<1>1. Expired(k) \cap Live = {}
  BY DEF Expired, Live
<1> QED BY <1>1, RemoveUnseen

-----------------------------------------------------------------------------
(* Operations that are seen *)

\* A key becomes, or stays, live with a new value; the others stay as they are.
LEMMA StoreSeen ==
    ASSUME NEW k \in Key, NEW type, NEW val, NEW left,
           Live' = Live \cup {k},
           View(k)' = [type |-> type, val |-> val, left |-> left],
           \A x \in Live \ {k} : View(x)' = View(x)
    PROVE  LiveView' = Stored(k, type, val, left)
<1>1. LiveView' = [x \in Live' |-> View(x)']
  BY DEF LiveView, View
<1>2. \A x \in Live \cup {k} :
          View(x)' = IF x = k THEN [type |-> type, val |-> val, left |-> left] ELSE LiveView[x]
  BY Viewed
<1> QED BY <1>1, <1>2, Viewed DEF Stored

\* A SET makes its key a live string without a deadline.
LEMMA SetSeen ==
    ASSUME Inv, NEW k \in Key, NEW v \in Value, set(k, v)
    PROVE  LiveView' = Stored(k, "string", v, -1)
<1>1. /\ DOMAIN store' = DOMAIN store \cup {k}
      /\ \A x \in DOMAIN store' : store'[x] = IF x = k THEN v ELSE store[x]
  BY DEF set, Put
<1>2. /\ DOMAIN list_store' = DOMAIN list_store \ {k}
      /\ \A x \in DOMAIN list_store' : list_store'[x] = list_store[x]
  BY DEF set, Erase, Restrict
<1>3. /\ DOMAIN expiry' = DOMAIN expiry \ {k}
      /\ \A x \in DOMAIN expiry' : expiry'[x] = expiry[x]
  BY DEF set, Erase, Restrict
<1>4. Live' = Live \cup {k}
  BY <1>1, <1>2, <1>3 DEF Live, Present, is_expired_unlocked
<1>5. View(k)' = [type |-> "string", val |-> v, left |-> -1]
  BY <1>1, <1>3 DEF View
<1>6. \A x \in Live \ {k} : View(x)' = View(x)
  BY <1>1, <1>2, <1>3 DEF View, Live, Present
<1> QED BY <1>4, <1>5, <1>6, StoreSeen

\* Keys that are removed with their deadlines are gone; the others stay.
LEMMA GoneSeen ==
    ASSUME Inv, NEW S, Live' = Live \ S, \A x \in Live \ S : View(x)' = View(x)
    PROVE  LiveView' = Restrict(LiveView, DOMAIN LiveView \cap (Key \ S))
<1>1. Live \subseteq Key
  BY DEF Inv, TypeOK, IsMap, Live, Present
<1>2. LiveView' = [x \in Live' |-> View(x)']
  BY DEF LiveView, View
<1>3. DOMAIN LiveView \cap (Key \ S) = Live \ S
  BY <1>1, Viewed
<1> QED BY <1>2, <1>3, Viewed DEF Restrict

\* DEL removes all its keys, the expired ones included.
LEMMA DelSeen ==
    ASSUME Inv, NEW ks \in KeyArgs, del(ks)
    PROVE  /\ LiveView' = Restrict(LiveView, DOMAIN LiveView \cap (Key \ Range(ks)))
           /\ Present' = Present \ Range(ks) /\ Live' = Live \ Range(ks)
<1> DEFINE removed == Range(ks) \cap Present
<1>1. /\ DOMAIN store' = DOMAIN store \ removed
      /\ \A x \in DOMAIN store' : store'[x] = store[x]
  BY DEF del, Erase, Restrict
<1>2. /\ DOMAIN list_store' = DOMAIN list_store \ removed
      /\ \A x \in DOMAIN list_store' : list_store'[x] = list_store[x]
  BY DEF del, Erase, Restrict
<1>3. /\ DOMAIN expiry' = DOMAIN expiry \ removed
      /\ \A x \in DOMAIN expiry' : expiry'[x] = expiry[x]
  BY DEF del, Erase, Restrict
<1>4. Live' = Live \ Range(ks)
  BY <1>1, <1>2, <1>3 DEF Live, Present, is_expired_unlocked
<1>5. \A x \in Live \ Range(ks) : View(x)' = View(x)
  BY <1>1, <1>2, <1>3 DEF View, Live, Present
<1>6. LiveView' = Restrict(LiveView, DOMAIN LiveView \cap (Key \ Range(ks)))
  BY <1>4, <1>5, GoneSeen
<1>7. Present' = Present \ Range(ks)
  BY <1>1, <1>2 DEF Present
<1> QED BY <1>4, <1>6, <1>7

\* A push keeps the TTL of a live list and gives a new one none.
LEMMA PushSeen ==
    ASSUME Inv, NEW k \in Key, NEW op, NEW list, Push(op, k, list),
           ~(k \in DOMAIN store /\ ~is_expired_unlocked(k))
    PROVE  LiveView' = Stored(k, "list", list, LeftOf(k))
<1>0. /\ Len(list) <= MaxListLen
      /\ store' = Erase(store, Expired(k))
      /\ list_store' = Put(list_store, k, list)
      /\ expiry' = Erase(expiry, Expired(k))
      /\ Returns(op, Len(list))
  BY DEF Push
<1>1. /\ DOMAIN store' = DOMAIN store \ Expired(k)
      /\ \A x \in DOMAIN store' : store'[x] = store[x]
  BY <1>0 DEF Erase, Restrict
<1>2. /\ DOMAIN list_store' = DOMAIN list_store \cup {k}
      /\ \A x \in DOMAIN list_store' : list_store'[x] = IF x = k THEN list ELSE list_store[x]
  BY <1>0 DEF Put
<1>3. /\ DOMAIN expiry' = DOMAIN expiry \ Expired(k)
      /\ \A x \in DOMAIN expiry' : expiry'[x] = expiry[x]
  BY <1>0 DEF Erase, Restrict
<1>4. Expired(k) = IF is_expired_unlocked(k) THEN {k} ELSE {}
  BY DEF Expired
<1>5. k \notin DOMAIN store'
  BY <1>1, <1>4
<1>6. Live' = Live \cup {k}
  <2>1. ~is_expired_unlocked(k)'
    BY <1>3, <1>4 DEF is_expired_unlocked
  <2>2. k \in Live'
    BY <2>1, <1>2 DEF Live, Present
  <2>3. ASSUME NEW x, x # k PROVE x \in Live' <=> x \in Live
    BY <2>3, <1>1, <1>2, <1>3, <1>4 DEF Live, Present, is_expired_unlocked
  <2> QED BY <2>2, <2>3
<1>7. (IF k \in DOMAIN expiry' THEN expiry'[k] ELSE -1) = LeftOf(k)
  <2>1. k \in DOMAIN expiry => k \in DOMAIN store \cup DOMAIN list_store
    BY DEF Inv, NoOrphanDeadline, Present
  <2>2. k \in Live <=> k \in DOMAIN store \cup DOMAIN list_store /\ ~is_expired_unlocked(k)
    BY DEF Live, Present
  <2> QED BY <2>1, <2>2, <1>3, <1>4 DEF LeftOf
<1>8. View(k)' = [type |-> "list", val |-> list, left |-> LeftOf(k)]
  BY <1>2, <1>5, <1>7 DEF View
<1>9. \A x \in Live \ {k} : View(x)' = View(x)
  BY <1>1, <1>2, <1>3, <1>4 DEF View, Live, Present
<1> QED BY <1>6, <1>8, <1>9, StoreSeen

\* A pop from a live list keeps the rest and its deadline, or ends the list.
LEMMA PopSeen ==
    ASSUME Inv, NEW k \in Key, NEW op, NEW rest, NEW element, Pop(op, k, rest, element),
           ListAt(k) # <<>>
    PROVE  LiveView' = IF rest = <<>>
                       THEN Restrict(LiveView, DOMAIN LiveView \cap (Key \ {k}))
                       ELSE Stored(k, "list", rest, LeftOf(k))
<1>1. k \in DOMAIN list_store /\ ~is_expired_unlocked(k) /\ k \notin DOMAIN store
  BY DEF ListAt, Inv, OneTypePerKey
<1>2. k \in Live
  BY <1>1 DEF Live, Present
<1>3. UNCHANGED store
  BY DEF Pop
<1>4. CASE rest = <<>>
  <2>1. /\ DOMAIN list_store' = DOMAIN list_store \ {k}
        /\ \A x \in DOMAIN list_store' : list_store'[x] = list_store[x]
    BY <1>4 DEF Pop, Erase, Restrict
  <2>2. /\ DOMAIN expiry' = DOMAIN expiry \ {k}
        /\ \A x \in DOMAIN expiry' : expiry'[x] = expiry[x]
    BY <1>4 DEF Pop, Erase, Restrict
  <2>3. Live' = Live \ {k}
    BY <1>1, <1>3, <2>1, <2>2 DEF Live, Present, is_expired_unlocked
  <2>4. \A x \in Live \ {k} : View(x)' = View(x)
    BY <1>3, <2>1, <2>2 DEF View, Live, Present
  <2> QED BY <1>4, <2>3, <2>4, GoneSeen, Zenon
<1>5. CASE rest # <<>>
  <2>1. /\ DOMAIN list_store' = DOMAIN list_store
        /\ \A x \in DOMAIN list_store' : list_store'[x] = IF x = k THEN rest ELSE list_store[x]
    BY <1>1, <1>5, Zenon DEF Pop, Put
  <2>2. UNCHANGED expiry
    BY <1>5 DEF Pop
  <2>3. Live' = Live \cup {k}
    BY <1>2, <1>3, <2>1, <2>2 DEF Live, Present, is_expired_unlocked
  <2>4. View(k)' = [type |-> "list", val |-> rest, left |-> LeftOf(k)]
    BY <1>1, <1>2, <1>3, <2>1, <2>2 DEF View, LeftOf
  <2>5. \A x \in Live \ {k} : View(x)' = View(x)
    BY <1>3, <2>1, <2>2 DEF View, Live, Present
  <2> QED BY <1>5, <2>3, <2>4, <2>5, StoreSeen
<1> QED BY <1>4, <1>5

\* A pop from a key that holds no live list only cleans up.
LEMMA PopUnseen ==
    ASSUME Inv, NEW k \in Key, NEW op, NEW rest, NEW element, Pop(op, k, rest, element),
           ListAt(k) = <<>>
    PROVE  LiveView' = LiveView /\ ~(k \in DOMAIN list_store /\ ~is_expired_unlocked(k))
<1>1. k \in DOMAIN list_store => is_expired_unlocked(k)
  BY DEF Inv, NoEmptyList, ListAt
<1>2. Erase(list_store, {k}) = Erase(list_store, Expired(k))
  BY <1>1 DEF Erase, Restrict, Expired
<1>3. Expired(k) \cup ({k} \cap DOMAIN list_store) = Expired(k)
  BY <1>1 DEF Expired
<1>4. remove_expired_unlocked(Expired(k))
  BY <1>2, <1>3, Zenon DEF Pop, remove_expired_unlocked
<1> QED BY <1>1, <1>4, LazyUnseen

\* Time passes for all keys; a key is seen until its deadline.
LEMMA ElapseSeen ==
    ASSUME Inv, NEW n \in Nat, expiry' = Elapse(n), UNCHANGED <<store, list_store>>
    PROVE  LiveView' = Later(n)
<1>1. /\ DOMAIN expiry' = DOMAIN expiry
      /\ \A x \in DOMAIN expiry : expiry'[x] = IF expiry[x] > n THEN expiry[x] - n ELSE 0
  BY DEF Elapse
<1>2. \A x \in DOMAIN expiry : expiry[x] \in Nat
  BY DEF Inv, TypeOK, IsMap
<1> DEFINE kept == {x \in DOMAIN LiveView : LiveView[x].left = -1 \/ LiveView[x].left > n}
<1>3. \A x \in Live : LiveView[x].left = IF x \in DOMAIN expiry THEN expiry[x] ELSE -1
  BY Viewed DEF View
<1>4. Live' = kept
  BY <1>1, <1>2, <1>3, Viewed DEF Live, Present, is_expired_unlocked
<1>5. ASSUME NEW x \in kept
      PROVE  View(x)' = [LiveView[x] EXCEPT !.left = IF @ = -1 THEN @ ELSE @ - n]
  <2>1. x \in Live /\ LiveView[x] = View(x)
    BY Viewed
  <2>2. x \in DOMAIN expiry => expiry[x] > n /\ expiry[x] # -1
    BY <1>2, <1>3, <2>1
  <2> QED BY <1>1, <2>1, <2>2 DEF View
<1>6. LiveView' = [x \in Live' |-> View(x)']
  BY DEF LiveView, View
<1> QED BY <1>4, <1>5, <1>6 DEF Later

\* Removing, while time passes, keys whose deadlines are reached by the end is
\* not seen beyond the passing of the time.
LEMMA LateSeen ==
    ASSUME Inv, NEW S, NEW n \in Nat, remove_while_time_passes(S, n),
           \A x \in S : ExpiredAt(x, n)
    PROVE  LiveView' = Later(n) /\ Present' \subseteq Present
<1>1. /\ DOMAIN expiry' = DOMAIN expiry \ S
      /\ \A x \in DOMAIN expiry' : expiry'[x] = IF expiry[x] > n THEN expiry[x] - n ELSE 0
  BY DEF remove_while_time_passes, Elapse, Restrict
<1>2. \A x \in DOMAIN expiry : expiry[x] \in Nat
  BY DEF Inv, TypeOK, IsMap
<1>3. /\ DOMAIN store' = DOMAIN store \ S
      /\ \A x \in DOMAIN store' : store'[x] = store[x]
  BY DEF remove_while_time_passes, Erase, Restrict
<1>4. /\ DOMAIN list_store' = DOMAIN list_store \ S
      /\ \A x \in DOMAIN list_store' : list_store'[x] = list_store[x]
  BY DEF remove_while_time_passes, Erase, Restrict
<1>5. \A x \in S : x \in DOMAIN expiry /\ expiry[x] <= n
  BY DEF ExpiredAt
<1> DEFINE kept == {x \in DOMAIN LiveView : LiveView[x].left = -1 \/ LiveView[x].left > n}
<1>6. \A x \in Live : LiveView[x].left = IF x \in DOMAIN expiry THEN expiry[x] ELSE -1
  BY Viewed DEF View
<1>7. \A x \in kept : x \in Live /\ x \notin S
  BY <1>2, <1>5, <1>6, Viewed
<1>8. Live' = kept
  <2>1. ASSUME NEW x \in kept PROVE x \in Live'
    BY <1>1, <1>2, <1>3, <1>4, <1>6, <1>7 DEF Live, Present, is_expired_unlocked
  <2>2. ASSUME NEW x \in Live' PROVE x \in kept
    BY <1>1, <1>2, <1>3, <1>4, <1>6, Viewed DEF Live, Present, is_expired_unlocked
  <2> QED BY <2>1, <2>2
<1>9. ASSUME NEW x \in kept
      PROVE  View(x)' = [LiveView[x] EXCEPT !.left = IF @ = -1 THEN @ ELSE @ - n]
  <2>1. x \in Live /\ LiveView[x] = View(x) /\ x \notin S
    BY <1>7, Viewed
  <2>2. x \in DOMAIN expiry => expiry[x] > n /\ expiry[x] # -1
    BY <1>2, <1>6, <2>1
  <2>3. x \in DOMAIN store \cup DOMAIN list_store
    BY <2>1 DEF Live, Present
  <2> QED BY <1>1, <1>3, <1>4, <2>1, <2>2, <2>3 DEF View
<1>10. LiveView' = [x \in Live' |-> View(x)']
  BY DEF LiveView, View
<1>11. Present' \subseteq Present
  BY <1>3, <1>4 DEF Present
<1> QED BY <1>8, <1>9, <1>10, <1>11 DEF Later

\* A change of one deadline, or of none.
LEMMA LeftSeen ==
    ASSUME NEW k \in Live, NEW left, Live' = Live,
           View(k)' = [View(k) EXCEPT !.left = left],
           \A x \in Live \ {k} : View(x)' = View(x)
    PROVE  LiveView' = [LiveView EXCEPT ![k].left = left]
<1>1. LiveView' = [x \in Live |-> View(x)']
  BY DEF LiveView, View
<1>2. LiveView = [x \in Live |-> View(x)]
  BY DEF LiveView, View
<1> QED BY <1>1, <1>2

\* EXPIRE gives a live key its deadline; time passes for the others.
LEMMA ExpireSeen ==
    ASSUME Inv, NEW k \in Live, NEW s \in Seconds, expire(k, s)
    PROVE  \E lag \in 0 .. MaxLag :
               LiveView' = [x \in DOMAIN Later(lag) \cup {k} |->
                               IF x = k THEN [LiveView[k] EXCEPT !.left = s * TicksPerSecond]
                                        ELSE Later(lag)[x]]
<1>1. s * TicksPerSecond \in Nat \ {0}
  <2>1. s \in Nat \ {0} /\ TicksPerSecond \in Nat \ {0}
    BY DatabaseAssumption
  <2> QED BY <2>1
<1>2. PICK lag \in 0 .. MaxLag :
          /\ expiry' = Put(Elapse(lag), k, s * TicksPerSecond)
          /\ UNCHANGED <<store, list_store>>
  BY Zenon DEF expire
<1> DEFINE left == s * TicksPerSecond
           kept == {x \in DOMAIN LiveView : LiveView[x].left = -1 \/ LiveView[x].left > lag}
<1> HIDE DEF left
<1>3. /\ DOMAIN expiry' = DOMAIN expiry \cup {k}
      /\ expiry'[k] = left
      /\ \A x \in DOMAIN expiry \ {k} :
            expiry'[x] = IF expiry[x] > lag THEN expiry[x] - lag ELSE 0
  BY <1>2 DEF left, Put, Elapse
<1>4. left \in Nat \ {0} /\ lag \in Nat
  BY <1>1, DatabaseAssumption DEF left
<1>5. \A x \in DOMAIN expiry : expiry[x] \in Nat
  BY DEF Inv, TypeOK, IsMap
<1>6. \A x \in Live : LiveView[x].left = IF x \in DOMAIN expiry THEN expiry[x] ELSE -1
  BY Viewed DEF View
<1>7. Live' = kept \cup {k}
  BY <1>2, <1>3, <1>4, <1>5, <1>6, Viewed DEF Live, Present, is_expired_unlocked
<1>8. View(k)' = [LiveView[k] EXCEPT !.left = left]
  BY <1>2, <1>3, Viewed DEF View
<1>9. ASSUME NEW x \in kept, x # k
      PROVE  View(x)' = [LiveView[x] EXCEPT !.left = IF @ = -1 THEN @ ELSE @ - lag]
  <2>1. x \in Live /\ LiveView[x] = View(x)
    BY Viewed
  <2>2. x \in DOMAIN expiry => expiry[x] > lag /\ expiry[x] # -1
    BY <1>4, <1>5, <1>6, <2>1
  <2> QED BY <1>2, <1>3, <1>9, <2>1, <2>2 DEF View
<1>10. LiveView' = [x \in Live' |-> View(x)']
  BY DEF LiveView, View
<1>11. DOMAIN Later(lag) = kept
  BY DEF Later
<1>12. \A x \in kept : Later(lag)[x] = [LiveView[x] EXCEPT !.left = IF @ = -1 THEN @ ELSE @ - lag]
  BY DEF Later
<1>13. LiveView' = [x \in kept \cup {k} |->
                       IF x = k THEN [LiveView[k] EXCEPT !.left = left] ELSE Later(lag)[x]]
  BY <1>7, <1>8, <1>9, <1>10, <1>12
<1> QED BY <1>11, <1>13 DEF left

\* PERSIST takes the deadline of a live key away.
LEMMA PersistSeen ==
    ASSUME Inv, NEW k \in Live, persist(k)
    PROVE  /\ LiveView' = [LiveView EXCEPT ![k].left = -1]
           /\ k \notin DOMAIN expiry => LiveView' = LiveView
<1>1. /\ expiry' = Erase(expiry, {k}) /\ UNCHANGED <<store, list_store>>
      /\ Returns("persist", k \in DOMAIN expiry)
  BY DEF persist
<1>2. /\ DOMAIN expiry' = DOMAIN expiry \ {k}
      /\ \A x \in DOMAIN expiry' : expiry'[x] = expiry[x]
  BY <1>1 DEF Erase, Restrict
<1>3. Live' = Live
  BY <1>1, <1>2 DEF Live, Present, is_expired_unlocked
<1>4. View(k)' = [View(k) EXCEPT !.left = -1]
  BY <1>1, <1>2 DEF View
<1>5. \A x \in Live \ {k} : View(x)' = View(x)
  BY <1>1, <1>2 DEF View
<1>6. LiveView' = [LiveView EXCEPT ![k].left = -1]
  BY <1>3, <1>4, <1>5, LeftSeen
<1>7. ASSUME k \notin DOMAIN expiry PROVE LiveView' = LiveView
  <2>1. View(k)' = View(k)
    BY <1>1, <1>2, <1>7 DEF View
  <2> QED BY <1>3, <1>5, <2>1, SameView
<1> QED BY <1>6, <1>7

=============================================================================
