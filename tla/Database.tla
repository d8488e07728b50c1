------------------------------ MODULE Database ------------------------------
(***************************************************************************)
(* The in-memory store, class Database: three maps, store_ (strings),      *)
(* list_store_ (lists) and expiry_ (deadlines), all guarded by mutex_, so  *)
(* that an operation is one step.  The clients' commands come from the     *)
(* event loop; the scan of expiry_loop is a step of the background thread. *)
(*                                                                         *)
(* Time.  The code keeps absolute deadlines and only ever compares one     *)
(* with the steady clock or subtracts the clock from it, so expiry[k] here *)
(* is the time left, in ticks, and 0 once the deadline is reached; Tick is *)
(* the passing of one tick.  A tick is a fraction of a second.  Operations *)
(* that read the clock more than once have a lag: the ticks that pass      *)
(* while they hold the lock.                                               *)
(***************************************************************************)
EXTENDS Lists

CONSTANTS
    Key, Value,     \* keys, and the contents of strings and list elements
    Nil,            \* std::nullopt
    KeyArgs,        \* argument vectors of DEL and EXISTS
    Batches,        \* argument vectors of LPUSH and RPUSH
    Seconds,        \* arguments of EXPIRE
    Indices,        \* arguments of LRANGE and LINDEX
    TicksPerSecond,
    MaxLag,         \* bound: ticks that may pass inside one operation
    MAX_SAMPLE,     \* entries one active scan looks at
    MaxListLen      \* bound: pushes beyond this length are not explored

ASSUME DatabaseAssumption ==
    /\ Nil \notin Value
    /\ \A ks \in KeyArgs : ks \in Seq(Key)
    /\ \A b \in Batches : b \in Seq(Value) /\ b # <<>>
    /\ Seconds \subseteq Nat \ {0}
    /\ Indices \subseteq Int
    /\ TicksPerSecond \in Nat \ {0}
    /\ MaxLag \in Nat
    /\ MAX_SAMPLE \in Nat \ {0}
    /\ MaxListLen \in Nat

VARIABLES
    store,          \* store_: string keys to values
    list_store,     \* list_store_: list keys to sequences of values
    expiry,         \* expiry_: keys with a TTL to the ticks left
    reply           \* the last operation and what it returned

maps == <<store, list_store, expiry>>
vars == <<store, list_store, expiry, reply>>

IsMap(map, D, R) == DOMAIN map \subseteq D /\ map \in [DOMAIN map -> R]

\* Every map holds keys and values of its type.
TypeOK ==
    /\ IsMap(store, Key, Value)
    /\ IsMap(list_store, Key, Seq(Value))
    /\ IsMap(expiry, Key, Nat)

Init ==
    /\ store = <<>> /\ list_store = <<>> /\ expiry = <<>>
    /\ reply = <<"none">>

-----------------------------------------------------------------------------
(* Helpers *)

\* operator[] followed by an assignment.
Put(map, k, v) == [x \in DOMAIN map \cup {k} |-> IF x = k THEN v ELSE map[x]]

\* erase, for every key of a set.
Erase(map, S) == Restrict(map, DOMAIN map \ S)

is_expired_unlocked(k) == k \in DOMAIN expiry /\ expiry[k] <= 0

\* What the lazy check of an operation on k removes.
Expired(k) == {x \in {k} : is_expired_unlocked(x)}

\* remove_expired_unlocked, for every key of S.
remove_expired_unlocked(S) ==
    /\ store' = Erase(store, S)
    /\ list_store' = Erase(list_store, S)
    /\ expiry' = Erase(expiry, S)

\* The keys for which key_exists_unlocked holds, and those not expired.
Present == DOMAIN store \cup DOMAIN list_store
Live == {k \in Present : ~is_expired_unlocked(k)}

Elapse(ticks) ==
    [k \in DOMAIN expiry |-> IF expiry[k] > ticks THEN expiry[k] - ticks ELSE 0]

\* Whether the deadline of k is reached some ticks from now.
ExpiredAt(k, ticks) == k \in DOMAIN expiry /\ expiry[k] <= ticks

\* The keys of S are removed by an operation that is done lag ticks from now.
remove_while_time_passes(S, lag) ==
    /\ store' = Erase(store, S)
    /\ list_store' = Erase(list_store, S)
    /\ expiry' = Restrict(Elapse(lag), DOMAIN expiry \ S)

\* The times, from now, at which the clock is read for each of n arguments in
\* turn, and for the keys of both maps, the strings before the lists.
ArgumentTimes(n, lag) ==
    {at \in [1 .. n -> 0 .. lag] : \A i, j \in 1 .. n : i <= j => at[i] <= at[j]}

KeyTimes(lag) ==
    {at \in [Present -> 0 .. lag] :
        \A k \in DOMAIN store, x \in DOMAIN list_store : at[k] <= at[x]}

\* duration_cast to seconds truncates towards zero.
ToSeconds(ticks) ==
    IF ticks >= 0 THEN ticks \div TicksPerSecond
                  ELSE -((-ticks) \div TicksPerSecond)

Returns(op, result) == reply' = <<op, result>>

-----------------------------------------------------------------------------
(* Operations on strings and on keys of either type *)

\* Faulty form: the list of that name is left in place.
set_keeping_list(k, v) ==
    /\ store' = Put(store, k, v)
    /\ expiry' = Erase(expiry, {k})
    /\ Returns("set", "OK")
    /\ UNCHANGED list_store

set(k, v) ==
    /\ list_store' = Erase(list_store, {k})
    /\ store' = Put(store, k, v)
    /\ expiry' = Erase(expiry, {k})
    /\ Returns("set", "OK")

\* Faulty form: no lazy check.
get_unchecked(k) ==
    /\ UNCHANGED maps
    /\ Returns("get", IF k \in DOMAIN store THEN store[k] ELSE Nil)

get(k) ==
    /\ remove_expired_unlocked(Expired(k))
    /\ Returns("get", IF k \in DOMAIN store /\ ~is_expired_unlocked(k)
                      THEN store[k] ELSE Nil)

\* Faulty form: the deadline outlives its key.
del_keeping_deadline(ks) ==
    LET removed == Range(ks) \cap Present
    IN  /\ store' = Erase(store, removed)
        /\ list_store' = Erase(list_store, removed)
        /\ Returns("del", Cardinality(removed))
        /\ UNCHANGED expiry

\* No lazy check here: a key whose deadline has passed and that nobody
\* purged yet is counted as deleted.
del(ks) ==
    LET removed == Range(ks) \cap Present
    IN  /\ store' = Erase(store, removed)
        /\ list_store' = Erase(list_store, removed)
        /\ expiry' = Erase(expiry, removed)
        /\ Returns("del", Cardinality(removed))

\* A key named twice is counted twice, unless its deadline falls between the
\* two readings of the clock.
exists(ks) ==
    \E lag \in 0 .. MaxLag : \E at \in ArgumentTimes(Len(ks), lag) :
        /\ remove_while_time_passes({ks[i] : i \in {j \in DOMAIN ks : ExpiredAt(ks[j], at[j])}}, lag)
        /\ Returns("exists",
                   Cardinality({i \in DOMAIN ks : ks[i] \in Present /\ ~ExpiredAt(ks[i], at[i])}))

\* The keys found expired are removed once all of them have been looked at.
keys ==
    \E lag \in 0 .. MaxLag : \E at \in KeyTimes(lag) :
        /\ remove_while_time_passes({k \in Present : ExpiredAt(k, at[k])}, lag)
        /\ Returns("keys", {k \in Present : ~ExpiredAt(k, at[k])})

dbsize ==
    \E lag \in 0 .. MaxLag : \E at \in KeyTimes(lag) :
        /\ remove_while_time_passes({k \in Present : ExpiredAt(k, at[k])}, lag)
        /\ Returns("dbsize", Cardinality({k \in Present : ~ExpiredAt(k, at[k])}))

flushdb ==
    /\ store' = <<>> /\ list_store' = <<>> /\ expiry' = <<>>
    /\ Returns("flushdb", "OK")

-----------------------------------------------------------------------------
(* Operations on lists *)

\* The list an operation works on once the lazy check is done.
ListAt(k) ==
    IF k \in DOMAIN list_store /\ ~is_expired_unlocked(k) THEN list_store[k] ELSE <<>>

\* LPUSH and RPUSH: an expired key is removed first and then created anew.
Push(op, k, extended) ==
    IF k \in DOMAIN store /\ ~is_expired_unlocked(k)
    THEN UNCHANGED maps /\ Returns(op, -1)
    ELSE /\ Len(extended) <= MaxListLen
         /\ store' = Erase(store, Expired(k))
         /\ list_store' = Put(list_store, k, extended)
         /\ expiry' = Erase(expiry, Expired(k))
         /\ Returns(op, Len(extended))

lpush(k, vals) == Push("lpush", k, Reverse(vals) \o ListAt(k))

rpush(k, vals) == Push("rpush", k, ListAt(k) \o vals)

\* Faulty form: a list popped empty stays.
Pop_keeping_empty(op, k, rest, element) ==
    IF ListAt(k) = <<>>
    THEN remove_expired_unlocked(Expired(k)) /\ Returns(op, Nil)
    ELSE list_store' = Put(list_store, k, rest) /\ UNCHANGED <<store, expiry>> /\ Returns(op, element)

\* Faulty form: a list popped empty leaves its deadline behind.
Pop_keeping_deadline(op, k, rest, element) ==
    IF ListAt(k) = <<>>
    THEN remove_expired_unlocked(Expired(k)) /\ Returns(op, Nil)
    ELSE /\ list_store' = IF rest = <<>> THEN Erase(list_store, {k}) ELSE Put(list_store, k, rest)
         /\ Returns(op, element)
         /\ UNCHANGED <<store, expiry>>

\* LPOP and RPOP: nil for a key that holds no list, a string included; a list
\* that becomes empty is deleted with its TTL.
Pop(op, k, rest, element) ==
    IF ListAt(k) = <<>>
    THEN /\ store' = Erase(store, Expired(k))
         /\ list_store' = Erase(list_store, {k})
         /\ expiry' = Erase(expiry, Expired(k) \cup ({k} \cap DOMAIN list_store))
         /\ Returns(op, Nil)
    ELSE /\ UNCHANGED store
         /\ IF rest = <<>>
            THEN /\ list_store' = Erase(list_store, {k})
                 /\ expiry' = Erase(expiry, {k})
            ELSE list_store' = Put(list_store, k, rest) /\ UNCHANGED expiry
         /\ Returns(op, element)

lpop(k) == Pop("lpop", k, Tail(ListAt(k)), Head(ListAt(k)))
rpop(k) == Pop("rpop", k, Front(ListAt(k)), Last(ListAt(k)))

\* Negative indices count from the end of the list.
Normalize(index, len) == IF index < 0 THEN len + index ELSE index

\* The elements at the zero-based positions the clamped range covers.
Slice(list, start, stop) ==
    LET len   == Len(list)
        first == IF Normalize(start, len) < 0 THEN 0 ELSE Normalize(start, len)
        last  == IF Normalize(stop, len) >= len THEN len - 1 ELSE Normalize(stop, len)
    IN  IF first > last \/ first >= len
        THEN <<>>
        ELSE [i \in 1 .. last - first + 1 |-> list[first + i]]

lrange(k, start, stop) ==
    /\ remove_expired_unlocked(Expired(k))
    /\ Returns("lrange", Slice(ListAt(k), start, stop))

llen(k) ==
    /\ remove_expired_unlocked(Expired(k))
    /\ Returns("llen", IF k \in DOMAIN store /\ ~is_expired_unlocked(k)
                       THEN -1 ELSE Len(ListAt(k)))

lindex(k, index) ==
    LET i == Normalize(index, Len(ListAt(k)))
    IN  /\ remove_expired_unlocked(Expired(k))
        /\ Returns("lindex", IF i < 0 \/ i >= Len(ListAt(k)) THEN Nil ELSE ListAt(k)[i + 1])

-----------------------------------------------------------------------------
(* Deadlines *)

\* The clock is read in the expiry check and again for the new deadline.
expire(k, seconds) ==
    IF k \in Live
    THEN /\ \E lag \in 0 .. MaxLag : expiry' = Put(Elapse(lag), k, seconds * TicksPerSecond)
         /\ UNCHANGED <<store, list_store>>
         /\ Returns("expire", TRUE)
    ELSE /\ remove_expired_unlocked(Expired(k) \cap Present)
         /\ Returns("expire", FALSE)

\* The clock is read in the expiry check and again for the subtraction: lag
\* is the time that passes between the two.
ttl(k, lag) ==
    IF k \in Live
    THEN /\ Returns("ttl", IF k \in DOMAIN expiry THEN ToSeconds(expiry[k] - lag) ELSE -1)
         /\ expiry' = Elapse(lag)
         /\ UNCHANGED <<store, list_store>>
    ELSE /\ remove_expired_unlocked(Expired(k) \cap Present)
         /\ Returns("ttl", -2)

persist(k) ==
    IF k \in Live
    THEN /\ expiry' = Erase(expiry, {k})
         /\ UNCHANGED <<store, list_store>>
         /\ Returns("persist", k \in DOMAIN expiry)
    ELSE /\ remove_expired_unlocked(Expired(k) \cap Present)
         /\ Returns("persist", FALSE)

\* The scan of expiry_loop looks at the first MAX_SAMPLE entries of expiry_ in
\* the hash map's iteration order: here, any entries (ExpiryThread has the order).
expiry_scan(sample) ==
    /\ sample # {}
    /\ Cardinality(sample) = Min({MAX_SAMPLE, Cardinality(DOMAIN expiry)})
    /\ remove_expired_unlocked({k \in sample : expiry[k] <= 0})
    /\ UNCHANGED reply

Tick ==
    /\ expiry' = Elapse(1)
    /\ UNCHANGED <<store, list_store, reply>>

StringOp(k) == get(k) \/ \E v \in Value : set(k, v)

KeyspaceOp ==
    \/ \E ks \in KeyArgs : del(ks) \/ exists(ks)
    \/ keys \/ dbsize \/ flushdb

ListOp(k) ==
    \/ \E b \in Batches : lpush(k, b) \/ rpush(k, b)
    \/ lpop(k) \/ rpop(k) \/ llen(k)
    \/ \E i, j \in Indices : lrange(k, i, j)
    \/ \E i \in Indices : lindex(k, i)

TtlOp(k) ==
    \/ \E s \in Seconds : expire(k, s)
    \/ \E lag \in 0 .. MaxLag : ttl(k, lag)
    \/ persist(k)

Next ==
    \/ \E k \in Key : StringOp(k) \/ ListOp(k) \/ TtlOp(k)
    \/ KeyspaceOp
    \/ \E sample \in SUBSET DOMAIN expiry : expiry_scan(sample)
    \/ Tick

Spec == Init /\ [][Next]_vars

-----------------------------------------------------------------------------
(* What the clients can see: the keys whose deadline has not passed. *)

LiveView ==
    [k \in Live |->
        [type |-> IF k \in DOMAIN store THEN "string" ELSE "list",
         val  |-> IF k \in DOMAIN store THEN store[k] ELSE list_store[k],
         left |-> IF k \in DOMAIN expiry THEN expiry[k] ELSE -1]]

-----------------------------------------------------------------------------
(* Properties *)

\* A key is a string or a list, never both: set() erases the list and a push
\* refuses a string, whatever lazy and active expiry removed in between.
OneTypePerKey == DOMAIN store \cap DOMAIN list_store = {}

\* No deadline outlives its key.  An orphan deadline would silently apply to
\* the next list pushed under that name, since lpush() and rpush() never
\* touch expiry_ of a key that is not expired.
NoOrphanDeadline == DOMAIN expiry \subseteq Present

\* A list is deleted as soon as its last element is popped.
NoEmptyList == \A k \in DOMAIN list_store : list_store[k] # <<>>

\* A key that comes to life in a step has no deadline after it.
BornWithoutDeadline ==
    \A k \in Key : k \notin Live /\ k \in Live' => k \notin DOMAIN expiry'

\* A key that comes to life, for the first time or after it was deleted,
\* popped empty, flushed or expired, starts without a deadline: neither set()
\* nor a push lets it inherit the deadline of an earlier life.
NewKeyHasNoDeadline == [][BornWithoutDeadline]_vars

=============================================================================
