------------------------------ MODULE Keyspace ------------------------------
(***************************************************************************)
(* What callers can rely on from the public interface of Database          *)
(* (database.h): one map from live keys to typed values, in which a key is *)
(* gone the moment its deadline is reached.  There is no second map and no *)
(* thread that cleans up.  Of keys past their deadline only their names    *)
(* are left, for a while, because DEL counts them.                         *)
(*                                                                         *)
(* For a key of the other type the answers are those of the code; the      *)
(* WRONGTYPE error that the documentation promises instead is              *)
(* WrongTypeIsAnswered of CommandHandler.                                  *)
(***************************************************************************)
EXTENDS Lists

CONSTANTS Key, Value, Nil, KeyArgs, Batches, Seconds, Indices,
          TicksPerSecond, MaxLag, MaxListLen

VARIABLES
    live,           \* key to [type, val, left]; left = Forever without a TTL
    stale,          \* names of keys past their deadline that DEL still counts
    reply

vars == <<live, stale, reply>>

Forever == -1

Init == live = <<>> /\ stale = {} /\ reply = <<"none">>

Answers(op, result) == reply' = <<op, result>>

Keep(S) == Restrict(live, DOMAIN live \cap S)

Store(k, type, val, left) ==
    live' = [x \in DOMAIN live \cup {k} |->
                IF x = k THEN [type |-> type, val |-> val, left |-> left] ELSE live[x]]

Holds(k, type) == k \in DOMAIN live /\ live[k].type = type
Left(k) == IF k \in DOMAIN live THEN live[k].left ELSE Forever
List(k) == IF Holds(k, "list") THEN live[k].val ELSE <<>>

\* The keyspace after some time: a key is dropped at its deadline.
After(ticks) ==
    [k \in {x \in DOMAIN live : live[x].left = Forever \/ live[x].left > ticks} |->
        [live[k] EXCEPT !.left = IF @ = Forever THEN @ ELSE @ - ticks]]

\* Whether k is still there after some time.
LivesAt(k, ticks) ==
    k \in DOMAIN live /\ (live[k].left = Forever \/ live[k].left > ticks)

\* What happens to the stale names in a step during which some time passes:
\* keys dropped at their deadlines may join them, any of them may be forgotten,
\* and a name that is alive is not stale.
Fade(ticks) ==
    stale' \in SUBSET ((stale \cup (DOMAIN live \ DOMAIN After(ticks))) \ DOMAIN live')

Truncated(ticks) ==
    IF ticks < 0 THEN -((-ticks) \div TicksPerSecond) ELSE ticks \div TicksPerSecond

-----------------------------------------------------------------------------
Set(k, v) == Store(k, "string", v, Forever) /\ Answers("set", "OK")

Get(k) ==
    /\ UNCHANGED live
    /\ Answers("get", IF Holds(k, "string") THEN live[k].val ELSE Nil)

\* The count includes the keys of the request that are past their deadline and
\* not yet forgotten, and never an absent one.
Del(ks) ==
    /\ live' = Keep(Key \ Range(ks))
    /\ stale' = stale \ Range(ks)
    /\ Answers("del", Cardinality(Range(ks) \cap (DOMAIN live \cup stale)))

\* Each mention of a key counts that finds it alive at its own time; the times
\* go forward.
Exists(ks, lag) ==
    /\ live' = After(lag)
    /\ \E at \in [1 .. Len(ks) -> 0 .. lag] :
          /\ \A i, j \in 1 .. Len(ks) : i <= j => at[i] <= at[j]
          /\ Answers("exists", Cardinality({i \in DOMAIN ks : LivesAt(ks[i], at[i])}))

\* A listing finds each key alive, or not, at a time of its own.
Listed(at) == {k \in DOMAIN live : LivesAt(k, at[k])}

Keys(lag) ==
    /\ live' = After(lag)
    /\ \E at \in [DOMAIN live -> 0 .. lag] : Answers("keys", Listed(at))

DbSize(lag) ==
    /\ live' = After(lag)
    /\ \E at \in [DOMAIN live -> 0 .. lag] : Answers("dbsize", Cardinality(Listed(at)))

FlushDb == live' = <<>> /\ stale' = {} /\ Answers("flushdb", "OK")

\* A push keeps the TTL of a list that exists and gives a new one none.
Pushed(op, k, list) ==
    \/ Holds(k, "string") /\ UNCHANGED live /\ Answers(op, -1)
    \/ /\ ~Holds(k, "string")
       /\ Len(list) <= MaxListLen
       /\ Store(k, "list", list, Left(k))
       /\ Answers(op, Len(list))

LPush(k, b) == Pushed("lpush", k, Reverse(b) \o List(k))
RPush(k, b) == Pushed("rpush", k, List(k) \o b)

Popped(op, k, rest, element) ==
    \/ ~Holds(k, "list") /\ UNCHANGED live /\ Answers(op, Nil)
    \/ /\ Holds(k, "list")
       /\ IF rest = <<>> THEN live' = Keep(Key \ {k}) ELSE Store(k, "list", rest, Left(k))
       /\ Answers(op, element)

LPop(k) == Popped("lpop", k, Tail(List(k)), Head(List(k)))
RPop(k) == Popped("rpop", k, Front(List(k)), Last(List(k)))

\* One-based position of an index that may count from the end.
Position(k, i) == IF i < 0 THEN Len(List(k)) + i + 1 ELSE i + 1

LRange(k, i, j) ==
    /\ UNCHANGED live
    /\ Answers("lrange", SubSeq(List(k), Max({1, Position(k, i)}),
                                         Min({Len(List(k)), Position(k, j)})))

LLen(k) ==
    /\ UNCHANGED live
    /\ Answers("llen", IF Holds(k, "string") THEN -1 ELSE Len(List(k)))

LIndex(k, i) ==
    /\ UNCHANGED live
    /\ Answers("lindex", IF Position(k, i) \in DOMAIN List(k)
                         THEN List(k)[Position(k, i)] ELSE Nil)

\* A key that is alive when EXPIRE looks at it gets its new deadline even if
\* the old one is reached in the meantime.
Expire(k, s, lag) ==
    \/ /\ k \in DOMAIN live
       /\ live' = [x \in DOMAIN After(lag) \cup {k} |->
                      IF x = k THEN [live[k] EXCEPT !.left = s * TicksPerSecond]
                               ELSE After(lag)[x]]
       /\ Answers("expire", TRUE)
    \/ k \notin DOMAIN live /\ UNCHANGED live /\ Answers("expire", FALSE)

Ttl(k, lag) ==
    \/ k \notin DOMAIN live /\ UNCHANGED live /\ Answers("ttl", -2)
    \/ /\ k \in DOMAIN live
       /\ live' = After(lag)
       /\ Answers("ttl", IF Left(k) = Forever THEN -1 ELSE Truncated(Left(k) - lag))

Persist(k) ==
    \/ /\ k \in DOMAIN live /\ Left(k) # Forever
       /\ live' = [live EXCEPT ![k].left = Forever]
       /\ Answers("persist", TRUE)
    \/ Left(k) = Forever /\ UNCHANGED live /\ Answers("persist", FALSE)

Tick == live' = After(1) /\ UNCHANGED reply

\* Stale names are forgotten without anybody asking.
Forget == UNCHANGED <<live, reply>>

\* Operations that happen at one instant, and those that may take some time.
InstantOp(k) ==
    \/ Get(k) \/ LPop(k) \/ RPop(k) \/ LLen(k) \/ Persist(k)
    \/ \E v \in Value : Set(k, v)
    \/ \E b \in Batches : LPush(k, b) \/ RPush(k, b)
    \/ \E i \in Indices : LIndex(k, i) \/ \E j \in Indices : LRange(k, i, j)

TimedOp(lag) ==
    \/ \E k \in Key : Ttl(k, lag) \/ \E s \in Seconds : Expire(k, s, lag)
    \/ \E ks \in KeyArgs : Exists(ks, lag)
    \/ Keys(lag) \/ DbSize(lag)

Next ==
    \/ Fade(0) /\ \E k \in Key : InstantOp(k)
    \/ \E lag \in 0 .. MaxLag : Fade(lag) /\ TimedOp(lag)
    \/ \E ks \in KeyArgs : Del(ks)
    \/ FlushDb
    \/ Fade(1) /\ Tick
    \/ Fade(0) /\ Forget

Spec == Init /\ [][Next]_vars

=============================================================================
