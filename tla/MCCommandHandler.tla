-------------------------- MODULE MCCommandHandler --------------------------
(* Small instances of CommandHandler for TLC. *)
EXTENDS CommandHandler, TLC

CONSTANTS k1, v1, v2, ch, c1, c2

MCChannelArgs == {<<ch>>}
MCKeyArgs == {<<k1>>}
MCBatches == {<<v1>>, <<v2>>}
MCIndices == {0, -1}

Set(k, v) == [name |-> "SET", key |-> k, value |-> v, ex |-> Nil]
SetEx(k, v, s) == [name |-> "SET", key |-> k, value |-> v, ex |-> s]
On(name, k) == [name |-> name, key |-> k]
OnKeys(name, ks) == [name |-> name, keys |-> ks]
Push1(name, k, v) == [name |-> name, key |-> k, values |-> <<v>>]
Expire(k, s) == [name |-> "EXPIRE", key |-> k, seconds |-> s]
Plain(name) == [name |-> name]
Subscribe == [name |-> "SUBSCRIBE", channels |-> <<ch>>]
Unsubscribe(chs) == [name |-> "UNSUBSCRIBE", channels |-> chs]

\* Every command once, of those that do the same one.
AllCommands ==
    {Plain(n) : n \in {"MULTI", "EXEC", "DISCARD", "PING", "ERR", "KEYS", "DBSIZE",
                       "FLUSHDB"}}
    \cup {On(n, k1) : n \in {"GET", "TTL", "PERSIST", "LPOP", "RPOP", "LLEN"}}
    \cup {Set(k1, v1), SetEx(k1, v1, 1), SetEx(k1, v1, -1), Expire(k1, 1), Expire(k1, 0)}
    \cup {OnKeys(n, <<k1>>) : n \in {"DEL", "EXISTS", "WATCH"}}
    \cup {Push1(n, k1, v1) : n \in {"LPUSH", "RPUSH"}}
    \cup {[name |-> "LRANGE", key |-> k1, start |-> 0, stop |-> -1],
          [name |-> "LINDEX", key |-> k1, index |-> 0]}
    \cup {Subscribe, Unsubscribe(<<ch>>), Unsubscribe(<<>>),
          [name |-> "PUBLISH", channel |-> ch]}

\* One client sends every command, the other one changes what it watches.
MCCommands ==
    (c1 :> AllCommands) @@
    (c2 :> {Set(k1, v2), Push1("RPUSH", k1, v1), On("LPOP", k1)})

=============================================================================
