------------------------ MODULE CommandHandlerProofs ------------------------
(***************************************************************************)
(* The handlers' transactions and subscriptions, for any clients, commands *)
(* and data.                                                               *)
(***************************************************************************)
EXTENDS CommandHandler, DatabaseProofs

Contents == [type : {"string"}, val : Value] \cup [type : {"list"}, val : Seq(Value) \ {<<>>}]

Snapshot == [key : Key, string_value : Value \cup {Nil}, list_size : {n \in Int : n >= -1}]

Watch == [key : Key, seen : Contents \cup {Nil}]

\* What the code records of what a watch has seen.
SnapshotOf(w) ==
    [key          |-> w.key,
     string_value |-> IF w.seen # Nil /\ w.seen.type = "string" THEN w.seen.val ELSE Nil,
     list_size    |-> IF w.seen = Nil THEN 0
                      ELSE IF w.seen.type = "string" THEN -1 ELSE Len(w.seen.val)]

QueuesOK ==
    /\ in_multi \in [Client -> BOOLEAN]
    /\ tx_queue = [c \in Client |-> tx_queue[c]]
    /\ \A c \in Client : tx_queue[c] \in Seq(Commands[c]) /\ Len(tx_queue[c]) <= MaxQueue

\* The snapshots are those of the keys watched.
WatchesOK ==
    /\ watch_snapshots \in [Client -> SUBSET Snapshot]
    /\ watching \in [Client -> SUBSET Watch]
    /\ \A c \in Client : watch_snapshots[c] = {SnapshotOf(w) : w \in watching[c]}

\* An EXEC that runs is one of a client in a transaction.
RunningOK ==
    \/ running = Idle
    \/ /\ running = [client |-> running.client, left |-> running.left, results |-> running.results]
       /\ running.client \in Client
       /\ running.left \in Seq(Commands[running.client])
       /\ in_multi[running.client]

\* The inductive invariant.  NoStuckTransaction needs RunningOK, or the end of
\* an EXEC could leave another client stuck; that EXEC compares what was watched
\* needs WatchesOK and the consistent maps.
HInv == Inv /\ QueuesOK /\ WatchesOK /\ RunningOK /\ NoStuckTransaction

-----------------------------------------------------------------------------
(* The data *)

\* The invariant of the store is about the three maps only.
LEMMA SameMaps == Inv /\ UNCHANGED maps => Inv'
BY DEF maps, Inv, TypeOK, OneTypePerKey, NoOrphanDeadline, NoEmptyList, Present

\* SET with an expire time leaves the maps consistent whatever the time is.
LEMMA HandleSetInv ==
    ASSUME Inv, NEW cmd, cmd.key \in Key, cmd.value \in Value, cmd.ex \in Int, handle_set(cmd)
    PROVE  Inv'
<1>1. IsMap(store', Key, Value) /\ DOMAIN store' = DOMAIN store \cup {cmd.key}
  BY DEF Inv, TypeOK, handle_set, IsMap, Put
<1>2. /\ IsMap(list_store', Key, Seq(Value)) /\ DOMAIN list_store' = DOMAIN list_store \ {cmd.key}
      /\ \A x \in DOMAIN list_store' : list_store'[x] = list_store[x]
  BY DEF Inv, TypeOK, handle_set, IsMap, Erase, Restrict
<1>3. IsMap(expiry', Key, Nat) /\ DOMAIN expiry' \subseteq DOMAIN expiry \cup {cmd.key}
  <2>1. CASE cmd.ex > 0
    <3>1. cmd.ex \in Nat /\ TicksPerSecond \in Nat
      BY <2>1, DatabaseAssumption
    <3>2. cmd.ex * TicksPerSecond \in Nat
      BY <3>1
    <3>3. expiry' = Put(expiry, cmd.key, cmd.ex * TicksPerSecond)
      BY <2>1 DEF handle_set
    <3> QED BY <3>2, <3>3 DEF Inv, TypeOK, IsMap, Put
  <2>2. CASE ~(cmd.ex > 0)
    BY <2>2 DEF Inv, TypeOK, handle_set, IsMap, Erase, Restrict
  <2> QED BY <2>1, <2>2
<1>4. DOMAIN expiry' \subseteq Present'
  <2>1. (DOMAIN expiry \cup {cmd.key}) \subseteq DOMAIN store' \cup DOMAIN list_store'
    BY <1>1, <1>2 DEF Inv, NoOrphanDeadline, Present
  <2> QED BY <1>3, <2>1 DEF Present
<1> QED
  BY <1>1, <1>2, <1>3, <1>4
  DEF Inv, TypeOK, OneTypePerKey, NoOrphanDeadline, NoEmptyList

\* A data command other than SET with an expire time is an operation of the
\* store, or leaves it alone.
LEMMA DataCommands ==
    ASSUME NEW cmd, IsCommand(cmd), KeyCommand(cmd) \/ ListCommand(cmd)
    PROVE  \/ Next
           \/ UNCHANGED maps
           \/ handle_set(cmd) /\ cmd.name = "SET" /\ cmd.ex # Nil
<1>1. ASSUME NEW k \in Key, StringOp(k) \/ ListOp(k) \/ TtlOp(k) PROVE Next
  BY <1>1 DEF Next
<1>2. KeyspaceOp => Next
  BY DEF Next
<1>3. CASE cmd.name \in {"SET", "GET"} /\ KeyCommand(cmd)
  <2>1. cmd.key \in Key /\ (cmd.name = "SET" => cmd.value \in Value)
    BY <1>3 DEF IsCommand
  <2>2. \/ set(cmd.key, cmd.value) /\ cmd.name = "SET"
        \/ get(cmd.key)
        \/ handle_set(cmd) /\ cmd.name = "SET" /\ cmd.ex # Nil
    BY <1>3, Zenon DEF KeyCommand
  <2> QED BY <1>1, <2>1, <2>2 DEF StringOp
<1>4. CASE /\ cmd.name \in {"DEL", "EXISTS", "KEYS", "DBSIZE", "INFO", "FLUSHDB"}
           /\ KeyCommand(cmd)
  <2>1. cmd.name \in {"DEL", "EXISTS"} => cmd.keys \in KeyArgs
    BY DEF IsCommand
  <2>2. \/ (del(cmd.keys) \/ exists(cmd.keys)) /\ cmd.name \in {"DEL", "EXISTS"}
        \/ keys \/ dbsize \/ flushdb
    BY <1>4, Zenon DEF KeyCommand
  <2>3. KeyspaceOp
    BY <2>1, <2>2, Zenon DEF KeyspaceOp
  <2> QED BY <1>2, <2>3
<1>5. CASE cmd.name = "EXPIRE" /\ KeyCommand(cmd)
  <2>1. cmd.key \in Key /\ (cmd.seconds > 0 => cmd.seconds \in Seconds)
    BY <1>5 DEF IsCommand
  <2>2. handle_expire(cmd)
    BY <1>5 DEF KeyCommand
  <2>3. CASE cmd.seconds > 0
    <3>1. TtlOp(cmd.key)
      BY <2>1, <2>2, <2>3 DEF TtlOp, handle_expire
    <3> QED BY <1>1, <2>1, <3>1
  <2>4. CASE ~(cmd.seconds > 0)
    BY <2>2, <2>4 DEF handle_expire
  <2> QED BY <2>3, <2>4
<1>6. CASE cmd.name \in {"TTL", "PERSIST"} /\ KeyCommand(cmd)
  <2>1. cmd.key \in Key
    BY <1>6 DEF IsCommand
  <2>2. (\E lag \in 0 .. MaxLag : ttl(cmd.key, lag)) \/ persist(cmd.key)
    BY <1>6, Zenon DEF KeyCommand
  <2>3. TtlOp(cmd.key)
    BY <2>2, Zenon DEF TtlOp
  <2> QED BY <1>1, <2>1, <2>3
<1>7. CASE cmd.name \in {"PING", "CONFIG", "SAVE", "ERR"} /\ KeyCommand(cmd)
  <2>1. NoEffect(cmd)
    BY <1>7, Zenon DEF KeyCommand
  <2> QED BY <2>1 DEF NoEffect
<1>8. CASE ListCommand(cmd)
  <2>1. cmd.key \in Key
    BY <1>8 DEF IsCommand, ListCommand
  <2>2. \/ cmd.name = "LPUSH" /\ lpush(cmd.key, cmd.values) /\ cmd.values \in Batches
        \/ cmd.name = "RPUSH" /\ rpush(cmd.key, cmd.values) /\ cmd.values \in Batches
        \/ lpop(cmd.key) \/ rpop(cmd.key) \/ llen(cmd.key)
        \/ lrange(cmd.key, cmd.start, cmd.stop) /\ cmd.start \in Indices /\ cmd.stop \in Indices
        \/ lindex(cmd.key, cmd.index) /\ cmd.index \in Indices
    BY <1>8 DEF IsCommand, ListCommand
  <2>3. ListOp(cmd.key)
    BY <2>2 DEF ListOp
  <2> QED BY <1>1, <2>1, <2>3
<1>9. KeyCommand(cmd) =>
          cmd.name \in {"SET", "GET", "DEL", "EXISTS", "KEYS", "DBSIZE", "INFO", "FLUSHDB",
                       "EXPIRE", "TTL", "PERSIST", "PING", "CONFIG", "SAVE", "ERR"}
  BY Zenon DEF KeyCommand
<1> QED BY <1>3, <1>4, <1>5, <1>6, <1>7, <1>8, <1>9

\* A data command, sent alone or from a queue, keeps the store consistent.
LEMMA DataInv ==
    ASSUME Inv, NEW cmd, IsCommand(cmd), KeyCommand(cmd) \/ ListCommand(cmd)
    PROVE  Inv'
<1>1. CASE Next
  BY <1>1, NextInv
<1>2. CASE UNCHANGED maps
  BY <1>2, SameMaps
<1>3. CASE handle_set(cmd) /\ cmd.name = "SET" /\ cmd.ex # Nil
  <2>1. cmd.key \in Key /\ cmd.value \in Value /\ cmd.ex \in Int
    BY <1>3 DEF IsCommand
  <2> QED BY <1>3, <2>1, HandleSetInv
<1> QED BY <1>1, <1>2, <1>3, DataCommands

-----------------------------------------------------------------------------
(* Subscriptions *)

\* A command subscribes nobody but the client that sends it.
LEMMA OthersNotSubscribed ==
    ASSUME NEW c, NEW cmd, execute_single(c, cmd), NEW d, d # c
    PROVE  in_subscription_mode(d)' => in_subscription_mode(d)
<1>1. CASE UNCHANGED subscriptions
  BY <1>1 DEF subscriptions, in_subscription_mode, PS!At
<1>2. CASE cmd.name = "SUBSCRIBE" /\ PS!subscribe(c, cmd.channels)
  <2>1. \E S : client_channels' = PS!InsertUnder(client_channels, {c}, S)
    BY <1>2 DEF PS!subscribe
  <2> QED BY <2>1 DEF in_subscription_mode, PS!InsertUnder, PS!At
<1>3. ASSUME NEW K, NEW E, client_channels' = PS!EraseUnder(client_channels, K, E)
      PROVE  in_subscription_mode(d)' => in_subscription_mode(d)
  BY <1>3 DEF in_subscription_mode, PS!EraseUnder, PS!At
<1>4. CASE cmd.name = "UNSUBSCRIBE" /\ handle_unsubscribe(c, cmd)
  <2>1. CASE UNCHANGED client_channels
    BY <2>1 DEF in_subscription_mode, PS!At
  <2>2. CASE \E S : client_channels' = PS!EraseUnder(client_channels, {c}, S)
    BY <2>2, <1>3
  <2> QED BY <1>4, <2>1, <2>2, Zenon DEF handle_unsubscribe, PS!unsubscribe, PS!unsubscribe_all, PS!indexes
<1>5. CASE cmd.name = "PUBLISH" /\ \E failed \in SUBSET Client : PS!publish(cmd.channel, failed)
  BY <1>3, <1>5 DEF PS!publish
<1> QED BY <1>1, <1>2, <1>4, <1>5 DEF execute_single, PubSubCommand

-----------------------------------------------------------------------------
(* Watches *)

\* What a client sees of a key.
LEMMA SeenOf ==
    ASSUME Inv, NEW k \in Key
    PROVE  /\ k \notin Live => Seen(k) = Nil /\ ListAt(k) = <<>>
           /\ k \in Live /\ k \in DOMAIN store =>
                  Seen(k) = [type |-> "string", val |-> store[k]] /\ store[k] \in Value
           /\ k \in Live /\ k \notin DOMAIN store =>
                  /\ Seen(k) = [type |-> "list", val |-> ListAt(k)]
                  /\ ListAt(k) \in Seq(Value) \ {<<>>}
<1>1. CASE k \notin Live
  BY <1>1 DEF Seen, ListAt, Live, Present
<1>2. CASE k \in Live /\ k \in DOMAIN store
  BY <1>2, Viewed DEF Seen, View, Inv, TypeOK, IsMap
<1>3. CASE k \in Live /\ k \notin DOMAIN store
  <2>1. k \in DOMAIN list_store /\ ~is_expired_unlocked(k)
    BY <1>3 DEF Live, Present
  <2>2. ListAt(k) = list_store[k] /\ ListAt(k) \in Seq(Value) /\ ListAt(k) # <<>>
    BY <2>1, ListAtType DEF ListAt, Inv, NoEmptyList
  <2>3. Seen(k) = [type |-> "list", val |-> list_store[k]]
    BY <1>3, Viewed DEF Seen, View
  <2> QED BY <1>3, <2>2, <2>3
<1> QED BY <1>1, <1>2, <1>3

\* What is seen, and what get() and llen() say of it.
LEMMA SeenResults ==
    ASSUME Inv, NEW k \in Key
    PROVE  \/ Seen(k) = Nil /\ GetResult(k) = Nil /\ LlenResult(k) = 0
           \/ \E v \in Value : /\ Seen(k) = [type |-> "string", val |-> v]
                               /\ GetResult(k) = v /\ LlenResult(k) = -1
           \/ \E L \in Seq(Value) \ {<<>>} :
                  /\ Seen(k) = [type |-> "list", val |-> L]
                  /\ GetResult(k) = Nil /\ LlenResult(k) = Len(L)
<1>1. CASE k \notin Live
  BY <1>1, SeenOf DEF GetResult, LlenResult
<1>2. CASE k \in Live /\ k \in DOMAIN store
  BY <1>2, SeenOf DEF GetResult, LlenResult
<1>3. CASE k \in Live /\ k \notin DOMAIN store
  BY <1>3, SeenOf DEF GetResult, LlenResult
<1> QED BY <1>1, <1>2, <1>3

\* What can be seen is not Nil.
LEMMA ContentsNotNil ==
    /\ \A v \in Value : Nil # [type |-> "string", val |-> v] /\ v # Nil
    /\ \A L \in Seq(Value) : Nil # [type |-> "list", val |-> L]
BY CommandHandlerAssumption, DatabaseAssumption

\* WATCH records what it sees.
LEMMA SnapshotIs ==
    ASSUME Inv, NEW k \in Key
    PROVE  /\ [key |-> k, seen |-> Seen(k)] \in Watch
           /\ WatchedKeySnapshot(k) = SnapshotOf([key |-> k, seen |-> Seen(k)])
           /\ WatchedKeySnapshot(k) \in Snapshot
<1>1. CASE Seen(k) = Nil /\ GetResult(k) = Nil /\ LlenResult(k) = 0
  BY <1>1 DEF Watch, WatchedKeySnapshot, SnapshotOf, Snapshot
<1>2. ASSUME NEW v \in Value, Seen(k) = [type |-> "string", val |-> v],
             GetResult(k) = v, LlenResult(k) = -1
      PROVE  /\ [key |-> k, seen |-> Seen(k)] \in Watch
             /\ WatchedKeySnapshot(k) = SnapshotOf([key |-> k, seen |-> Seen(k)])
             /\ WatchedKeySnapshot(k) \in Snapshot
  BY <1>2, ContentsNotNil DEF Watch, Contents, WatchedKeySnapshot, SnapshotOf, Snapshot
<1>3. ASSUME NEW L \in Seq(Value) \ {<<>>}, Seen(k) = [type |-> "list", val |-> L],
             GetResult(k) = Nil, LlenResult(k) = Len(L)
      PROVE  /\ [key |-> k, seen |-> Seen(k)] \in Watch
             /\ WatchedKeySnapshot(k) = SnapshotOf([key |-> k, seen |-> Seen(k)])
             /\ WatchedKeySnapshot(k) \in Snapshot
  <2>1. Len(L) \in Nat /\ Seen(k) # Nil /\ Seen(k).type = "list" /\ Seen(k).val = L
    BY <1>3, ContentsNotNil
  <2>2. Seen(k) \in Contents
    BY <1>3 DEF Contents
  <2> QED BY <1>3, <2>1, <2>2 DEF Watch, WatchedKeySnapshot, SnapshotOf, Snapshot
<1> QED BY <1>1, <1>2, <1>3, SeenResults

\* The comparison of EXEC decides whether a watched key is as it was seen.
LEMMA ChangedIff ==
    ASSUME Inv, NEW w \in Watch
    PROVE  Changed(SnapshotOf(w)) <=> ~Unchanged(w)
<1> DEFINE k == w.key
<1>1. k \in Key /\ w.seen \in Contents \cup {Nil}
  BY DEF Watch
<1>2. CASE w.seen = Nil
  <2>1. Changed(SnapshotOf(w)) <=> LlenResult(k) # 0
    BY <1>2 DEF Changed, SnapshotOf
  <2>2. Unchanged(w) <=> Seen(k) = Nil
    BY <1>2 DEF Unchanged
  <2>3. Seen(k) = Nil <=> LlenResult(k) = 0
    BY <1>1, SeenResults, ContentsNotNil
  <2> QED BY <2>1, <2>2, <2>3
<1>3. ASSUME NEW v \in Value, w.seen = [type |-> "string", val |-> v]
      PROVE  Changed(SnapshotOf(w)) <=> ~Unchanged(w)
  <2>1. w.seen # Nil /\ v # Nil /\ w.seen.type = "string" /\ w.seen.val = v
    BY <1>3, ContentsNotNil
  <2>2. Changed(SnapshotOf(w)) <=> GetResult(k) # v
    BY <2>1 DEF Changed, SnapshotOf
  <2>3. Unchanged(w) <=> Seen(k) # Nil /\ Seen(k).type = "string" /\ Seen(k).val = v
    BY <2>1 DEF Unchanged
  <2>4. GetResult(k) = v <=> Seen(k) # Nil /\ Seen(k).type = "string" /\ Seen(k).val = v
    BY <1>1, <2>1, SeenResults, ContentsNotNil
  <2> QED BY <2>2, <2>3, <2>4
<1>4. ASSUME NEW L \in Seq(Value) \ {<<>>}, w.seen = [type |-> "list", val |-> L]
      PROVE  Changed(SnapshotOf(w)) <=> ~Unchanged(w)
  <2>1. w.seen # Nil /\ w.seen.type = "list" /\ w.seen.val = L /\ Len(L) \in Nat /\ Len(L) # 0
    BY <1>4, ContentsNotNil
  <2>2. Changed(SnapshotOf(w)) <=> LlenResult(k) # Len(L)
    BY <2>1 DEF Changed, SnapshotOf
  <2>3. Unchanged(w) <=> Seen(k) # Nil /\ Seen(k).type = "list" /\ Len(L) = Len(Seen(k).val)
    BY <2>1 DEF Unchanged
  <2>4. LlenResult(k) = Len(L) <=>
            Seen(k) # Nil /\ Seen(k).type = "list" /\ Len(L) = Len(Seen(k).val)
    BY <1>1, <2>1, SeenResults, ContentsNotNil
  <2> QED BY <2>2, <2>3, <2>4
<1>5. \/ w.seen = Nil
      \/ \E v \in Value : w.seen = [type |-> "string", val |-> v]
      \/ \E L \in Seq(Value) \ {<<>>} : w.seen = [type |-> "list", val |-> L]
  BY <1>1 DEF Contents
<1> QED BY <1>2, <1>3, <1>4, <1>5, Zenon

-----------------------------------------------------------------------------
(* The invariant *)

\* A step that leaves the transactions alone and subscribes no client that is
\* in one.
LEMMA SameTransactions ==
    ASSUME HInv, Inv', UNCHANGED tx,
           \A d \in Client : in_multi[d] /\ in_subscription_mode(d)' => in_subscription_mode(d)
    PROVE  HInv'
<1>1. QueuesOK' /\ WatchesOK' /\ RunningOK'
  BY DEF tx, HInv, QueuesOK, WatchesOK, RunningOK, Idle
<1>2. NoStuckTransaction'
  BY DEF tx, HInv, NoStuckTransaction, Idle
<1> QED BY <1>1, <1>2 DEF HInv

\* The empty queue is a queue.
LEMMA EmptyQueue ==
    ASSUME NEW S, NEW n \in Nat
    PROVE  <<>> \in Seq(S) /\ Len(<<>>) <= n
OBVIOUS

\* The end of a transaction of c, or its begin out of subscription mode.
LEMMA QueueReset ==
    ASSUME HInv, NEW c \in Client, NEW b \in BOOLEAN,
           in_multi' = [in_multi EXCEPT ![c] = b], tx_queue' = [tx_queue EXCEPT ![c] = <<>>]
    PROVE  /\ QueuesOK'
           /\ \A d \in Client \ {c} : in_multi'[d] = in_multi[d]
           /\ in_multi'[c] = b
<1>1. in_multi' \in [Client -> BOOLEAN]
  BY DEF HInv, QueuesOK
<1>2. tx_queue' = [d \in Client |-> IF d = c THEN <<>> ELSE tx_queue[d]]
  BY DEF HInv, QueuesOK
<1>3. \A d \in Client : tx_queue'[d] \in Seq(Commands[d]) /\ Len(tx_queue'[d]) <= MaxQueue
  <2> SUFFICES ASSUME NEW d \in Client
               PROVE  tx_queue'[d] \in Seq(Commands[d]) /\ Len(tx_queue'[d]) <= MaxQueue
    OBVIOUS
  <2>1. CASE d = c
    <3>1. tx_queue'[d] = <<>> /\ MaxQueue \in Nat
      BY <1>2, <2>1, CommandHandlerAssumption
    <3> QED BY <3>1, EmptyQueue, Zenon
  <2>2. CASE d # c
    BY <1>2, <2>2 DEF HInv, QueuesOK
  <2> QED BY <2>1, <2>2
<1>4. tx_queue' = [d \in Client |-> tx_queue'[d]]
  BY <1>2, Zenon
<1> QED BY <1>1, <1>3, <1>4 DEF HInv, QueuesOK

\* Forgetting the watches of a client keeps the others as they are.
LEMMA WatchesReset ==
    ASSUME HInv, NEW c \in Client, watch_snapshots' = [watch_snapshots EXCEPT ![c] = {}],
           watching' = [watching EXCEPT ![c] = {}]
    PROVE  WatchesOK'
BY DEF HInv, WatchesOK, SnapshotOf

\* Subscription mode depends on the subscriptions only.
LEMMA SameSubscriptions ==
    ASSUME UNCHANGED subscriptions, NEW d
    PROVE  in_subscription_mode(d)' = in_subscription_mode(d)
BY DEF subscriptions, in_subscription_mode, PS!At

\* A command, on its own or from a queue.
LEMMA SingleInv ==
    ASSUME HInv, NEW c \in Client, NEW cmd \in Commands[c], execute_single(c, cmd)
    PROVE  Inv'
<1>1. IsCommand(cmd) /\ Inv
  BY CommandHandlerAssumption DEF HInv
<1> QED BY <1>1, DataInv, SameMaps DEF execute_single

\* WATCH remembers what its client sees at that moment.
LEMMA WatchInv ==
    ASSUME HInv, NEW c \in Client, NEW cmd \in Commands[c], cmd.name = "WATCH", handle_watch(c, cmd)
    PROVE  HInv'
<1>1. CASE in_multi[c]
  <2>1. UNCHANGED <<maps, subscriptions, tx>>
    BY <1>1 DEF handle_watch, Refuse
  <2> QED BY <2>1, SameTransactions, SameMaps, SameSubscriptions DEF HInv
<1>2. CASE ~in_multi[c]
  <2> DEFINE ks == Range(cmd.keys)
             S == {k \in ks : is_expired_unlocked(k)}
  <2>0. UNCHANGED <<subscriptions, in_multi, tx_queue, running>>
    BY <1>2 DEF handle_watch
  <2>1. remove_expired_unlocked(S)
    BY <1>2 DEF handle_watch
  <2>2. Inv'
    BY <2>1, RemoveInv DEF HInv
  <2>3. \A k \in ks : k \in Key
    <3>1. cmd.keys \in KeyArgs
      BY CommandHandlerAssumption DEF IsCommand
    <3>2. cmd.keys \in Seq(Key)
      BY <3>1, DatabaseAssumption
    <3> QED BY <3>2 DEF Range
  <2>4. /\ watch_snapshots' = [watch_snapshots EXCEPT
                 ![c] = @ \cup {WatchedKeySnapshot(k) : k \in ks}]
        /\ watching' = [watching EXCEPT ![c] = @ \cup {[key |-> k, seen |-> Seen(k)] : k \in ks}]
    BY <1>2 DEF handle_watch
  <2>5. \A k \in ks : /\ [key |-> k, seen |-> Seen(k)] \in Watch
                      /\ WatchedKeySnapshot(k) = SnapshotOf([key |-> k, seen |-> Seen(k)])
                      /\ WatchedKeySnapshot(k) \in Snapshot
    BY <2>3, SnapshotIs DEF HInv
  <2> HIDE DEF ks
  <2> DEFINE W == {[key |-> k, seen |-> Seen(k)] : k \in ks}
             N == {WatchedKeySnapshot(k) : k \in ks}
  <2>6. W \subseteq Watch /\ N \subseteq Snapshot /\ N = {SnapshotOf(w) : w \in W}
    BY <2>5, Zenon
  <2>7. watch_snapshots' = [watch_snapshots EXCEPT ![c] = @ \cup N]
    BY <2>4
  <2>8. watching' = [watching EXCEPT ![c] = @ \cup W]
    BY <2>4
  <2> HIDE DEF W, N
  <2>9. watch_snapshots' \in [Client -> SUBSET Snapshot] /\ watching' \in [Client -> SUBSET Watch]
    BY <2>6, <2>7, <2>8 DEF HInv, WatchesOK
  <2>10. ASSUME NEW d \in Client
         PROVE  watch_snapshots'[d] = {SnapshotOf(w) : w \in watching'[d]}
    <3>1. /\ watch_snapshots'[d] = IF d = c THEN watch_snapshots[d] \cup N ELSE watch_snapshots[d]
          /\ watching'[d] = IF d = c THEN watching[d] \cup W ELSE watching[d]
          /\ watch_snapshots[d] = {SnapshotOf(w) : w \in watching[d]}
      BY <2>7, <2>8, Zenon DEF HInv, WatchesOK
    <3> QED BY <3>1, <2>6
  <2>11. WatchesOK'
    BY <2>9, <2>10 DEF WatchesOK, SnapshotOf
  <2>12. QueuesOK' /\ RunningOK'
    BY <2>0 DEF HInv, QueuesOK, RunningOK, Idle
  <2>13. NoStuckTransaction'
    BY <2>0, SameSubscriptions DEF HInv, NoStuckTransaction, Idle
  <2> QED BY <2>2, <2>11, <2>12, <2>13 DEF HInv
<1> QED BY <1>1, <1>2

\* EXEC starts its own queue, or aborts and leaves the transaction.
LEMMA ExecInv ==
    ASSUME HInv, running = Idle, NEW c \in Client, handle_exec(c)
    PROVE  HInv'
<1>1. CASE ~in_multi[c]
  <2>1. UNCHANGED <<maps, subscriptions, tx>>
    BY <1>1 DEF handle_exec, Refuse
  <2> QED BY <2>1, SameTransactions, SameMaps, SameSubscriptions DEF HInv
<1>2. CASE in_multi[c] /\ watched_keys_modified(c)
  <2>0. UNCHANGED <<subscriptions, running>>
    BY <1>2 DEF handle_exec
  <2>1. Inv'
    <3>1. \E S : remove_expired_unlocked(S)
      BY <1>2 DEF handle_exec
    <3> QED BY <3>1, RemoveInv DEF HInv
  <2>2. /\ in_multi' = [in_multi EXCEPT ![c] = FALSE] /\ tx_queue' = [tx_queue EXCEPT ![c] = <<>>]
        /\ watch_snapshots' = [watch_snapshots EXCEPT ![c] = {}]
        /\ watching' = [watching EXCEPT ![c] = {}]
    BY <1>2 DEF handle_exec, ClearTransaction
  <2>3. /\ QueuesOK' /\ ~in_multi'[c]
        /\ \A d \in Client \ {c} : in_multi'[d] = in_multi[d]
    BY <2>2, QueueReset, Zenon
  <2>4. WatchesOK'
    BY <2>2, WatchesReset, Zenon
  <2>5. RunningOK'
    BY <2>0 DEF RunningOK, Idle
  <2>6. NoStuckTransaction'
    BY <2>0, <2>3, SameSubscriptions DEF HInv, NoStuckTransaction, Idle
  <2> QED BY <2>1, <2>3, <2>4, <2>5, <2>6 DEF HInv
<1>3. CASE in_multi[c] /\ ~watched_keys_modified(c)
  <2>0. /\ UNCHANGED <<subscriptions, in_multi, tx_queue, watch_snapshots, watching>>
        /\ running' = [client |-> c, left |-> tx_queue[c], results |-> <<>>]
    BY <1>3 DEF handle_exec
  <2>1. Inv'
    <3>1. remove_expired_unlocked(ExpiredWatched(c))
      BY <1>3 DEF handle_exec
    <3> QED BY <3>1, RemoveInv DEF HInv
  <2>2. QueuesOK' /\ WatchesOK'
    BY <2>0 DEF HInv, QueuesOK, WatchesOK
  <2>3. RunningOK'
    BY <1>3, <2>0 DEF HInv, QueuesOK, RunningOK
  <2>4. NoStuckTransaction'
    BY <2>0, SameSubscriptions DEF HInv, NoStuckTransaction
  <2> QED BY <2>1, <2>2, <2>3, <2>4 DEF HInv
<1> QED BY <1>1, <1>2, <1>3

\* MULTI and DISCARD.
LEMMA MultiInv ==
    ASSUME HInv, running = Idle, NEW c \in Client, ~in_subscription_mode(c),
           handle_multi(c) \/ handle_discard(c)
    PROVE  HInv'
<1>1. CASE UNCHANGED <<maps, subscriptions, tx>>
  BY <1>1, SameTransactions, SameMaps, SameSubscriptions DEF HInv
<1>2. CASE \E b \in BOOLEAN :
              /\ in_multi' = [in_multi EXCEPT ![c] = b] /\ tx_queue' = [tx_queue EXCEPT ![c] = <<>>]
              /\ UNCHANGED <<maps, subscriptions, watch_snapshots, running, watching>>
  <2>1. QueuesOK' /\ \A d \in Client \ {c} : in_multi'[d] = in_multi[d]
    BY <1>2, QueueReset, Zenon
  <2>2. Inv'
    BY <1>2, SameMaps DEF HInv
  <2>3. WatchesOK'
    BY <1>2 DEF HInv, WatchesOK
  <2>4. RunningOK'
    BY <1>2, <2>1 DEF HInv, RunningOK, Idle
  <2>5. NoStuckTransaction'
    BY <1>2, <2>1, SameSubscriptions DEF HInv, NoStuckTransaction, Idle
  <2> QED BY <2>1, <2>2, <2>3, <2>4, <2>5 DEF HInv
<1> QED BY <1>1, <1>2, Zenon DEF handle_multi, handle_discard, Refuse

\* A command in a transaction is queued, not run.
LEMMA QueueInv ==
    ASSUME HInv, NEW c \in Client, NEW cmd \in Commands[c], Queue(c, cmd)
    PROVE  HInv'
<1>0. UNCHANGED <<maps, subscriptions, in_multi, watch_snapshots, running, watching>>
  BY DEF Queue
<1>1. Inv'
  BY <1>0, SameMaps DEF HInv
<1>2. tx_queue' = [d \in Client |-> IF d = c THEN Append(tx_queue[c], cmd) ELSE tx_queue[d]]
  BY Zenon DEF Queue, HInv, QueuesOK
<1>3. Append(tx_queue[c], cmd) \in Seq(Commands[c])
  BY DEF HInv, QueuesOK
<1>4. Len(Append(tx_queue[c], cmd)) = Len(tx_queue[c]) + 1 /\ Len(tx_queue[c]) \in Nat
  BY DEF HInv, QueuesOK
<1>5. Len(tx_queue[c]) < MaxQueue /\ MaxQueue \in Nat
  BY CommandHandlerAssumption DEF Queue
<1>6. Len(Append(tx_queue[c], cmd)) <= MaxQueue
  BY <1>4, <1>5
<1>7. \A d \in Client : tx_queue'[d] \in Seq(Commands[d]) /\ Len(tx_queue'[d]) <= MaxQueue
  BY <1>2, <1>3, <1>6, Zenon DEF HInv, QueuesOK
<1>8. QueuesOK'
  BY <1>0, <1>2, <1>7 DEF HInv, QueuesOK
<1>9. WatchesOK' /\ RunningOK'
  BY <1>0 DEF HInv, WatchesOK, RunningOK, Idle
<1>10. NoStuckTransaction'
  BY <1>0, SameSubscriptions DEF HInv, NoStuckTransaction, Idle
<1> QED BY <1>1, <1>8, <1>9, <1>10 DEF HInv

\* Whatever a client sends, through the dispatch of execute().
LEMMA ExecuteInv ==
    ASSUME HInv, running = Idle, NEW c \in Client, NEW cmd \in Commands[c], execute(c, cmd)
    PROVE  HInv'
<1>1. CASE Refuse("execute")
  <2>1. UNCHANGED <<maps, subscriptions, tx>>
    BY <1>1 DEF Refuse
  <2> QED BY <2>1, SameTransactions, SameMaps, SameSubscriptions DEF HInv
<1>2. CASE cmd.name \in {"MULTI", "DISCARD"} /\ ~Refuse("execute")
  <2>1. ~in_subscription_mode(c)
    BY <1>2 DEF execute, SubscriberCommands
  <2>2. handle_multi(c) \/ handle_discard(c)
    BY <1>2 DEF execute, TxCommands
  <2> QED BY <2>1, <2>2, MultiInv
<1>3. CASE handle_exec(c)
  BY <1>3, ExecInv
<1>4. CASE cmd.name = "WATCH" /\ handle_watch(c, cmd)
  BY <1>4, WatchInv
<1>5. CASE Queue(c, cmd)
  BY <1>5, QueueInv
<1>6. CASE ~in_multi[c] /\ execute_single(c, cmd) /\ UNCHANGED tx
  <2>1. Inv'
    BY <1>6, SingleInv
  <2>2. \A d \in Client : in_multi[d] /\ in_subscription_mode(d)' => in_subscription_mode(d)
    BY <1>6, OthersNotSubscribed
  <2> QED BY <1>6, <2>1, <2>2, SameTransactions
<1> QED BY <1>1, <1>2, <1>3, <1>4, <1>5, <1>6 DEF execute

\* The next command of a running EXEC.
LEMMA ExecCommandInv ==
    ASSUME HInv, ExecCommand
    PROVE  HInv'
<1> DEFINE c == running.client
<1>0. UNCHANGED <<in_multi, tx_queue, watch_snapshots, watching>> /\ running # Idle
  BY DEF ExecCommand
<1>1. /\ running = [client |-> c, left |-> running.left, results |-> running.results]
      /\ c \in Client /\ running.left \in Seq(Commands[c]) /\ in_multi[c]
  BY <1>0 DEF HInv, RunningOK
<1>2. Head(running.left) \in Commands[c] /\ Tail(running.left) \in Seq(Commands[c])
  BY <1>1 DEF ExecCommand
<1>4. execute_single(c, Head(running.left))
  BY DEF ExecCommand
<1>5. Inv'
  BY <1>1, <1>2, <1>4, SingleInv
<1>6. running' = [client  |-> c, left |-> Tail(running.left),
                  results |-> Append(running.results, reply')]
  <2>1. running' = [running EXCEPT !.left = Tail(@), !.results = Append(@, reply')]
    BY DEF ExecCommand
  <2> QED BY <1>1, <2>1, Zenon
<1>7. QueuesOK' /\ WatchesOK'
  BY <1>0 DEF HInv, QueuesOK, WatchesOK
<1>8. RunningOK'
  BY <1>0, <1>1, <1>2, <1>6 DEF RunningOK
<1>9. NoStuckTransaction'
  <2>1. running' # Idle
    BY <1>1, <1>6, CommandHandlerAssumption DEF Idle
  <2> QED BY <1>0, <1>4, <1>6, <2>1, OthersNotSubscribed DEF HInv, NoStuckTransaction
<1> QED BY <1>5, <1>7, <1>8, <1>9 DEF HInv

\* The end of an EXEC ends the transaction of its own client.
LEMMA ExecEndInv ==
    ASSUME HInv, ExecEnd
    PROVE  HInv'
<1> DEFINE c == running.client
<1>0. running # Idle /\ UNCHANGED <<maps, subscriptions>> /\ running' = Idle
  BY DEF ExecEnd
<1>1. c \in Client
  BY <1>0 DEF HInv, RunningOK
<1>2. /\ in_multi' = [in_multi EXCEPT ![c] = FALSE] /\ tx_queue' = [tx_queue EXCEPT ![c] = <<>>]
      /\ watch_snapshots' = [watch_snapshots EXCEPT ![c] = {}]
      /\ watching' = [watching EXCEPT ![c] = {}]
  BY DEF ExecEnd, ClearTransaction
<1>3. /\ QueuesOK' /\ in_multi'[c] = FALSE
      /\ \A d \in Client \ {c} : in_multi'[d] = in_multi[d]
  BY <1>1, <1>2, QueueReset, Zenon
<1>4. WatchesOK'
  BY <1>1, <1>2, WatchesReset, Zenon
<1>5. Inv'
  BY <1>0, SameMaps DEF HInv
<1>6. RunningOK'
  BY <1>0 DEF RunningOK, Idle
<1>7. NoStuckTransaction'
  BY <1>0, <1>3, SameSubscriptions DEF HInv, NoStuckTransaction
<1> QED BY <1>3, <1>4, <1>5, <1>6, <1>7 DEF HInv

\* The scan and the clock.
LEMMA BackgroundInv ==
    ASSUME HInv, Scan \/ HTick
    PROVE  HInv'
<1>1. Next /\ UNCHANGED <<subscriptions, tx>>
  BY DEF Scan, HTick, Next
<1>2. Inv'
  BY <1>1, NextInv DEF HInv
<1> QED BY <1>1, <1>2, SameTransactions, SameSubscriptions

\* The induction step, one case for each action.
LEMMA HInvInductive == HInv /\ [HNext]_hvars => HInv'
<1> SUFFICES ASSUME HInv, [HNext]_hvars PROVE HInv'
  OBVIOUS
<1>1. CASE ExecuteNext
  BY <1>1, ExecuteInv DEF ExecuteNext
<1>2. CASE UNCHANGED hvars
  <2>1. UNCHANGED <<maps, subscriptions, tx>>
    BY <1>2 DEF hvars, vars, maps, subscriptions, tx
  <2> QED BY <2>1, SameTransactions, SameMaps, SameSubscriptions DEF HInv
<1> QED BY <1>1, <1>2, ExecCommandInv, ExecEndInv, BackgroundInv DEF HNext

\* The initial states.
LEMMA HInitInv == HInit => HInv
<1> SUFFICES ASSUME HInit PROVE HInv
  OBVIOUS
<1>1. Inv
  BY DEF HInit, Init, Inv, TypeOK, IsMap, OneTypePerKey, NoOrphanDeadline, NoEmptyList, Present
<1>2. QueuesOK
  <2>1. MaxQueue \in Nat
    BY CommandHandlerAssumption
  <2> QED BY <2>1, EmptyQueue DEF HInit, QueuesOK
<1>3. WatchesOK
  BY DEF HInit, WatchesOK
<1>4. RunningOK
  BY DEF HInit, RunningOK
<1>5. NoStuckTransaction
  BY DEF HInit, NoStuckTransaction
<1> QED BY <1>1, <1>2, <1>3, <1>4, <1>5 DEF HInv

\* The queues, the watches and the running EXEC of the handlers belong together
\* in every reachable state.
THEOREM HandlersConsistent == HSpec => []HInv
BY HInitInv, HInvInductive, PTL DEF HSpec

\* However commands, EXECs, expiry and time interleave, no client is left in a
\* transaction that subscription mode keeps it from ending
\* (command_handler.cpp:22-61).
COROLLARY TransactionsCanEnd == HSpec => []NoStuckTransaction
<1>1. HInv => NoStuckTransaction
  BY DEF HInv
<1> QED BY <1>1, HandlersConsistent, PTL

\* Every member of every handler keeps its type.
COROLLARY HandlersTyped == HSpec => []HTypeOK
<1>1. HInv => HTypeOK
  BY DEF HInv, Inv, HTypeOK, QueuesOK, WatchesOK, Snapshot
<1> QED BY <1>1, HandlersConsistent, PTL

-----------------------------------------------------------------------------
(* What a client may rely on: an EXEC runs exactly if its watches hold, it  *)
(* runs alone, and an error leaves things as they were.                     *)

(* The watches decide *)

\* The snapshots of a client tell whether something it watches has changed.
LEMMA ModifiedIff ==
    ASSUME HInv, NEW c \in Client
    PROVE  watched_keys_modified(c) <=> \E w \in watching[c] : ~Unchanged(w)
<1>1. watch_snapshots[c] = {SnapshotOf(w) : w \in watching[c]} /\ Inv
  BY DEF HInv, WatchesOK
<1>2. \A w \in watching[c] : w \in Watch
  BY DEF HInv, WatchesOK
<1>3. \A w \in watching[c] : Changed(SnapshotOf(w)) <=> ~Unchanged(w)
  BY <1>1, <1>2, ChangedIff
<1>4. watched_keys_modified(c) <=> \E w \in watching[c] : Changed(SnapshotOf(w))
  BY <1>1 DEF watched_keys_modified
<1> QED BY <1>3, <1>4

\* EXEC runs if and only if what its client watches is unchanged.
LEMMA ExecDecides ==
    ASSUME HInv, running = Idle, NEW d \in Client, handle_exec(d)
    PROVE  WatchesDecide
<1>1. CASE ~in_multi[d]
  BY <1>1 DEF handle_exec, Refuse, tx, WatchesDecide
<1>2. CASE in_multi[d] /\ watched_keys_modified(d)
  <2>1. running' = Idle /\ in_multi' = [in_multi EXCEPT ![d] = FALSE]
    BY <1>2 DEF handle_exec, ClearTransaction
  <2>2. \A c \in Client : in_multi[c] /\ ~in_multi'[c] => c = d
    BY <2>1 DEF HInv, QueuesOK
  <2>3. \E w \in watching[d] : ~Unchanged(w)
    BY <1>2, ModifiedIff
  <2> QED BY <2>1, <2>2, <2>3 DEF WatchesDecide
<1>3. CASE in_multi[d] /\ ~watched_keys_modified(d)
  <2>1. /\ running' = [client |-> d, left |-> tx_queue[d], results |-> <<>>]
        /\ in_multi' = in_multi
    BY <1>3 DEF handle_exec
  <2>2. \A w \in watching[d] : Unchanged(w)
    BY <1>3, ModifiedIff
  <2> QED BY <2>1, <2>2 DEF WatchesDecide
<1> QED BY <1>1, <1>2, <1>3

\* Every step: none but an EXEC starts or aborts a queue.
LEMMA StepDecides == HInv /\ [HNext]_hvars => WatchesDecide
<1> SUFFICES ASSUME HInv, [HNext]_hvars, running = Idle PROVE WatchesDecide
  BY DEF WatchesDecide
<1>1. CASE UNCHANGED <<running, in_multi>>
  BY <1>1 DEF WatchesDecide
<1>2. ASSUME NEW op, NEW r, op # "exec", Returns(op, r), UNCHANGED running
      PROVE  WatchesDecide
  BY <1>2 DEF WatchesDecide, Returns
<1>3. ASSUME NEW d \in Client, NEW cmd \in Commands[d], execute(d, cmd)
      PROVE  WatchesDecide
  <2>1. CASE handle_exec(d)
    BY <2>1, ExecDecides
  <2>2. CASE handle_multi(d)
    BY <1>1, <1>2, <2>2 DEF handle_multi, Refuse, tx
  <2>3. CASE handle_discard(d)
    BY <1>1, <1>2, <2>3 DEF handle_discard, Refuse, tx
  <2>4. CASE handle_watch(d, cmd)
    BY <1>1, <2>4 DEF handle_watch, Refuse, tx
  <2>5. CASE Queue(d, cmd)
    BY <1>1, <2>5 DEF Queue
  <2>6. CASE UNCHANGED tx
    BY <1>1, <2>6 DEF tx
  <2> QED BY <1>3, <2>1, <2>2, <2>3, <2>4, <2>5, <2>6 DEF execute, Refuse
<1>4. CASE Scan \/ HTick \/ UNCHANGED hvars
  BY <1>1, <1>4 DEF Scan, HTick, hvars, tx
<1> QED BY <1>3, <1>4 DEF HNext, ExecuteNext, ExecCommand, ExecEnd

\* An EXEC runs its queue exactly if all that its client watched is as it was:
\* nothing between WATCH and EXEC is missed, and nothing aborts it for no reason
\* (command_handler.cpp:380-497).
THEOREM WatchesDecideExec == HSpec => ExecIffUnchanged
<1>1. HInv /\ [HNext]_hvars => [WatchesDecide]_hvars
  BY StepDecides
<1> QED BY <1>1, HandlersConsistent, PTL DEF HSpec, ExecIffUnchanged

-----------------------------------------------------------------------------
(* An EXEC runs alone *)

\* What is seen of a key, spelt out, before and after a step.
LEMMA SeenSpelt ==
    ASSUME NEW k
    PROVE  /\ Seen(k) = IF k \in Live
                        THEN [type |-> IF k \in DOMAIN store THEN "string" ELSE "list",
                              val  |-> IF k \in DOMAIN store THEN store[k] ELSE list_store[k]]
                        ELSE Nil
           /\ Seen(k)' = IF k \in Live'
                         THEN [type |-> IF k \in DOMAIN store' THEN "string" ELSE "list",
                               val  |-> IF k \in DOMAIN store' THEN store'[k] ELSE list_store'[k]]
                         ELSE Nil
BY DEF Seen, LiveView

\* With the same view every key is seen as before.
LEMMA SameSeen ==
    ASSUME LiveView' = LiveView, NEW k
    PROVE  Seen(k)' = Seen(k)
<1>1. DOMAIN LiveView = Live /\ DOMAIN LiveView' = Live'
  BY DEF LiveView
<1> QED BY <1>1 DEF Seen

\* A tick takes keys away at their deadline and does nothing else.
LEMMA TickSeen ==
    ASSUME Inv, Tick, NEW k \in Key
    PROVE  \/ Seen(k)' = Seen(k)
           \/ Seen(k)' = Nil /\ k \in DOMAIN expiry /\ expiry[k] <= 1
<1>1. store' = store /\ list_store' = list_store /\ expiry' = Elapse(1)
  BY DEF Tick
<1>2. \A x \in DOMAIN expiry : expiry[x] \in Nat
  BY DEF Inv, TypeOK, IsMap
<1>3. k \in Live' <=> k \in Live /\ (k \in DOMAIN expiry => expiry[k] > 1)
  BY <1>1, <1>2 DEF Live, Present, is_expired_unlocked, Elapse
<1>4. CASE k \in Live'
  BY <1>1, <1>3, <1>4, SeenSpelt
<1>5. CASE k \notin Live'
  BY <1>2, <1>3, <1>5, SeenSpelt
<1> QED BY <1>4, <1>5

\* While an EXEC runs only its own commands and time change the data.
LEMMA StepIsolated == HInv /\ [HNext]_hvars => OnlyTimePasses
<1> SUFFICES ASSUME HInv, [HNext]_hvars, running # Idle, running' = running
             PROVE  OnlyTimePasses
  BY DEF OnlyTimePasses
<1>0. Inv
  BY DEF HInv
<1>1. ~ExecuteNext /\ ~ExecEnd
  BY DEF ExecuteNext, ExecEnd
<1>2. ~ExecCommand
  <2> SUFFICES ASSUME ExecCommand PROVE FALSE
    OBVIOUS
  <2>1. /\ running = [client |-> running.client, left |-> running.left, results |-> running.results]
        /\ running.left \in Seq(Commands[running.client]) /\ running.left # <<>>
    BY DEF HInv, RunningOK, ExecCommand
  <2>2. running' = [running EXCEPT !.left = Tail(@), !.results = Append(@, reply')]
    BY DEF ExecCommand
  <2>3. running'.left = Tail(running.left)
    BY <2>1, <2>2, Zenon
  <2>4. Len(Tail(running.left)) = Len(running.left) - 1 /\ Len(running.left) \in Nat
    BY <2>1
  <2>5. Len(Tail(running.left)) = Len(running.left)
    BY <2>3, Zenon
  <2> QED BY <2>4, <2>5
<1>3. CASE Scan
  <2>1. \E S : S \cap Live = {} /\ remove_expired_unlocked(S)
    <3>1. PICK sample \in SUBSET DOMAIN expiry : expiry_scan(sample)
      BY <1>3 DEF Scan
    <3>2. {k \in sample : expiry[k] <= 0} \cap Live = {}
      BY DEF Live, is_expired_unlocked
    <3> QED BY <3>1, <3>2 DEF expiry_scan
  <2>2. LiveView' = LiveView
    BY <1>0, <2>1, RemoveUnseen
  <2>3. UNCHANGED <<subscriptions, tx>>
    BY <1>3 DEF Scan
  <2> QED BY <2>2, <2>3, SameSeen DEF OnlyTimePasses, tx
<1>4. CASE HTick
  BY <1>0, <1>4, TickSeen DEF OnlyTimePasses, HTick, tx
<1>5. CASE UNCHANGED hvars
  <2>1. LiveView' = LiveView
    BY <1>5 DEF hvars, vars, LiveView, Live, Present, is_expired_unlocked
  <2> QED BY <1>5, <2>1, SameSeen DEF OnlyTimePasses, hvars, tx
<1> QED BY <1>1, <1>2, <1>3, <1>4, <1>5 DEF HNext

\* From its check to its end an EXEC has the data to itself, but for keys whose
\* time is up: nothing else runs between two of its commands
\* (command_handler.cpp:398-404).
THEOREM ExecRunsAlone == HSpec => ExecIsIsolated
<1>1. HInv /\ [HNext]_hvars => [OnlyTimePasses]_hvars
  BY StepIsolated
<1> QED BY <1>1, HandlersConsistent, PTL DEF HSpec, ExecIsIsolated

-----------------------------------------------------------------------------
(* Errors *)

\* The names of the answers that may be errors.
LEMMA NotAnError ==
    ASSUME NEW op, NEW r, Returns(op, r), op \notin {"error", "lpush", "rpush", "llen"}
    PROVE  ~IsError(reply')
BY DEF Returns, IsError

\* Clients see nothing but the maps.
LEMMA SameMapsSeen ==
    ASSUME UNCHANGED maps
    PROVE  LiveView' = LiveView
BY DEF maps, LiveView, Live, Present, is_expired_unlocked

\* The answer to a push that stores something is the new length, never -1.
LEMMA PushHarmless ==
    ASSUME NEW k, NEW op, NEW list \in Seq(Value), Push(op, k, list), IsError(reply'),
           op \in {"lpush", "rpush"}
    PROVE  LiveView' = LiveView
<1>1. CASE k \in DOMAIN store /\ ~is_expired_unlocked(k)
  <2>1. UNCHANGED maps
    BY <1>1 DEF Push
  <2> QED BY <2>1, SameMapsSeen
<1>2. CASE ~(k \in DOMAIN store /\ ~is_expired_unlocked(k))
  <2>1. reply' = <<op, Len(list)>>
    BY <1>2 DEF Push, Returns
  <2>2. Len(list) # -1
    OBVIOUS
  <2>3. ~IsError(reply')
    BY <2>1, <2>2 DEF IsError
  <2> QED BY <2>3
<1> QED BY <1>1, <1>2

\* A list command that answers with an error changed nothing visible.
LEMMA ListHarmless ==
    ASSUME Inv, NEW cmd, IsCommand(cmd), ListCommand(cmd), IsError(reply')
    PROVE  LiveView' = LiveView
<1>1. cmd.key \in Key
  BY DEF IsCommand, ListCommand
<1>2. ListAt(cmd.key) \in Seq(Value)
  BY <1>1, ListAtType
<1>3. CASE cmd.name = "LPUSH" /\ lpush(cmd.key, cmd.values)
  <2>1. cmd.values \in Seq(Value)
    BY <1>3, DatabaseAssumption DEF IsCommand
  <2>2. Reverse(cmd.values) \in Seq(Value)
    BY <2>1 DEF Reverse
  <2>3. Reverse(cmd.values) \o ListAt(cmd.key) \in Seq(Value)
    BY <1>2, <2>2
  <2> QED BY <1>3, <2>3, PushHarmless, Zenon DEF lpush
<1>4. CASE cmd.name = "RPUSH" /\ rpush(cmd.key, cmd.values)
  <2>1. cmd.values \in Seq(Value)
    BY <1>4, DatabaseAssumption DEF IsCommand
  <2>2. ListAt(cmd.key) \o cmd.values \in Seq(Value)
    BY <1>2, <2>1
  <2> QED BY <1>4, <2>2, PushHarmless, Zenon DEF rpush
<1>5. CASE lpop(cmd.key)
  <2>1. \E r : Returns("lpop", r)
    BY <1>5 DEF lpop, Pop
  <2> QED BY <2>1, NotAnError
<1>6. CASE rpop(cmd.key)
  <2>1. \E r : Returns("rpop", r)
    BY <1>6 DEF rpop, Pop
  <2> QED BY <2>1, NotAnError
<1>7. CASE llen(cmd.key) \/ lrange(cmd.key, cmd.start, cmd.stop) \/ lindex(cmd.key, cmd.index)
  <2>1. remove_expired_unlocked(Expired(cmd.key))
    BY <1>7 DEF llen, lrange, lindex
  <2> QED BY <2>1, LazyUnseen
<1> QED BY <1>3, <1>4, <1>5, <1>6, <1>7 DEF ListCommand

\* A key command that answers with an error changed nothing visible.
LEMMA KeyHarmless ==
    ASSUME NEW cmd, KeyCommand(cmd), IsError(reply'), reply' # <<"error", "set">>
    PROVE  LiveView' = LiveView
<1>1. CASE UNCHANGED maps
  BY <1>1, SameMapsSeen
<1>2. CASE \E r, op : Returns(op, r) /\ op \notin {"error", "lpush", "rpush", "llen"}
  BY <1>2, NotAnError
<1>3. CASE handle_set(cmd)
  <2>1. Returns("set", "OK") \/ Returns("error", "set")
    BY <1>3 DEF handle_set
  <2> QED BY <1>2, <2>1 DEF Returns
<1>4. CASE set(cmd.key, cmd.value)
  BY <1>2, <1>4 DEF set
<1>5. CASE get(cmd.key)
  <2>1. \E r : Returns("get", r)
    BY <1>5 DEF get
  <2> QED BY <1>2, <2>1
<1>6. CASE del(cmd.keys)
  BY <1>2, <1>6 DEF del
<1>7. CASE exists(cmd.keys)
  <2>1. \E r : Returns("exists", r)
    BY <1>7, Zenon DEF exists
  <2> QED BY <1>2, <2>1
<1>8. CASE keys \/ dbsize \/ flushdb
  <2>1. \E r : Returns("keys", r) \/ Returns("dbsize", r) \/ Returns("flushdb", r)
    BY <1>8, Zenon DEF keys, dbsize, flushdb
  <2> QED BY <1>2, <2>1
<1>9. CASE handle_expire(cmd)
  <2>1. CASE cmd.seconds > 0
    <3>1. Returns("expire", TRUE) \/ Returns("expire", FALSE)
      BY <1>9, <2>1, Zenon DEF handle_expire, expire
    <3>2. "expire" \notin {"error", "lpush", "rpush", "llen"}
      OBVIOUS
    <3> QED BY <1>2, <3>1, <3>2, Zenon
  <2>2. CASE ~(cmd.seconds > 0)
    BY <1>1, <1>9, <2>2 DEF handle_expire
  <2> QED BY <2>1, <2>2
<1>10. ASSUME NEW lag \in 0 .. MaxLag, ttl(cmd.key, lag)
       PROVE  LiveView' = LiveView
  <2>1. \E r : Returns("ttl", r)
    BY <1>10, Zenon DEF ttl
  <2> QED BY <1>2, <2>1
<1>11. CASE persist(cmd.key)
  <2>1. Returns("persist", cmd.key \in DOMAIN expiry) \/ Returns("persist", FALSE)
    BY <1>11, Zenon DEF persist
  <2>2. "persist" \notin {"error", "lpush", "rpush", "llen"}
    OBVIOUS
  <2> QED BY <1>2, <2>1, <2>2, Zenon
<1>12. CASE NoEffect(cmd)
  BY <1>1, <1>12 DEF NoEffect
<1> QED
  BY <1>3, <1>4, <1>5, <1>6, <1>7, <1>8, <1>9, <1>10, <1>11, <1>12, Zenon DEF KeyCommand

\* The pub/sub commands answer without errors.
LEMMA PubSubIsNoError ==
    ASSUME NEW c, NEW cmd, PubSubCommand(c, cmd)
    PROVE  ~IsError(reply')
<1>1. \E r : \/ reply' = <<"subscribe", r>> \/ reply' = <<"unsubscribe", r>>
            \/ reply' = <<"publish", r>>
  BY Zenon DEF PubSubCommand, handle_unsubscribe, PS!subscribe, PS!unsubscribe, PS!unsubscribe_all,
         PS!publish, PS!Returns
<1> QED BY <1>1 DEF IsError

\* One command alone.
LEMMA SingleHarmless ==
    ASSUME HInv, NEW c \in Client, NEW cmd \in Commands[c], execute_single(c, cmd),
           IsError(reply'), reply' # <<"error", "set">>
    PROVE  LiveView' = LiveView /\ UNCHANGED subscriptions
<1>1. IsCommand(cmd) /\ Inv
  BY CommandHandlerAssumption DEF HInv
<1>2. (KeyCommand(cmd) \/ ListCommand(cmd)) /\ UNCHANGED subscriptions
  BY PubSubIsNoError DEF execute_single
<1> QED BY <1>1, <1>2, KeyHarmless, ListHarmless

\* Every step, the commands of a running EXEC included.
LEMMA StepHarmless == HInv /\ [HNext]_hvars => ErrorIsHarmless
<1> SUFFICES ASSUME HInv, [HNext]_hvars, IsError(reply'), reply' # <<"error", "set">>,
                    IsError(reply) => reply' # reply
             PROVE  LiveView' = LiveView /\ UNCHANGED subscriptions
  BY DEF ErrorIsHarmless
<1>1. reply' # reply
  OBVIOUS
<1>2. \A op \in {"multi", "discard", "watch", "exec", "queued"} : \A r : ~Returns(op, r)
  BY NotAnError
<1>3. ASSUME NEW d \in Client, NEW cmd \in Commands[d], execute(d, cmd)
      PROVE  LiveView' = LiveView /\ UNCHANGED subscriptions
  <2>1. CASE \E op : Refuse(op)
    BY <2>1, SameMapsSeen DEF Refuse
  <2>2. CASE execute_single(d, cmd)
    BY <2>2, SingleHarmless
  <2>3. handle_multi(d) => \E op : Refuse(op)
    BY <1>2 DEF handle_multi
  <2>4. handle_discard(d) => \E op : Refuse(op)
    BY <1>2 DEF handle_discard
  <2>5. handle_watch(d, cmd) => \E op : Refuse(op)
    BY <1>2 DEF handle_watch
  <2>6. handle_exec(d) => \E op : Refuse(op)
    BY <1>2, Zenon DEF handle_exec
  <2>7. ~Queue(d, cmd)
    BY <1>2 DEF Queue
  <2> QED BY <1>3, <2>1, <2>2, <2>3, <2>4, <2>5, <2>6, <2>7 DEF execute
<1>4. CASE ExecCommand
  <2>1. /\ running.client \in Client
        /\ running.left \in Seq(Commands[running.client]) /\ running.left # <<>>
    BY <1>4 DEF HInv, RunningOK, ExecCommand
  <2>2. Head(running.left) \in Commands[running.client]
    BY <2>1
  <2>3. execute_single(running.client, Head(running.left))
    BY <1>4 DEF ExecCommand
  <2> QED BY <2>1, <2>2, <2>3, SingleHarmless
<1>5. ~ExecEnd
  BY <1>2 DEF ExecEnd
<1>6. ~Scan /\ ~HTick /\ ~UNCHANGED hvars
  BY <1>1, Zenon DEF Scan, expiry_scan, HTick, Tick, hvars, vars
<1> QED BY <1>3, <1>4, <1>5, <1>6 DEF HNext, ExecuteNext

\* Whatever a command sent alone or queued runs into, an error answer means
\* that nothing a client can see has changed; SET with a bad expire time is the
\* only exception (command_handler.cpp:84-112).
THEOREM ErrorsAreHarmless == HSpec => ErrorsChangeNothing
<1>1. HInv /\ [HNext]_hvars => [ErrorIsHarmless]_hvars
  BY StepHarmless
<1> QED BY <1>1, HandlersConsistent, PTL DEF HSpec, ErrorsChangeNothing

=============================================================================
