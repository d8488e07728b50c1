--------------------------- MODULE CommandHandler ---------------------------
(***************************************************************************)
(* CommandHandler: commands routed to the Database and to the              *)
(* PubSubManager, with subscription mode and transactions.  Every client   *)
(* has a handler object that it keeps from command to command, the use     *)
(* command_handler.h and tests/test_transactions.cpp make of it (the       *)
(* server's use is in Server); all handlers share one database.  One       *)
(* command runs at a time, but an EXEC is many database operations, and    *)
(* time and the background scan go on between them.                        *)
(***************************************************************************)
EXTENDS Database

CONSTANTS
    Client, Channel, ChannelArgs,   \* as in PubSub
    Commands,                       \* for every client the commands it sends
    MaxQueue                        \* bound on the commands queued by a MULTI

\* A command has the arguments that the checks of its handler let through.
IsCommand(cmd) ==
    /\ cmd.name \in {"SET", "GET", "EXPIRE", "TTL", "PERSIST", "LPUSH", "RPUSH", "LPOP", "RPOP",
                    "LRANGE", "LLEN", "LINDEX"} => cmd.key \in Key
    /\ cmd.name = "SET" => cmd.value \in Value /\ (cmd.ex = Nil \/ cmd.ex \in Int)
    /\ cmd.name = "EXPIRE" => cmd.seconds \in Int /\ (cmd.seconds > 0 => cmd.seconds \in Seconds)
    /\ cmd.name \in {"DEL", "EXISTS", "WATCH"} => cmd.keys \in KeyArgs
    /\ cmd.name \in {"LPUSH", "RPUSH"} => cmd.values \in Batches
    /\ cmd.name = "LRANGE" => cmd.start \in Indices /\ cmd.stop \in Indices
    /\ cmd.name = "LINDEX" => cmd.index \in Indices
    /\ cmd.name = "SUBSCRIBE" => cmd.channels \in ChannelArgs
    /\ cmd.name = "UNSUBSCRIBE" => cmd.channels \in ChannelArgs \cup {<<>>}
    /\ cmd.name = "PUBLISH" => cmd.channel \in Channel

ASSUME CommandHandlerAssumption ==
    /\ MaxQueue \in Nat
    /\ Nil \notin Client
    /\ Nil \notin [type : {"string", "list"}, val : Value \cup Seq(Value)]
    /\ \A chs \in ChannelArgs : chs \in Seq(Channel)
    /\ \A c \in Client : \A cmd \in Commands[c] : IsCommand(cmd)

VARIABLES
    channels, client_channels,      \* the PubSubManager's indexes
    sock,                           \* what a send to the client's socket would meet
    in_multi, tx_queue,             \* in_multi_ and tx_queue_ of every handler
    watch_snapshots,                \* watch_snapshots_ of every handler, as a set
    running,                        \* the EXEC the event loop is in, or Idle
    watching                        \* history: watched keys and what they held

tx == <<in_multi, tx_queue, watch_snapshots, running, watching>>
subscriptions == <<channels, client_channels, sock>>
hvars == <<vars, subscriptions, tx>>

PS == INSTANCE PubSub

TxCommands == {"MULTI", "EXEC", "DISCARD", "WATCH"}
SubscriberCommands == {"SUBSCRIBE", "UNSUBSCRIBE", "PING"}

Idle == [client |-> Nil, left |-> <<>>, results |-> <<>>]

\* The handlers' members are of their types.
HTypeOK ==
    /\ TypeOK
    /\ in_multi \in [Client -> BOOLEAN]
    /\ \A c \in Client :
          /\ tx_queue[c] \in Seq(Commands[c]) /\ Len(tx_queue[c]) <= MaxQueue
          /\ \A s \in watch_snapshots[c] :
                s.key \in Key /\ s.string_value \in Value \cup {Nil} /\ s.list_size >= -1

HInit ==
    /\ Init
    /\ channels = <<>> /\ client_channels = <<>>
    /\ sock = [c \in Client |-> "ready"]
    /\ in_multi = [c \in Client |-> FALSE]
    /\ tx_queue = [c \in Client |-> <<>>]
    /\ watch_snapshots = [c \in Client |-> {}]
    /\ running = Idle
    /\ watching = [c \in Client |-> {}]

-----------------------------------------------------------------------------
(* The command handlers *)

in_subscription_mode(c) == PS!At(client_channels, c) # {}

\* Faulty form: the expire time is not looked at.
handle_set_unchecked(cmd) ==
    /\ list_store' = Erase(list_store, {cmd.key})
    /\ store' = Put(store, cmd.key, cmd.value)
    /\ expiry' = Put(expiry, cmd.key, cmd.ex * TicksPerSecond)
    /\ Returns("set", "OK")

\* SET key value [EX seconds]: the value is stored, and an earlier TTL gone,
\* before the expire time is looked at.
handle_set(cmd) ==
    /\ list_store' = Erase(list_store, {cmd.key})
    /\ store' = Put(store, cmd.key, cmd.value)
    /\ expiry' = IF cmd.ex > 0 THEN Put(expiry, cmd.key, cmd.ex * TicksPerSecond)
                               ELSE Erase(expiry, {cmd.key})
    /\ (IF cmd.ex > 0 THEN Returns("set", "OK") ELSE Returns("error", "set"))

\* Faulty form: the seconds are looked at too late.
handle_expire_unchecked(cmd) ==
    /\ expiry' = IF cmd.key \in Present THEN Put(expiry, cmd.key, cmd.seconds) ELSE expiry
    /\ (IF cmd.seconds > 0 THEN Returns("expire", TRUE) ELSE Returns("error", "expire"))
    /\ UNCHANGED <<store, list_store>>

handle_expire(cmd) ==
    IF cmd.seconds > 0 THEN expire(cmd.key, cmd.seconds)
                       ELSE UNCHANGED maps /\ Returns("error", "expire")

handle_unsubscribe(c, cmd) ==
    IF cmd.channels = <<>> THEN PS!unsubscribe_all(c) ELSE PS!unsubscribe(c, cmd.channels)

\* Commands that change neither the database nor the subscriptions: PING,
\* CONFIG, SAVE (see Persistence), unknown ones and wrong numbers of arguments.
NoEffect(cmd) == UNCHANGED maps /\ Returns(cmd.name, "done")

KeyCommand(cmd) ==
    \/ cmd.name = "SET" /\ cmd.ex = Nil /\ set(cmd.key, cmd.value)
    \/ cmd.name = "SET" /\ cmd.ex # Nil /\ handle_set(cmd)
    \/ cmd.name = "GET" /\ get(cmd.key)
    \/ cmd.name = "DEL" /\ del(cmd.keys)
    \/ cmd.name = "EXISTS" /\ exists(cmd.keys)
    \/ cmd.name = "KEYS" /\ keys
    \/ cmd.name \in {"DBSIZE", "INFO"} /\ dbsize
    \/ cmd.name = "FLUSHDB" /\ flushdb
    \/ cmd.name = "EXPIRE" /\ handle_expire(cmd)
    \/ cmd.name = "TTL" /\ \E lag \in 0 .. MaxLag : ttl(cmd.key, lag)
    \/ cmd.name = "PERSIST" /\ persist(cmd.key)
    \/ cmd.name \in {"PING", "CONFIG", "SAVE", "ERR"} /\ NoEffect(cmd)

ListCommand(cmd) ==
    \/ cmd.name = "LPUSH" /\ lpush(cmd.key, cmd.values)
    \/ cmd.name = "RPUSH" /\ rpush(cmd.key, cmd.values)
    \/ cmd.name = "LPOP" /\ lpop(cmd.key)
    \/ cmd.name = "RPOP" /\ rpop(cmd.key)
    \/ cmd.name = "LRANGE" /\ lrange(cmd.key, cmd.start, cmd.stop)
    \/ cmd.name = "LLEN" /\ llen(cmd.key)
    \/ cmd.name = "LINDEX" /\ lindex(cmd.key, cmd.index)

PubSubCommand(c, cmd) ==
    \/ cmd.name = "SUBSCRIBE" /\ PS!subscribe(c, cmd.channels)
    \/ cmd.name = "UNSUBSCRIBE" /\ handle_unsubscribe(c, cmd)
    \/ cmd.name = "PUBLISH" /\ \E failed \in SUBSET Client : PS!publish(cmd.channel, failed)

\* Dispatch by name; queued commands come here without another look at the
\* subscription mode.
execute_single(c, cmd) ==
    \/ (KeyCommand(cmd) \/ ListCommand(cmd)) /\ UNCHANGED subscriptions
    \/ PubSubCommand(c, cmd) /\ UNCHANGED maps

-----------------------------------------------------------------------------
(* Transactions *)

\* What get() and llen() return for a key, their clean-up apart.
GetResult(k) == IF k \in DOMAIN store /\ k \in Live THEN store[k] ELSE Nil
LlenResult(k) == IF k \in DOMAIN store /\ k \in Live THEN -1 ELSE Len(ListAt(k))

\* An absent key is recorded like a list of length 0: llen() is never negative
\* for a key that get() does not find, so the branch for "did not exist" is dead.
WatchedKeySnapshot(k) ==
    [key |-> k, string_value |-> GetResult(k), list_size |-> LlenResult(k)]

Changed(snap) ==
    IF snap.string_value # Nil THEN GetResult(snap.key) # snap.string_value
                               ELSE LlenResult(snap.key) # snap.list_size

watched_keys_modified(c) == \E snap \in watch_snapshots[c] : Changed(snap)

\* The keys that looking at the watched keys may find expired and remove.
ExpiredWatched(c) == {k \in Key : \E s \in watch_snapshots[c] :
                                     s.key = k /\ is_expired_unlocked(k)}

\* What a client can see of a key; for the history variable only.
Seen(k) == IF k \in Live THEN [type |-> LiveView[k].type, val |-> LiveView[k].val] ELSE Nil

Refuse(op) == Returns("error", op) /\ UNCHANGED <<maps, subscriptions, tx>>

handle_multi(c) ==
    IF in_multi[c] THEN Refuse("multi")
    ELSE /\ in_multi' = [in_multi EXCEPT ![c] = TRUE]
         /\ tx_queue' = [tx_queue EXCEPT ![c] = <<>>]
         /\ Returns("multi", "OK")
         /\ UNCHANGED <<maps, subscriptions, watch_snapshots, running, watching>>

\* DISCARD keeps the watches.
handle_discard(c) ==
    IF ~in_multi[c] THEN Refuse("discard")
    ELSE /\ in_multi' = [in_multi EXCEPT ![c] = FALSE]
         /\ tx_queue' = [tx_queue EXCEPT ![c] = <<>>]
         /\ Returns("discard", "OK")
         /\ UNCHANGED <<maps, subscriptions, watch_snapshots, running, watching>>

handle_watch(c, cmd) ==
    LET ks == Range(cmd.keys)
    IN  IF in_multi[c] THEN Refuse("watch")
        ELSE /\ watch_snapshots' = [watch_snapshots EXCEPT
                    ![c] = @ \cup {WatchedKeySnapshot(k) : k \in ks}]
             /\ watching' = [watching EXCEPT ![c] = @ \cup {[key |-> k, seen |-> Seen(k)] : k \in ks}]
             /\ remove_expired_unlocked({k \in ks : is_expired_unlocked(k)})
             /\ Returns("watch", "OK")
             /\ UNCHANGED <<subscriptions, in_multi, tx_queue, running>>

\* Faulty form: the watches stay.
ClearTransaction_keeping_watches(c) ==
    /\ in_multi' = [in_multi EXCEPT ![c] = FALSE]
    /\ tx_queue' = [tx_queue EXCEPT ![c] = <<>>]
    /\ UNCHANGED watch_snapshots

\* The end of a transaction, run or aborted, ends its watches.
ClearTransaction(c) ==
    /\ in_multi' = [in_multi EXCEPT ![c] = FALSE]
    /\ tx_queue' = [tx_queue EXCEPT ![c] = <<>>]
    /\ watch_snapshots' = [watch_snapshots EXCEPT ![c] = {}]

\* EXEC up to its first queued command.  The check stops at the first key that
\* changed, so an abort may leave later expired keys in place.
handle_exec(c) ==
    IF ~in_multi[c] THEN Refuse("exec")
    ELSE /\ IF watched_keys_modified(c)
            THEN /\ \E S \in SUBSET ExpiredWatched(c) : remove_expired_unlocked(S)
                 /\ ClearTransaction(c)
                 /\ watching' = [watching EXCEPT ![c] = {}]
                 /\ Returns("exec", Nil)
                 /\ UNCHANGED running
            ELSE /\ remove_expired_unlocked(ExpiredWatched(c))
                 /\ running' = [client |-> c, left |-> tx_queue[c], results |-> <<>>]
                 /\ Returns("exec", "started")
                 /\ UNCHANGED <<in_multi, tx_queue, watch_snapshots, watching>>
         /\ UNCHANGED subscriptions

\* One queued command of the running EXEC.
ExecCommand ==
    /\ running # Idle /\ running.left # <<>>
    /\ execute_single(running.client, Head(running.left))
    /\ running' = [running EXCEPT !.left = Tail(@), !.results = Append(@, reply')]
    /\ UNCHANGED <<in_multi, tx_queue, watch_snapshots, watching>>

ExecEnd ==
    /\ running # Idle /\ running.left = <<>>
    /\ ClearTransaction(running.client)
    /\ watching' = [watching EXCEPT ![running.client] = {}]
    /\ running' = Idle
    /\ Returns("exec", running.results)
    /\ UNCHANGED <<maps, subscriptions>>

-----------------------------------------------------------------------------
(* execute(): subscription mode first, then transactions, then the queue *)

Queue(c, cmd) ==
    /\ Len(tx_queue[c]) < MaxQueue
    /\ tx_queue' = [tx_queue EXCEPT ![c] = Append(@, cmd)]
    /\ Returns("queued", cmd.name)
    /\ UNCHANGED <<maps, subscriptions, in_multi, watch_snapshots, running, watching>>

\* Faulty form: SUBSCRIBE is not queued.
execute_subscribing_at_once(c, cmd) ==
    IF in_subscription_mode(c) /\ cmd.name \notin SubscriberCommands
    THEN Refuse("execute")
    ELSE \/ cmd.name = "MULTI" /\ handle_multi(c)
         \/ cmd.name = "EXEC" /\ handle_exec(c)
         \/ cmd.name = "DISCARD" /\ handle_discard(c)
         \/ cmd.name = "WATCH" /\ handle_watch(c, cmd)
         \/ cmd.name \notin TxCommands \cup {"SUBSCRIBE"} /\ in_multi[c] /\ Queue(c, cmd)
         \/ /\ cmd.name = "SUBSCRIBE" \/ (cmd.name \notin TxCommands /\ ~in_multi[c])
            /\ execute_single(c, cmd)
            /\ UNCHANGED tx

execute(c, cmd) ==
    IF in_subscription_mode(c) /\ cmd.name \notin SubscriberCommands
    THEN Refuse("execute")
    ELSE \/ cmd.name = "MULTI" /\ handle_multi(c)
         \/ cmd.name = "EXEC" /\ handle_exec(c)
         \/ cmd.name = "DISCARD" /\ handle_discard(c)
         \/ cmd.name = "WATCH" /\ handle_watch(c, cmd)
         \/ cmd.name \notin TxCommands /\ in_multi[c] /\ Queue(c, cmd)
         \/ cmd.name \notin TxCommands /\ ~in_multi[c] /\ execute_single(c, cmd) /\ UNCHANGED tx

\* Faulty form: commands are taken while an EXEC runs.
ExecuteNext_at_once == \E c \in Client : \E cmd \in Commands[c] : execute(c, cmd)

\* A handler is given its next command once an EXEC is through.
ExecuteNext == running = Idle /\ \E c \in Client : \E cmd \in Commands[c] : execute(c, cmd)

Scan ==
    /\ \E sample \in SUBSET DOMAIN expiry : expiry_scan(sample)
    /\ UNCHANGED <<subscriptions, tx>>

HTick == Tick /\ UNCHANGED <<subscriptions, tx>>

\* The sockets stay ready here; Server has the peers that change them.
HNext == ExecuteNext \/ ExecCommand \/ ExecEnd \/ Scan \/ HTick

HSpec == HInit /\ [][HNext]_hvars

-----------------------------------------------------------------------------
(* Properties *)

\* A client in the middle of a transaction is never in subscription mode while
\* the event loop waits for its next command: EXEC and DISCARD are refused
\* there, so the transaction could never be ended.
NoStuckTransaction ==
    \A c \in Client : in_multi[c] /\ in_subscription_mode(c) =>
        running # Idle /\ running.client = c

\* The comparison a watch promises: the same type, the same string, or a list
\* of the same length (command_handler.h:66-67), or still no key.
Unchanged(w) ==
    LET now == Seen(w.key)
    IN  \/ w.seen = Nil /\ now = Nil
        \/ /\ w.seen # Nil /\ now # Nil /\ w.seen.type = now.type
           /\ IF now.type = "string" THEN w.seen.val = now.val
                                     ELSE Len(w.seen.val) = Len(now.val)

\* The event loop decides to run or to abort a queue by its client's watches.
WatchesDecide ==
    running = Idle =>
        /\ running' # Idle => \A w \in watching[running'.client] : Unchanged(w)
        /\ \A c \in Client :
              in_multi[c] /\ ~in_multi'[c] /\ reply' = <<"exec", Nil>> =>
                  \E w \in watching[c] : ~Unchanged(w)

\* EXEC runs its queue only if every key watched since the client's last EXEC
\* has the type and the string value or list length it had when watched, whoever
\* changed or expired it, and it aborts only if one of them did change.
ExecIffUnchanged == [][WatchesDecide]_hvars

\* A step between two commands of an EXEC lets at most time pass.
OnlyTimePasses ==
    running # Idle /\ running' = running =>
        /\ \A k \in Key :
              \/ Seen(k)' = Seen(k)
              \/ Seen(k)' = Nil /\ k \in DOMAIN expiry /\ expiry[k] <= 1
        /\ UNCHANGED <<subscriptions, in_multi, tx_queue, watch_snapshots>>

\* From the check of its watches to its end an EXEC has the data to itself: no
\* other client's command comes between its commands, although time and the
\* expiry thread do, so a key vanishes there only because its deadline has
\* passed (command_handler.cpp:400-406).
ExecIsIsolated == [][OnlyTimePasses]_hvars

IsError(answer) ==
    \/ answer[1] = "error"
    \/ answer[1] \in {"lpush", "rpush", "llen"} /\ answer[2] = -1

\* The error replies but one leave what clients see as it is.
ErrorIsHarmless ==
    /\ IsError(reply') /\ reply' # <<"error", "set">>
    /\ IsError(reply) => reply' # reply
    => LiveView' = LiveView /\ UNCHANGED subscriptions

\* A command that is answered with an error, alone or in an EXEC, changes
\* nothing that a client can see, with one exception: SET with a bad expire
\* time has stored its value before it looks at the time
\* (command_handler.cpp:84-112, 170-183, 216-240).
ErrorsChangeNothing == [][ErrorIsHarmless]_hvars

\* A command for values of one type on a live key of the other.
Mismatch(cmd) ==
    \/ cmd.name = "GET" /\ cmd.key \in Live \cap DOMAIN list_store
    \/ /\ cmd.name \in {"LPUSH", "RPUSH", "LPOP", "RPOP", "LRANGE", "LLEN", "LINDEX"}
       /\ cmd.key \in Live \cap DOMAIN store

WrongTypeIsError ==
    \A c \in Client : \A cmd \in Commands[c] :
        Mismatch(cmd) /\ execute_single(c, cmd) => IsError(reply')

\* "Operations that are incompatible with the existing value type return a
\* WRONGTYPE error" (README.md:314).  Only LPUSH, RPUSH and LLEN do: the other
\* handlers answer nil or an empty list (command_handler.cpp:216-325).
WrongTypeIsAnswered == [][WrongTypeIsError]_hvars

=============================================================================
