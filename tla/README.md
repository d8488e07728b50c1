# TLA+ models of MyRedis

MyRedis is a small Redis-like server in C++: one event loop serves all clients
over `select()`, one background thread removes expired keys, `SAVE` writes a
snapshot file that the next start loads, and a command-line client talks to it
in RESP. This directory holds TLA+ models of its parts, TLC configurations that
check them on small instances, and TLAPS proofs for every size of instance.
Paths in `PROJECT.json` have one more `src/` in front:
`src/src/database/database.cpp` is the repository's `src/database/database.cpp`.

## The system and its parts

| Part | Code | State | Model |
|---|---|---|---|
| Store | `database/database.cpp` | `store_`, `list_store_`, `expiry_` under one mutex | `Database`; abstract: `Keyspace` |
| Expiry thread | same file | `expiry_running_`, condition variable, iteration order of `expiry_` | `ExpiryThread` |
| Pub/sub | `pubsub/pubsub.cpp` | `channels_`, `client_channels_` | `PubSub`; abstract: `Subscriptions` |
| Persistence | `persistence/persistence.cpp`, `server/main.cpp` | `dump.mrdb`, `dump.mrdb.tmp` | `Persistence` over `Database`; `Restart` |
| Command handler | `commands/command_handler.cpp` | `in_multi_`, `tx_queue_`, `watch_snapshots_` | `CommandHandler` over `Database` and `PubSub` |
| Event loop | `networking/server.cpp`, `server/main.cpp` | `clients_`, `listen_fd_`, `running_`, the sets of `select()` | `Server` over `CommandHandler` and `Config` |
| Configuration | `config/config.cpp` | a map | `Config` |
| RESP, command parser, old protocol | `resp/`, `parser/`, `protocol/` | read buffers | `Resp`, `Parser`, `Protocol`, run by `Stream` |
| Reply parser of the client | `networking/client.cpp` | reply buffer | `Client`, run by `Stream` |
| Client program | `client/main.cpp` | none of its own | not modelled |
| Platform layer | `platform.h` | none | not modelled |

The event loop parses a command and hands it to a `CommandHandler`, which calls
the store and the pub/sub manager; `PUBLISH` writes to other clients' sockets;
`SAVE` runs on the event loop's thread. Only the expiry thread, the clock and a
signal handler run beside it.

What is hard: expired keys are removed lazily, actively, or not yet, and nobody
should notice which; deadlines must not outlive their keys; the two
subscription indexes must agree through failing sends and reused socket
numbers; a connection that ends must leave nothing behind for the next owner of
its number; `save()` can fail or die at each step; `WATCH` compares what it
remembers with what it finds; `stop()` comes from a signal in any window of the
loop; a stream may be cut anywhere. `PROJECT.json` lists these hazards with the
line where each bites.

## Modules

**`Database`** has one variable per map and one action per public operation;
each holds the mutex from begin to end, so it is one step. The lazy expiry of an
operation is part of its action. The code stores absolute deadlines and only
compares them with the clock or subtracts the clock from them, so `expiry[k]` is
the number of ticks left and `Tick` counts down; 0 means the deadline has
passed. This needs no bound on time. An operation that reads the clock more than
once takes time: `lag` is how long, between the two readings of `TTL` or over the
readings that `EXISTS`, `KEYS` and `DBSIZE` make key by key. So `EXISTS k k` can
answer 1. `reply` records the last operation and its result.
Replies are values, not text: -1 from a push or `LLEN` is the code's WRONGTYPE.

**`Keyspace`** is the store as clients see it: `live`, one map from which a key
vanishes at its deadline, and `stale`, the names of the expired keys that nothing
has removed yet, which only `DEL` (it counts them) can show. A call that takes time
decides for each key at a moment of its own within the call whether it lives.
**`KeyspaceRefinement`** states that `Database` implements it with
`live <- LiveView`, the keys whose deadline has not passed, and
`stale <- Present \ Live`. A command for one type on a key of the other is answered
as the code answers it, mostly like one on a key that is absent; what the
documentation promises for it is a property of its own, `WrongTypeIsAnswered`.

**`ExpiryThread`** has the thread's program counter through `wait_for`, the flag
and the notification of `stop_expiry_thread`, and the hash map's iteration
order, which `Database` leaves out: a new entry lands anywhere, a table that must
grow may be reordered, erasing and renewing move nothing.

**`PubSub`** keeps both indexes and, as environment, what a send to each
client's socket would meet: room, a full buffer (`EAGAIN`), or a closed peer.
`client_disconnected` frees the socket number for a new connection.
**`Subscriptions`** is the relation between clients and channels they implement,
and **`SubscriptionsRefinement`** the mapping.

**`Persistence`** extends `Database` with the files and one action for each
thing `save()` does to the disk: copy under the lock, open and count, write each
entry, flush, reopen, append the checksum, remove the old dump, rename. Between
them time passes, the scan runs, a step fails, or the process dies. A file is its
count, its set of entries and whether its last four bytes are the CRC32 of the
rest; the CRC32 is taken to detect every damage. `load` happens at start. Clients'
reads are left out here: what they remove, the background scan removes as well.
History variables keep what clients could see when `save()` read the clock.
**`Restart`** adds how much of the saved TTLs is left as time passes, also while the
server is down.

**`CommandHandler`** extends `Database` and instantiates `PubSub`: dispatch by
name, subscription mode, and transactions. `EXEC` is the check, one step for each
queued command, and the end; other clients wait, time and the scan do not.
Here every client has one handler object that takes all its commands, as in the
repository's tests; how the server uses handlers is in `Server`. The variable
`watching` is history: what a client could see of the keys it watches at the time it
watched them.

**`Server`** extends `CommandHandler` with the loop of `start()` as a program
counter: the flag test, `FD_SET`, `select()`, `accept`, one client after the
other through `read`, `parse` and `reply`, the deferred disconnects, the return
and the destructor. A command runs in one step through `execute` of a handler that is gone with
the answer (`server.cpp:283`), so here an `EXEC` never has a queue to run.
`stop()` is two steps, the flag and the close of `listen_fd_`, and may
come in any state, in the loop's thread or another. `FD_SET` of an invalid
descriptor is undefined: the model lets the process abort or go on with a bit
that stands for no socket. Bytes are counted; a request is two bytes, so that it
can arrive in pieces. The clock and the expiry thread, which touch only the
maps, are left to `CommandHandler`. **`Config`** has the files in
order, later settings over earlier ones, files that cannot be opened skipped.

**`Parser`, `Resp`, `Client`, `Protocol`** are the code's parsers and printers as
operators over sequences of characters: the tokeniser, RESP arrays and inline
commands, the reply texts and their serialisation, the client's reply parser,
the length-prefixed messages no caller uses any more. The set of characters is the
constant `Alphabet`, of which only those are fixed that the code names. A loop of
the code is a function of the number of rounds, one round an operator of its own
(`QuotedSymbol`, `NextToken`, `BulkString`, `Element`); the three functions that
call themselves are recursive functions over texts, each the use of an operator
that has the function as a parameter (`ReadValue`, `Serialized`). **`Stream`**
runs them: a writer puts frames on a connection, the network delivers its bytes in
reads of up to `MaxRead` (4096 in the code), and the reader parses as the code
does, buffer and all. A round of a reader waits, takes items from the front of the
buffer, or gives the connection up; `Reader` is the loop. A frame carries what a
reader should make of it, so the properties compare the code's parser with the
writer's intention and not with another parser.

**`Lists`** has operators on sequences under the names they have in the community
module `SequencesExt`, which extends `Bags`: the proofs would have to carry its
definitions along, and take several times as long.

The `MC*` modules hold the small instances. Definitions named "faulty form" are
plausible mistakes (a dropped guard, a missing reset); no specification uses
them. Each is put in place of the definition it follows to see that the property
it belongs to fails.

## Runs

| Run | Checks |
|---|---|
| `database` | map consistency, no inherited deadline, refinement of `Keyspace` |
| `expiry_thread` | stop always ends with the join; an expired key stays for ever only behind entries that clients keep alive |
| `pubsub` | the indexes agree, a disconnect leaves nothing, refinement of `Subscriptions` |
| `persistence` | with every fault, a load gives the keyspace of one instant of one save, or nothing; the old dump goes only when the new file has every key |
| `handler` | EXEC runs exactly if what was watched is unchanged and has the data to itself; an error leaves no trace; nobody is stuck in a transaction |
| `server` | nothing runs before AUTH; only open connections are subscribed; a reused number inherits nothing |
| `server_liveness` | once the loop runs, a stop ends the process; everyone is read and accepted in the end |
| `streams` | commands, replies and messages arrive as sent, however they are cut |
| `wrong_type`, `expiry_starvation`, `load_elapsed`, `network_transactions` | a sentence of the docs or comments that the code does not keep |

The last four are expected to fail:

- `wrong_type`: `LPOP` on a string answers nil. README.md:314 promises a
  `WRONGTYPE` error for every operation that does not fit the type
  (also `docs/design_decisions.md:117`, `database.h:13`); only `LPUSH`, `RPUSH` and
  `LLEN` answer it.
- `expiry_starvation`: each scan starts at the front of the hash map, so with more
  than `MAX_SAMPLE` deadlines, and clients that keep renewing those in front, an
  expired key is never met. README.md:458 promises that keys nobody accesses are
  removed, and `database.cpp:473` calls the sampling randomised.
  `OnlyLiveEntriesStarve` is what does hold.
- `load_elapsed`: a key whose TTL ran out while the server was down comes back.
  `persistence.cpp:399` says such keys are skipped, and compares with 0 the TTL
  left at the save.
- `network_transactions`: the handler that executed `MULTI` is gone when the
  connection's next command is parsed, so over the network a transaction queues
  nothing (README.md:504 says transactions are supported).

**Where the models show more than the documentation says.** These behaviours are
in the models, and the passing properties are worded around them:

- `DEL` counts keys that expired and were not purged yet (`ImplementsKeyspace`).
- A subscriber whose socket buffer is full leaves the channel although it is
  connected (`ImplementsSubscriptions`).
- The write of the checksum is not verified, so `save()` can report success for a
  file that `load()` refuses (`LoadRestoresSaved`).
- `save()` removes `dump.mrdb` before it renames the temporary file, which the
  comment at `persistence.cpp:287` calls an atomic rename. A crash in between
  leaves no dump, only a complete temporary file that `load()` does not look at.
  `OldDumpGoesLast` says that this is the only gap, and `DumpLostOnlyAtRename`
  which faults lose a dump.
- `WATCH` remembers the length of a list only; a replaced element passes
  (`ExecIffUnchanged`). Time goes on between the commands of an `EXEC`, so two
  `GET`s of one key can disagree (`ExecIsIsolated`).
- `SET` with a bad expire time answers with an error after storing the value
  (`ErrorsChangeNothing` names it as the exception).
- A signal between `main.cpp:91` and `server.cpp:94` is undone by
  `running_ = true`: the server goes on without a listening socket. `StopEnds`
  is about a stop after that point.
- When `stop()` has made `listen_fd_` -1 under the loop's feet, `FD_SET` of it is
  undefined. `StopEnds` holds whatever that does, but an abort is among the ends it
  counts, which is not the graceful shutdown that `main.cpp:91` speaks of.
- A configuration file that cannot be opened is reported and skipped, and the
  server runs without the password it may have held; `NothingBeforeAuth` is about
  the files that could be read.
- `serialize_response` finds the RESP type of a reply in its text, which
  `docs/design_decisions.md:166` calls brittle. Values stand in quotes and cannot be
  mistaken. `PING` answers its argument raw: an argument that reads like a status,
  an error, a number or a quoted value is shown as that, an empty one as nil, and
  one that reads like a numbered list or a subscription as an array. An error that
  echoes a name with CR LF inside (`command_handler.cpp:26`, 79, 527) is shown as two
  replies; a list element with a newline as two elements; a list inside `EXEC`'s
  answer joins the outer one; a channel with a space is cut at the space. The run has
  each of these (`Misread`, `SplitError`) with the reply the client really shows, and
  `RepliesArriveIntact` says that the replies after it are still right.
- `SUBSCRIBE` and `UNSUBSCRIBE` of several channels answer one value per channel,
  and messages come unasked, while `send_command` reads one value per command: the
  client program then shows replies late.
- `parse_inline` prefers a CR LF anywhere in the buffer to an earlier bare newline
  (`resp.cpp:144`): a line ended by a newline alone is joined with a later one that
  ends in CR LF when both arrive in one read. `CommandsArriveIntact` is checked for
  streams that end all their lines in one way.

**Bounds.** Two keys and two values are enough for a key to meet another's
deadline or type; lists up to length 2 with indices -3 to 1 reach below, inside
and above every list; in `database` a second is two ticks so that a TTL is seen
at its start, between two seconds and at its end. `MAX_SAMPLE` is 1 or 2
instead of 20 because only its relation to the number of deadlines matters; in
`expiry_thread` it is one less than there are keys.
`MaxLag` lets a deadline pass inside an operation that reads the clock more than
once; the proof of the refinement is for
every lag, in the code's own terms (time left at the second reading of the clock,
truncated, and negative after a pause of a second or more). Three socket
numbers and two channels, with argument vectors that repeat a channel, let
failures hit some of a channel's subscribers. In `persistence` a millisecond is
two ticks, so one tick left is written as 0. In `handler` one client sends
every command on one key, with up to `MaxQueue` = 2 in a transaction, while the
other one changes that key. `server` has two connections, so that one can be
dropped and its number reused while the other is served, and reads of 1 to
`MaxRead` = 3 bytes, so that a read brings a part, one, or more than one
request. `streams` sends up to two frames (three for a `SUBSCRIBE` of two
channels and what follows) from sets with quotes, escapes, CR, LF, empty words,
malformed headers and an unfinished line above the limit, cut at every byte; the
limits on inline commands and read buffers are lowered to 20 and 200 bytes, and a
read takes as many bytes as there are. The only
symmetry is over keys in `persistence`, which every definition there treats
alike; no liveness property uses one. No run switches the deadlock check off: where a
program may end, the model has a step for having ended.

**Fairness.** In `ExpiryThread` both threads keep running (weak fairness of the
loop's steps, of notify and join) and time passes. `wait_for` fixes its end when
it is called, so spurious wakeups cannot put it off for ever: strong fairness of
`Timeout`. In `Server` the loop's thread keeps running, since every `select()`
ends after 100 ms, and a signal handler that has begun ends. Clients, peers, users and signals
owe nothing.

## Proofs

All theorems are for any sets of keys, values, clients, channels, commands,
configuration files, any texts and streams of frames, any clock
rate and any queue bound. The
assumptions are the named `ASSUME`s of the modules: arguments are of their
types, batches and channel lists are not empty (the command handler refuses
empty ones), TTLs are positive, the listening socket is none of the clients,
configuration files are sequences of key and value texts, the alphabet has the
characters that the code names, one read fits the server's read buffer (4096 bytes
against 64 MB), and the values that
stand for "nothing" (`Nil`, `NoFile`) are none of the things they are the
absence of.

| Module | Theorem | Says |
|---|---|---|
| `DatabaseProofs` | `MapsConsistent`, `DeadlinesHaveKeys`, `ListsHaveElements` | the invariants of the `database` run |
| | `NoInheritedDeadline` | a key that comes to life has no deadline |
| `StorageProofs` | `StoreImplementsKeyspace` | `Database` refines `Keyspace` |
| | `FilesAndMapsTyped`, `MapsConsistentAcrossRestarts` | files are well formed and the maps stay consistent through crashes and loads |
| | `LoadGivesLastSave`, `OldDumpKeptUntilNewIsWhole` | the action properties of the `persistence` run |
| | `DumpLostOnlyAtRename` | the faults that lose a saved dump, and that there are no others |
| `CommandHandlerProofs` | `HandlersConsistent`, `TransactionsCanEnd`, `HandlersTyped` | the invariants of the `handler` run |
| | `WatchesDecideExec`, `ExecRunsAlone`, `ErrorsAreHarmless` | its action properties |
| `ServerProofs` | `ConnectionsConsistent`, `SubscribersStayOpen`, `NumbersComeClean` | connections and what is kept under their numbers |
| | `PasswordIsConfigured`, `NoCommandBeforeAuth` | the password is the one the files ask for, and nothing runs before it is sent |
| `PubSubProofs` | `IndexesAlwaysAgree`, `DisconnectLeavesNothing`, `WellTyped` | the invariants of the `pubsub` run |
| | `IndexesImplementRelation` | `PubSub` refines `Subscriptions` |
| `StreamProofs` | `FramesReadBack` | what `read_message` makes of any cut of an encoded message |
| | `MessagesIntact` | messages arrive as sent, however they are cut |
| `CommandProofs` | `CommandsIntact` | commands arrive as sent, however they are cut |
| `ReplyProofs` | `RepliesIntact` | the replies of `ReplyFrame` are shown as answered, however they are cut |

**The store.** The conjunction of type correctness, `OneTypePerKey`,
`NoOrphanDeadline` and `NoEmptyList` is inductive as it stands. There is a lemma
per kind of step (`RemoveInv`, for everything that erases, `SetInv`, `PushInv`,
`PopInv`, `DeadlineInv`), grouped as the actions are. `NoInheritedDeadline`
follows from the same invariant; a push needs `NoOrphanDeadline`, or a deadline
without a key would become the new key's.

**The refinement of the keyspace.** Lemmas of `DatabaseProofs` say what clients see of
each kind of step: nothing of a removal of expired keys (`RemoveUnseen`,
`LazyUnseen`), the one key of the operation otherwise (`SetSeen`, `PushSeen`,
`PopSeen`, ...), and of a tick that each key's time goes down and those at their
end vanish (`ElapseSeen`). `FadeRefines` and `LateRefines` do the same for operations
during which time passes. `StorageProofs` puts the answers beside them,
one lemma per operation. The invariant is needed wherever a map is looked at
without the others: a pop that finds an empty list must not meet a deadline, and
the type shown of a key must not depend on which map is looked at first.

**The subscriptions.** Every action removes from, or adds to, both indexes the
same product of clients and channels; `EraseAgrees` and `InsertAgrees` say that
this keeps agreement and leaves no empty entry, and each action is an instance.
`DisconnectLeavesNothing` needs agreement, since the clean-up looks at the reverse
index only. The refinement also needs the sets to be finite, for the counts in
the answers. `total_subscription_count` sums over one index what the abstract
specification counts as pairs: `SumCountsPairs` shows them equal.

**The files.** `PInv` says of the temporary file, at each step of `save()`, that
what it has and what is still unwritten are together the dump of one keyspace,
the one in the history variable, with a header that counts all of it. A file that
a crash cuts short then has fewer entries than its header says, or is not sealed,
and `load` refuses it; a sealed one has them all, and `LoadGives` computes what
`load` makes of it. `OldDumpKeptUntilNewIsWhole` reads off the
same invariant that at the remove nothing is unwritten. `DumpLostOnlyAtRename`
excludes the three ways in which a saved dump is lost and shows that there is no
fourth.

**The transactions.** The inductive invariant `HInv` adds three conjuncts to
that of the store. `WatchesOK`: the snapshots of a client are those of what it
saw when it watched. `RunningOK`: an `EXEC` that runs belongs to a client in a
transaction, and what is left of it is a sequence of that client's commands; without
it the end of an `EXEC` could end another client's transaction.
`NoStuckTransaction` is then inductive, because a command subscribes nobody but
its sender (`OthersNotSubscribed`) and the sender is either in no transaction or
in the `EXEC` that runs. `ChangedIff` is the heart of `WatchesDecideExec`: the
code's comparison, with its list size that also stands for "absent" and "a
string", decides exactly whether the key has the type and the string value or
list length it had.

**The server.** `SInv` says that subscribed, logged-in and listed connections are
open ones, that the indexes are linked from channel to client, and that the
listening socket is out of the set before the clients are looked at. It is
inductive because disconnects are deferred to a point where the loop holds no
other list. `NothingBeforeAuth` speaks of the last `requirepass` line of the
files, the code of a map that is overwritten line by line and file by file:
`LastCounts` says for both levels that the last setting is the one that stays,
and `StartupOK` carries the result from `main` through the loop, where
`GateHolds` takes over.

**The streams.** The three theorems share one argument. A frame is clear to its
reader (`Clear`) if, whatever follows it, the reader waits on every part of it and
takes from the whole of it exactly its bytes and what it is to give. If all
frames of a stream are clear, the invariant `StreamInv` holds: the reader has
taken what the first m frames give, its buffer is the arrived part of the rest,
and that part ends before frame m + 1 does. It is kept because the loop is exactly
long enough for the frames that a read completes (`RoundTakes`, `LoopTakes`), and it
is as strong as the property (`InTurnIntact`). `Near` bounds what can be in the
buffer behind a frame by one read, so that the limit on the buffer is never what
ends a connection.

What remains is to show each kind of frame clear:

- `MessageFrame`: any payload up to the limit, any length above it. `NetworkOrder`
  says that `ntohl` undoes `htonl` on every 32-bit number, and `FramesReadBack`
  follows.
- `CommandFrame`: arrays of any words; lines of any words in double quotes, and
  blank lines, of which the part before the newline is within the inline limit;
  arrays whose count is not a positive number. Each word may hold any characters,
  line ends and quotes included. `DecimalText` and `NumberRead` say that what
  `to_string` writes `stoi` reads back, `HeadRead` and `BulkRead` that no
  CR LF inside a word is taken for the end of a header, `DoubleQuotedRead` and
  `TokenizeRead` that the tokeniser undoes the quoting.
- `ReplyFrame`: the statuses, errors on one line, numbers of 64 bits, quoted values of
  any content, texts of no other form, lists of values without newlines, pushed
  messages; the empty text, shown as nil, and an error with CR LF in the name it
  echoes, shown as two replies (`SplitIs`, `LooseShows`). Outside are the replies that
  are cut where the handler did not mean it: `PING` of a text that reads like a
  numbered list or a subscription, list elements with newlines, lists inside
  `EXEC`'s answer, subscriptions. `ResponseBy` says which form `serialize_response`
  finds, the lemmas named `...Shows` what the client makes of it, and
  `ListLinesFound` that the lines of a numbered list are found again whatever marks
  the values have inside.

Words, values and lists have lengths that fit an `int`, because `stoi` reads them.

**Induction and recursion.** The library's induction theorems take an operator as a
parameter, which the installed provers cannot instantiate. Where a proof needs
induction (the lines of a file, the words of a command, the sum over an index) it
states what is to be shown as a set of numbers or of finite sets and takes a minimal
counterexample (`WFMin` with the well-foundedness of `<` or of the strict subsets
of a finite set), or shows the set to be that of all numbers (`NatInductionSet`).
That the functions defined by recursion are what their definitions say is proved
the same way, once for all of them: `Turn` and `Body` list the bodies by name,
`RunsExist` has the functions of the number of rounds, and `RecursionExists` those
over numbers and texts, given that each calls itself with smaller arguments
(`DecimalRecursive`, `LinesRecursive`, `ResponseRecursive`, `ValueRecursive`).

**Only model-checked:** liveness (`StopEndsWithJoin`, `OnlyLiveEntriesStarve`,
`StopEnds`, `EveryoneServed`), which is outside what TLAPS
proves. Of the streams, the frames of the run that `CommandFrame` and `ReplyFrame`
do not have: words without quotes or in single quotes, a quote that is never
closed, null elements of an array, malformed elements, an unfinished line above
the limit, lines ended by a bare newline, the answers to `EXEC` and to `SUBSCRIBE`,
and the replies of `Misread`.

## Not modelled

- `platform.h`: wrappers of system calls without state; what the calls may answer
  is modelled where they are made.
- Text without meaning for the protocol: logging, prompts, the wording of errors,
  the layout of the dump file and the CRC32 polynomial. In `CommandHandler` the
  wrong-number-of-arguments and unknown-command replies are one command without
  effect on the
  data, and `INFO` is the `DBSIZE` it contains.
- `port`, `bind_addr` and `save_interval` of the configuration: they turn a text
  into a number or address that no modelled part looks at. Likewise the command-line
  arguments for host and port.
- A publish that writes a part of a message before the buffer is full: sends to
  several sockets are in `PubSub`, the bytes of one connection in `Stream`, their
  combination in neither.
- The client program's prompt loop (`client/main.cpp`) and the errors of `connect` and
  `send_command`: it sends a line and shows one value.
- The fate of a complete line just above the inline limit: the limit is modelled,
  but it is tried on what has arrived, so whether such a line is refused depends on
  the network, and no property speaks about it.
