------------------------------- MODULE Server -------------------------------
(***************************************************************************)
(* The networking server (src/networking/server.cpp) under main            *)
(* (src/server/main.cpp): the select() loop, its connections, the AUTH     *)
(* gate, the command handler built for every command, and stop(), which a  *)
(* signal handler calls at any moment, in this or in the expiry thread.    *)
(*                                                                         *)
(* A connection's bytes are counted, not listed: a request is two bytes,   *)
(* so that one may arrive in pieces, how many a peer has sent is chosen    *)
(* when they are read, and which request they make when they are parsed    *)
(* (Resp and Stream have the parsing).                                     *)
(***************************************************************************)
EXTENDS CommandHandler, Config

CONSTANTS
    ConfigFiles,    \* the values of main's --config arguments, each a sequence of files
    Listen,         \* the listening socket
    MaxRead         \* bytes one read() takes at most (4096 in the code)

ASSUME ServerAssumption ==
    /\ MaxRead \in Nat \ {0} /\ Listen \notin Client
    /\ ConfigFiles \subseteq Seq(Seq([key : STRING, value : STRING]))

RequestSize == 2

VARIABLES
    files,          \* the configuration files main was given
    password_,      \* what set_password stored
    pc,             \* where the thread that runs start() is
    cur,            \* the connection in process_client
    running_, listen_fd_,
    clients_,       \* open connections: read_buffer (bytes held), authenticated
    ready,          \* the sockets of read_fds still to be looked at
    to_disconnect,
    stopping,       \* how far stop() is, once a signal has come
    backlog,        \* a connection waits to be accepted
    pending,        \* the connections with bytes sent and not read yet
    proved          \* history: the connections that sent the password

loop == <<pc, cur, ready, to_disconnect>>
flags == <<running_, listen_fd_, stopping>>
peers == <<backlog, pending>>
startup == <<files, password_>>
svars == <<hvars, startup, loop, flags, clients_, peers, proved>>

Fresh == [read_buffer |-> 0, authenticated |-> FALSE]

Open == DOMAIN clients_

SInit ==
    /\ HInit
    /\ files \in ConfigFiles /\ password_ = ""
    /\ pc = "main" /\ cur = Nil /\ ready = {} /\ to_disconnect = {}
    /\ running_ = FALSE /\ listen_fd_ = Nil /\ stopping = "no"
    /\ clients_ = <<>>
    /\ backlog = FALSE /\ pending = {}
    /\ proved = {}

-----------------------------------------------------------------------------
(* main and start(), up to the loop *)

Goto(from, to) == pc = from /\ pc' = to

\* main loads the configuration, makes the server and calls start().
Main ==
    /\ Goto("main", "start")
    /\ password_' = Config_password(Loaded(files))
    /\ UNCHANGED <<hvars, files, cur, ready, to_disconnect, flags, clients_, peers, proved>>

\* socket(); then bind() and listen(), which fail on a socket stop() closed.
CreateSocket ==
    /\ \/ Goto("start", "bind") /\ listen_fd_' = Listen
       \/ Goto("start", "returned") /\ UNCHANGED listen_fd_
    /\ UNCHANGED <<hvars, startup, cur, ready, to_disconnect, running_, stopping, clients_,
                   peers, proved>>

BindAndListen ==
    /\ \/ Goto("bind", "armed") /\ listen_fd_ = Listen /\ UNCHANGED listen_fd_
       \/ Goto("bind", "returned") /\ listen_fd_' = Nil
    /\ UNCHANGED <<hvars, startup, cur, ready, to_disconnect, running_, stopping, clients_,
                   peers, proved>>

SetRunning ==
    /\ Goto("armed", "test")
    /\ running_' = TRUE
    /\ UNCHANGED <<hvars, startup, cur, ready, to_disconnect, listen_fd_, stopping, clients_,
                   peers, proved>>

-----------------------------------------------------------------------------
(* The loop *)

LoopOnly == UNCHANGED <<hvars, startup, flags, clients_, peers, proved>>

\* Faulty form: running_ is not looked at.
LoopTest_forever ==
    /\ Goto("test", "fd_set")
    /\ LoopOnly /\ UNCHANGED <<cur, ready, to_disconnect>>

LoopTest ==
    /\ Goto("test", IF running_ THEN "fd_set" ELSE "returned")
    /\ LoopOnly /\ UNCHANGED <<cur, ready, to_disconnect>>

\* FD_SET of an invalid socket is undefined: a build with checks aborts, one
\* without sets a bit that stands for no socket of the server.
FdSet ==
    /\ \/ listen_fd_ = Listen /\ Goto("fd_set", "select")
       \/ listen_fd_ = Nil /\ Goto("fd_set", "aborted")
       \/ listen_fd_ = Nil /\ Goto("fd_set", "select_clients")
    /\ LoopOnly /\ UNCHANGED <<cur, ready, to_disconnect>>

ReadableClients == {c \in Open : c \in pending \/ sock[c] = "closed"}

\* Faulty form: a waiting connection goes before the clients.
Select_listen_first ==
    LET listening == pc = "select" /\ listen_fd_ = Listen /\ backlog
    IN  /\ pc \in {"select", "select_clients"}
        /\ ready' = IF listening THEN {Listen} ELSE ReadableClients
        /\ pc' = IF ready' = {} THEN "test" ELSE "isset"
        /\ LoopOnly /\ UNCHANGED <<cur, to_disconnect>>

\* 100 ms without anything to read are a timeout; a client may be reported
\* although it has nothing to read.
Select ==
    LET listening == pc = "select" /\ listen_fd_ = Listen /\ backlog
    IN  /\ pc \in {"select", "select_clients"}
        /\ \E spurious \in SUBSET Open :
              ready' = ReadableClients \cup spurious \cup (IF listening THEN {Listen} ELSE {})
        /\ pc' = IF ready' = {} THEN "test" ELSE "isset"
        /\ LoopOnly /\ UNCHANGED <<cur, to_disconnect>>

\* The listening socket was closed before the call, or a signal interrupts it.
SelectFails ==
    /\ Goto("select", "returned")
    /\ listen_fd_ = Nil \/ ~running_
    /\ LoopOnly /\ UNCHANGED <<cur, ready, to_disconnect>>

\* FD_ISSET of an invalid socket is undefined in the same way.
IsSet ==
    /\ \/ Goto("isset", IF Listen \in ready THEN "accept" ELSE "clients")
       \/ listen_fd_ = Nil /\ Goto("isset", "clients")
       \/ listen_fd_ = Nil /\ Goto("isset", "aborted")
    /\ ready' = ready \ {Listen}
    /\ LoopOnly /\ UNCHANGED <<cur, to_disconnect>>

\* accept() takes any free number; it fails when stop() closed the socket, when
\* the peer has given up and when no number is free.
accept_client ==
    /\ Goto("accept", "clients")
    /\ \/ /\ listen_fd_ = Listen /\ backlog
          /\ \E c \in Client \ Open : clients_' = Put(clients_, c, Fresh)
          /\ backlog' = FALSE
       \/ /\ listen_fd_ = Nil \/ ~backlog \/ Open = Client
          /\ UNCHANGED <<clients_, backlog>>
    /\ UNCHANGED <<hvars, startup, cur, ready, to_disconnect, flags, pending, proved>>

\* The next client socket that is set; the disconnects come after the last.
NextClient ==
    /\ \/ \E c \in ready : Goto("clients", "read") /\ cur' = c /\ ready' = ready \ {c}
       \/ ready = {} /\ Goto("clients", "drop") /\ cur' = Nil /\ UNCHANGED ready
    /\ LoopOnly /\ UNCHANGED to_disconnect

-----------------------------------------------------------------------------
(* process_client *)

\* The end of process_client, with the connection kept or to be dropped.
Done(keep) ==
    /\ pc' = "clients" /\ cur' = Nil
    /\ to_disconnect' = IF keep THEN to_disconnect ELSE to_disconnect \cup {cur}

Rest == <<startup, flags, backlog>>

\* read() returns some of what is pending; or there is nothing (EAGAIN); or the
\* peer has closed, or reset the connection, and whatever is pending is lost.
ReadSocket ==
    /\ pc = "read"
    /\ \/ /\ cur \in pending
          /\ \E n \in 1 .. MaxRead : clients_' = [clients_ EXCEPT ![cur].read_buffer = @ + n]
          /\ pending' \in {pending, pending \ {cur}}
          /\ pc' = "parse"
          /\ UNCHANGED <<cur, to_disconnect>>
       \/ /\ cur \notin pending /\ sock[cur] # "closed"
          /\ Done(TRUE)
          /\ UNCHANGED <<clients_, pending>>
       \/ /\ sock[cur] = "closed"
          /\ Done(FALSE)
          /\ UNCHANGED <<clients_, pending>>
    /\ UNCHANGED <<hvars, Rest, ready, proved>>

Buffered == clients_[cur].read_buffer

Consume(n) == clients_' = [clients_ EXCEPT ![cur].read_buffer = @ - n]

\* Nothing, or a part of a request, is left.
NeedMore ==
    /\ pc = "parse" /\ Buffered < RequestSize
    /\ Done(TRUE)
    /\ UNCHANGED <<hvars, Rest, clients_, pending, ready, proved>>

BlankLine ==
    /\ pc = "parse" /\ Buffered > 0
    /\ Consume(1)
    /\ UNCHANGED <<hvars, Rest, loop, pending, proved>>

\* A protocol error or QUIT: an answer that may fail, and the end.
LastRequest ==
    /\ pc = "parse" /\ Buffered > 0
    /\ Done(FALSE)
    /\ UNCHANGED <<hvars, Rest, clients_, pending, ready, proved>>

NeedsAuth == password_ # "" /\ ~clients_[cur].authenticated

\* AUTH with the password; with another, without argument, or any other
\* command: refused.
Authenticate ==
    /\ Goto("parse", "reply") /\ Buffered >= RequestSize /\ NeedsAuth
    /\ clients_' = [clients_ EXCEPT ![cur] = [read_buffer |-> @.read_buffer - RequestSize,
                                              authenticated |-> TRUE]]
    /\ proved' = proved \cup {cur}
    /\ Returns("auth", "OK")
    /\ UNCHANGED <<maps, subscriptions, tx, Rest, pending, cur, ready, to_disconnect>>

NoAuth ==
    /\ Goto("parse", "reply") /\ Buffered >= RequestSize /\ NeedsAuth
    /\ Consume(RequestSize)
    /\ Returns("auth", "ERR")
    /\ UNCHANGED <<maps, subscriptions, tx, Rest, pending, cur, ready, to_disconnect, proved>>

\* Faulty form: without the gate.
Execute_ungated ==
    /\ Goto("parse", "reply") /\ Buffered >= RequestSize
    /\ Consume(RequestSize)
    /\ \E cmd \in Commands[cur] : execute(cur, cmd)
    /\ UNCHANGED <<Rest, pending, cur, ready, to_disconnect, proved>>

\* handler.execute(), on a handler just made.
Execute ==
    /\ Goto("parse", "reply") /\ Buffered >= RequestSize /\ ~NeedsAuth
    /\ Consume(RequestSize)
    /\ \E cmd \in Commands[cur] : execute(cur, cmd)
    /\ UNCHANGED <<Rest, pending, cur, ready, to_disconnect, proved>>

\* The handler's members go with the handler.
DestroyHandler(c) ==
    /\ in_multi' = [in_multi EXCEPT ![c] = FALSE]
    /\ tx_queue' = [tx_queue EXCEPT ![c] = <<>>]
    /\ watch_snapshots' = [watch_snapshots EXCEPT ![c] = {}]
    /\ watching' = [watching EXCEPT ![c] = {}]
    /\ running' = Idle

\* The response is sent; the connection ends if that fails.
SendResponse ==
    /\ pc = "reply"
    /\ \/ sock[cur] # "full" /\ pc' = "parse" /\ UNCHANGED <<cur, to_disconnect>>
       \/ sock[cur] # "ready" /\ Done(FALSE)
    /\ DestroyHandler(cur)
    /\ reply' = <<"none">>
    /\ UNCHANGED <<maps, subscriptions, Rest, clients_, pending, ready, proved>>

-----------------------------------------------------------------------------
(* The disconnects, and the end *)

\* The kernel forgets what a closed connection had pending.
Forget(c) ==
    /\ pending' = pending \ {c}
    /\ proved' = proved \ {c}

\* Faulty form: the subscriptions stay.
disconnect_client_subscribed(c) ==
    /\ sock' = [sock EXCEPT ![c] = "ready"]
    /\ clients_' = Erase(clients_, {c})
    /\ Forget(c)
    /\ UNCHANGED <<channels, client_channels, reply>>

disconnect_client(c) ==
    /\ PS!client_disconnected(c)
    /\ clients_' = Erase(clients_, {c})
    /\ Forget(c)

\* Faulty form: the list of disconnects is not emptied.
Drop_uncleared ==
    /\ pc = "drop"
    /\ \/ \E c \in to_disconnect \cap Open : disconnect_client(c) /\ UNCHANGED pc
       \/ /\ to_disconnect \cap Open = {} /\ pc' = "test" /\ reply' = <<"none">>
          /\ UNCHANGED <<subscriptions, clients_, pending, proved>>
    /\ UNCHANGED <<maps, tx, startup, flags, backlog, cur, ready, to_disconnect>>

Drop ==
    /\ pc = "drop"
    /\ \/ \E c \in to_disconnect :
             /\ disconnect_client(c)
             /\ to_disconnect' = to_disconnect \ {c}
             /\ UNCHANGED pc
       \/ /\ to_disconnect = {} /\ pc' = "test" /\ reply' = <<"none">>
          /\ UNCHANGED <<subscriptions, clients_, pending, proved, to_disconnect>>
    /\ UNCHANGED <<maps, tx, startup, flags, backlog, cur, ready>>

\* main after start(): the expiry thread is joined, ~Server() calls stop() and
\* closes the client sockets.
Exit ==
    /\ Goto("returned", "exited")
    /\ stopping # "flag"
    /\ running_' = FALSE /\ listen_fd_' = Nil /\ stopping' = "done"
    /\ clients_' = <<>> /\ channels' = <<>> /\ client_channels' = <<>>
    /\ backlog' = FALSE /\ pending' = {} /\ proved' = {}
    /\ UNCHANGED <<vars, sock, tx, startup, cur, ready, to_disconnect>>

LoopStep ==
    \/ Main \/ CreateSocket \/ BindAndListen \/ SetRunning
    \/ LoopTest \/ FdSet \/ Select \/ SelectFails \/ IsSet \/ accept_client
    \/ NextClient \/ ReadSocket \/ NeedMore \/ BlankLine \/ LastRequest
    \/ Authenticate \/ NoAuth \/ Execute \/ SendResponse \/ Drop \/ Exit

-----------------------------------------------------------------------------
(* The signal handler and the peers.  The clock and the expiry thread touch *)
(* the maps only, at any moment: CommandHandler has them.                   *)

Unaffected == UNCHANGED <<startup, loop, clients_, proved>>

\* A signal: stop() clears running_ first ...
Signal ==
    /\ stopping = "no" /\ pc \notin {"main", "exited", "aborted"}
    /\ stopping' = "flag" /\ running_' = FALSE
    /\ Unaffected /\ UNCHANGED <<hvars, listen_fd_, peers>>

\* ... and then closes the listening socket, if there is one.
SignalCloses ==
    /\ stopping = "flag"
    /\ stopping' = "done" /\ listen_fd_' = Nil /\ backlog' = FALSE
    /\ Unaffected /\ UNCHANGED <<hvars, running_, pending>>

\* Before g_server is set the handler does nothing.
SignalTooEarly ==
    /\ stopping = "no" /\ pc = "main"
    /\ stopping' = "done"
    /\ Unaffected /\ UNCHANGED <<hvars, running_, listen_fd_, peers>>

PeerConnects ==
    /\ listen_fd_ = Listen /\ pc \notin {"bind", "aborted"}
    /\ backlog' = ~backlog
    /\ Unaffected /\ UNCHANGED <<hvars, flags, pending>>

PeerSends(c) ==
    /\ c \in Open /\ sock[c] # "closed"
    /\ pending' = pending \cup {c}
    /\ Unaffected /\ UNCHANGED <<hvars, flags, backlog>>

PeerSocket(c, state) ==
    /\ c \in Open
    /\ PS!PeerChanges(c, state)
    /\ Unaffected /\ UNCHANGED <<maps, tx, flags, peers>>

Environment ==
    \/ Signal \/ SignalCloses \/ SignalTooEarly
    \/ PeerConnects
    \/ \E c \in Client : \/ PeerSends(c)
                         \/ \E state \in {"ready", "full", "closed"} : PeerSocket(c, state)

\* The process is over.
Over == pc \in {"exited", "aborted"} /\ UNCHANGED svars

SNext == LoopStep \/ Environment \/ Over

\* The thread of the loop keeps running (select() returns after 100 ms) and a
\* signal handler that has begun ends.  Peers and signals owe nothing.
SSpec == SInit /\ [][SNext]_svars /\ WF_svars(LoopStep) /\ WF_svars(SignalCloses)

-----------------------------------------------------------------------------
(* Properties *)

\* The lines that set the password, each by its file and its place in it.
PasswordLines ==
    UNION {{<<i, j>> : j \in {n \in DOMAIN files[i] : files[i][n].key = "requirepass"}} :
              i \in DOMAIN files}

IsLastLine(p, lines) ==
    \A q \in lines : q[1] < p[1] \/ (q[1] = p[1] /\ q[2] <= p[2])

\* The password the configuration files ask for: the last setting counts.
RequiredPassword ==
    LET last == CHOOSE p \in PasswordLines : IsLastLine(p, PasswordLines)
    IN  IF PasswordLines = {} THEN "" ELSE files[last[1]][last[2]].value

\* A server whose configuration asks for a password executes no command, not
\* even a read, for a connection that has not itself sent the password, even if
\* its socket number belonged before to one that had (server.cpp:288-304,
\* config.cpp:21-58).
NothingBeforeAuth ==
    [][pc = "parse" /\ pc' = "reply" /\ RequiredPassword # "" /\ cur \notin proved
          => reply'[1] = "auth"]_svars

\* Whoever is subscribed to a channel is an open connection, so publish() never
\* writes to a closed socket number or to its next owner (server.cpp:170-172,
\* 316-330).
SubscribersAreOpen ==
    \A channel \in DOMAIN channels : channels[channel] \subseteq Open

\* A new connection inherits nothing from the one that had its socket number
\* before: no bytes, no login, no subscription, no disconnect that was meant for
\* the other (server.cpp:184-210).
NewConnectionsAreFresh ==
    [][\A c \in DOMAIN clients_' \ DOMAIN clients_ :
          /\ clients_'[c] = Fresh
          /\ c \notin DOMAIN client_channels \cup proved \cup to_disconnect \cup ready']_svars

\* Once the loop runs, a stop() in any of its windows ends start() and the
\* process: the flag is looked at in every round, and select() wakes up.
StopEnds ==
    stopping # "no" /\ ~running_ /\ pc \notin {"main", "start", "bind", "armed"}
        ~> pc \in {"exited", "aborted"}

\* No connection is passed over: while the server runs, what a peer has sent is
\* read, however much the others send, and a waiting connection is accepted
\* unless there are no more socket numbers.
EveryoneServed ==
    LET Ends == ~running_ \/ pc \in {"exited", "aborted"}
    IN  /\ \A c \in Client : c \in Open \cap pending
              ~> Ends \/ c \notin Open \/ (cur = c /\ pc = "parse")
        /\ backlog ~> Ends \/ ~backlog \/ Open = Client

\* A transaction that MULTI has begun on a connection ends by its EXEC or
\* DISCARD or with the connection: "MyRedis supports transaction-oriented
\* command queuing and optimistic locking." (README.md:504).
TransactionsLast ==
    [][\A c \in Client : in_multi[c] /\ ~in_multi'[c] =>
          c \in to_disconnect' \/ reply'[1] \in {"exec", "discard"}]_svars

=============================================================================
