---------------------------- MODULE ServerProofs ----------------------------
(***************************************************************************)
(* The connections of the server and what is kept under their numbers, for *)
(* any number of clients, channels and commands.                           *)
(***************************************************************************)
EXTENDS Server, WellFoundedInduction, TLAPS

Connection == [read_buffer : Int, authenticated : BOOLEAN]

\* Whoever hears a channel also has it among the channels it hears.
Linked ==
    \A ch \in DOMAIN channels : \A c \in channels[ch] : ch \in PS!At(client_channels, c)

SubscriptionsOK == Linked /\ DOMAIN client_channels \subseteq Open

\* A login is one of the connection that sent the password.
LoginsOK ==
    /\ clients_ \in [Open -> Connection]
    /\ \A c \in Open : clients_[c].authenticated => c \in proved
    /\ proved \subseteq Open

\* What the loop still has to look at are open connections: it removes none
\* while it holds a list of them, but for the list of those to be removed.
LoopOK ==
    /\ pc # "exited" => to_disconnect \subseteq Open /\ ready \subseteq Open \cup {Listen}
    /\ pc \in {"accept", "clients", "read", "parse", "reply"} => Listen \notin ready
    /\ pc \in {"read", "parse", "reply"} => cur \in Open
    /\ pc = "drop" => ready = {}

\* The inductive invariant.
SInv == SubscriptionsOK /\ LoginsOK /\ LoopOK

-----------------------------------------------------------------------------
(* Subscriptions *)

\* Erasing the same pairs from both indexes.
LEMMA ErasedTogether ==
    ASSUME Linked, NEW K, NEW E,
           channels' = PS!EraseUnder(channels, K, E),
           client_channels' = PS!EraseUnder(client_channels, E, K)
    PROVE  Linked' /\ DOMAIN client_channels' \subseteq DOMAIN client_channels
<1>1. \A ch \in DOMAIN channels' :
          ch \in DOMAIN channels /\ channels'[ch] = IF ch \in K THEN channels[ch] \ E ELSE channels[ch]
  BY DEF PS!EraseUnder
<1>2. \A c : PS!At(client_channels', c) =
                 IF c \in E THEN PS!At(client_channels, c) \ K ELSE PS!At(client_channels, c)
  BY Zenon DEF PS!EraseUnder, PS!At
<1>3. DOMAIN client_channels' \subseteq DOMAIN client_channels
  BY DEF PS!EraseUnder
<1>4. ASSUME NEW ch \in DOMAIN channels', NEW c \in channels'[ch]
      PROVE  ch \in PS!At(client_channels', c)
  <2>1. c \in channels[ch] /\ ~(ch \in K /\ c \in E) /\ ch \in DOMAIN channels
    BY <1>1
  <2>2. ch \in PS!At(client_channels, c)
    BY <2>1 DEF Linked
  <2> QED BY <1>2, <2>1, <2>2
<1>5. \A c : PS!At(client_channels, c)' = PS!At(client_channels', c)
  BY DEF PS!At
<1> QED BY <1>3, <1>4, <1>5 DEF Linked

\* A command leaves the indexes linked and subscribes at most its client.
LEMMA SingleSubscriptions ==
    ASSUME Linked, NEW c, NEW cmd, execute_single(c, cmd)
    PROVE  Linked' /\ DOMAIN client_channels' \subseteq DOMAIN client_channels \cup {c}
<1>1. CASE UNCHANGED <<channels, client_channels>>
  BY <1>1 DEF Linked, PS!At
<1>2. CASE PS!subscribe(c, cmd.channels)
  <2> DEFINE K == PS!Range(cmd.channels)
  <2>1. /\ channels' = PS!InsertUnder(channels, K, {c})
        /\ client_channels' = PS!InsertUnder(client_channels, {c}, K)
    BY <1>2 DEF PS!subscribe
  <2> HIDE DEF K
  <2>2. \A ch \in DOMAIN channels' :
            channels'[ch] = PS!At(channels, ch) \cup (IF ch \in K THEN {c} ELSE {})
    BY <2>1 DEF PS!InsertUnder
  <2>3. \A d : PS!At(client_channels, d)' =
                   PS!At(client_channels, d) \cup (IF d = c THEN K ELSE {})
    BY <2>1 DEF PS!InsertUnder, PS!At
  <2>4. ASSUME NEW ch \in DOMAIN channels', NEW d \in channels'[ch]
        PROVE  ch \in PS!At(client_channels, d)'
    <3>1. CASE d \in PS!At(channels, ch)
      <4>1. ch \in DOMAIN channels /\ d \in channels[ch]
        BY <3>1 DEF PS!At
      <4> QED BY <2>3, <4>1 DEF Linked
    <3>2. CASE ch \in K /\ d = c
      BY <2>3, <3>2
    <3> QED BY <2>2, <3>1, <3>2
  <2>5. DOMAIN client_channels' \subseteq DOMAIN client_channels \cup {c}
    BY <2>1 DEF PS!InsertUnder
  <2> QED BY <2>4, <2>5 DEF Linked
<1>3. CASE PS!unsubscribe(c, cmd.channels)
  BY <1>3, ErasedTogether DEF PS!unsubscribe
<1>4. CASE PS!unsubscribe_all(c)
  BY <1>1, <1>4, ErasedTogether DEF PS!unsubscribe_all, PS!indexes
<1>5. CASE \E failed \in SUBSET Client : PS!publish(cmd.channel, failed)
  BY <1>5, ErasedTogether DEF PS!publish
<1> QED
  BY <1>1, <1>2, <1>3, <1>4, <1>5
  DEF execute_single, PubSubCommand, handle_unsubscribe, subscriptions

\* A command subscribes nobody but its sender.
LEMMA ExecuteSubscriptions ==
    ASSUME Linked, NEW c, NEW cmd, execute(c, cmd)
    PROVE  Linked' /\ DOMAIN client_channels' \subseteq DOMAIN client_channels \cup {c}
<1>1. CASE UNCHANGED subscriptions
  BY <1>1 DEF Linked, PS!At, subscriptions
<1>2. CASE execute_single(c, cmd)
  BY <1>2, SingleSubscriptions
<1> QED
  BY <1>1, <1>2 DEF execute, Refuse, handle_multi, handle_discard, handle_watch, handle_exec, Queue

\* A connection that ends hears no channel afterwards.
LEMMA DisconnectSubscriptions ==
    ASSUME Linked, NEW c, PS!client_disconnected(c)
    PROVE  Linked' /\ DOMAIN client_channels' \subseteq DOMAIN client_channels \ {c}
<1>1. /\ channels' = PS!EraseUnder(channels, PS!At(client_channels, c), {c})
      /\ client_channels' = PS!Restrict(client_channels, DOMAIN client_channels \ {c})
  BY DEF PS!client_disconnected
<1>2. DOMAIN client_channels' = DOMAIN client_channels \ {c}
  BY <1>1 DEF PS!Restrict
<1>3. \A d : d # c => PS!At(client_channels, d)' = PS!At(client_channels, d)
  BY <1>1 DEF PS!Restrict, PS!At
<1>4. ASSUME NEW ch \in DOMAIN channels', NEW d \in channels'[ch]
      PROVE  ch \in PS!At(client_channels, d)'
  <2>1. /\ ch \in DOMAIN channels
        /\ channels'[ch] = IF ch \in PS!At(client_channels, c) THEN channels[ch] \ {c} ELSE channels[ch]
    BY <1>1 DEF PS!EraseUnder
  <2>2. d \in channels[ch] /\ ch \in PS!At(client_channels, d)
    BY <2>1 DEF Linked
  <2>3. d # c
    BY <2>1, <2>2
  <2> QED BY <1>3, <2>2, <2>3
<1> QED BY <1>2, <1>4 DEF Linked

-----------------------------------------------------------------------------
(* The loop *)

\* Steps that leave connections, logins and subscriptions alone.
LEMMA SameConnections ==
    ASSUME SInv, UNCHANGED <<channels, client_channels, clients_, proved>>, LoopOK'
    PROVE  SInv'
BY DEF SInv, SubscriptionsOK, Linked, LoginsOK, Open, PS!At

\* The parts of a round that hold no list of connections.
LEMMA ElsewhereInv ==
    ASSUME SInv, pc # "exited",
           UNCHANGED <<channels, client_channels, clients_, proved, ready, to_disconnect>>,
           pc' \notin {"accept", "clients", "read", "parse", "reply", "drop"}
    PROVE  SInv'
<1>1. LoopOK'
  BY DEF SInv, LoopOK, Open
<1> QED BY <1>1, SameConnections

\* main, start(), the flag test, FD_SET and a select() that fails.
LEMMA StartInv ==
    ASSUME SInv,
           \/ Main \/ CreateSocket \/ BindAndListen \/ SetRunning
           \/ LoopTest \/ FdSet \/ SelectFails
    PROVE  SInv'
<1>1. UNCHANGED <<channels, client_channels, clients_, proved, ready, to_disconnect>>
  BY DEF Main, CreateSocket, BindAndListen, SetRunning, LoopTest, FdSet, SelectFails, LoopOnly,
         hvars, subscriptions
<1>2. pc # "exited" /\ pc' \notin {"accept", "clients", "read", "parse", "reply", "drop"}
  BY DEF Main, CreateSocket, BindAndListen, SetRunning, LoopTest, FdSet, SelectFails, Goto
<1> QED BY <1>1, <1>2, ElsewhereInv

\* select() and the choice of the next client.
LEMMA RoundInv ==
    ASSUME SInv, Select \/ IsSet \/ NextClient
    PROVE  SInv'
<1>1. UNCHANGED <<channels, client_channels, clients_, proved, to_disconnect>>
  BY DEF Select, IsSet, NextClient, LoopOnly, hvars, subscriptions
<1>2. CASE Select
  <2>1. ready' \subseteq Open \cup {Listen} /\ pc' \in {"test", "isset"} /\ pc # "exited"
    BY <1>2 DEF Select, ReadableClients
  <2>2. LoopOK'
    BY <1>1, <2>1 DEF SInv, LoopOK, Open
  <2> QED BY <1>1, <2>2, SameConnections
<1>3. CASE IsSet
  <2>1. ready' = ready \ {Listen} /\ pc = "isset" /\ pc' \in {"accept", "clients", "aborted"}
    BY <1>3 DEF IsSet, Goto
  <2>2. LoopOK'
    BY <1>1, <2>1 DEF SInv, LoopOK, Open
  <2> QED BY <1>1, <2>2, SameConnections
<1>4. CASE NextClient
  <2>1. /\ pc = "clients"
        /\ \/ cur' \in ready /\ ready' = ready \ {cur'} /\ pc' = "read"
           \/ ready = {} /\ ready' = ready /\ pc' = "drop"
    BY <1>4 DEF NextClient, Goto
  <2>2. LoopOK'
    BY <1>1, <2>1 DEF SInv, LoopOK, Open
  <2> QED BY <1>1, <2>2, SameConnections
<1> QED BY <1>2, <1>3, <1>4

\* The connection in hand is kept or put on the list; it stays open.
LEMMA HandledInv ==
    ASSUME SInv, pc \in {"read", "parse", "reply"}, Open' = Open, UNCHANGED ready,
           \/ pc' \in {"parse", "reply"} /\ UNCHANGED <<cur, to_disconnect>>
           \/ \E keep \in BOOLEAN : Done(keep)
    PROVE  LoopOK'
<1>1. cur \in Open /\ to_disconnect \subseteq Open /\ ready \subseteq Open /\ Listen \notin ready
  BY DEF SInv, LoopOK
<1>2. CASE pc' \in {"parse", "reply"} /\ UNCHANGED <<cur, to_disconnect>>
  BY <1>1, <1>2 DEF LoopOK
<1>3. CASE \E keep \in BOOLEAN : Done(keep)
  BY <1>1, <1>3 DEF LoopOK, Done
<1> QED BY <1>2, <1>3

\* A new connection.
LEMMA AcceptInv ==
    ASSUME SInv, accept_client
    PROVE  SInv'
<1>1. /\ pc = "accept" /\ pc' = "clients"
      /\ UNCHANGED <<channels, client_channels, proved, ready, to_disconnect>>
  BY DEF accept_client, Goto, hvars, subscriptions
<1>2. CASE UNCHANGED clients_
  <2>1. LoopOK'
    BY <1>1, <1>2 DEF SInv, LoopOK, Open
  <2> QED BY <1>1, <1>2, <2>1, SameConnections
<1>3. ASSUME NEW c \in Client \ Open, clients_' = Put(clients_, c, Fresh)
      PROVE  SInv'
  <2>1. /\ Open' = Open \cup {c} /\ clients_'[c] = Fresh
        /\ \A d \in Open : clients_'[d] = clients_[d]
        /\ clients_' = [d \in Open' |-> clients_'[d]]
    BY <1>3 DEF Put, Open
  <2>2. LoginsOK'
    <3>1. Fresh \in Connection /\ Fresh.authenticated = FALSE
      BY DEF Fresh, Connection
    <3>2. \A d \in Open' : clients_'[d] \in Connection
      BY <2>1, <3>1 DEF SInv, LoginsOK
    <3>3. \A d \in Open' : clients_'[d].authenticated => d \in proved
      BY <2>1, <3>1 DEF SInv, LoginsOK
    <3> QED BY <1>1, <2>1, <3>2, <3>3 DEF SInv, LoginsOK
  <2>3. SubscriptionsOK'
    BY <1>1, <2>1 DEF SInv, SubscriptionsOK, Linked, PS!At
  <2>4. LoopOK'
    BY <1>1, <2>1 DEF SInv, LoopOK
  <2> QED BY <2>2, <2>3, <2>4 DEF SInv
<1> QED BY <1>2, <1>3 DEF accept_client

\* Reading and consuming bytes leaves the logins alone.
LEMMA BufferLogins ==
    ASSUME LoginsOK, cur \in Open, NEW n \in Int, UNCHANGED proved,
           clients_' = [clients_ EXCEPT ![cur].read_buffer = @ + n]
    PROVE  LoginsOK' /\ Open' = Open
<1>1. Open' = Open
  BY DEF Open
<1>2. clients_[cur] \in Connection
  BY DEF LoginsOK
<1>3. [clients_[cur] EXCEPT !.read_buffer = @ + n] \in Connection
  BY <1>2 DEF Connection
<1>4. /\ clients_'[cur].authenticated = clients_[cur].authenticated
      /\ clients_' \in [Open -> Connection]
  BY <1>2, <1>3 DEF LoginsOK, Connection
<1>5. \A d \in Open \ {cur} : clients_'[d] = clients_[d]
  BY DEF LoginsOK
<1> QED BY <1>1, <1>4, <1>5 DEF LoginsOK

\* Taking a request from the buffer leaves the logins alone.
LEMMA ConsumeLogins ==
    ASSUME LoginsOK, cur \in Open, NEW n \in Int, UNCHANGED proved, Consume(n)
    PROVE  LoginsOK' /\ Open' = Open
<1>1. clients_[cur].read_buffer \in Int
  BY DEF LoginsOK, Connection
<1>2. clients_[cur].read_buffer - n = clients_[cur].read_buffer + (-n)
  BY <1>1
<1>3. clients_' = [clients_ EXCEPT ![cur].read_buffer = @ + (-n)]
  BY <1>2, Zenon DEF Consume
<1>4. -n \in Int
  OBVIOUS
<1> QED BY <1>3, <1>4, BufferLogins, Zenon

\* A step of process_client that executes no command.
LEMMA ProcessInv ==
    ASSUME SInv, pc \in {"read", "parse", "reply"}, LoginsOK', Open' = Open,
           UNCHANGED <<channels, client_channels, ready>>,
           \/ pc' \in {"parse", "reply"} /\ UNCHANGED <<cur, to_disconnect>>
           \/ \E keep \in BOOLEAN : Done(keep)
    PROVE  SInv'
<1>1. LoopOK'
  BY HandledInv
<1>2. SubscriptionsOK'
  BY DEF SInv, SubscriptionsOK, Linked, PS!At
<1> QED BY <1>1, <1>2 DEF SInv

\* read() and the parser.
LEMMA BytesInv ==
    ASSUME SInv, ReadSocket \/ NeedMore \/ BlankLine \/ LastRequest
    PROVE  SInv'
<1>1. /\ pc \in {"read", "parse"} /\ UNCHANGED <<channels, client_channels, ready, proved>>
      /\ \/ pc' = "parse" /\ UNCHANGED <<cur, to_disconnect>>
         \/ \E keep \in BOOLEAN : Done(keep)
  BY Zenon DEF ReadSocket, NeedMore, BlankLine, LastRequest, hvars, subscriptions, loop
<1>2. cur \in Open /\ LoginsOK
  BY <1>1 DEF SInv, LoopOK
<1>3. CASE UNCHANGED clients_
  BY <1>1, <1>2, <1>3, ProcessInv DEF LoginsOK, Open
<1>4. ASSUME NEW n \in 1 .. MaxRead, clients_' = [clients_ EXCEPT ![cur].read_buffer = @ + n]
      PROVE  SInv'
  <2>1. n \in Int
    BY ServerAssumption
  <2>2. LoginsOK' /\ Open' = Open
    BY <1>1, <1>2, <1>4, <2>1, BufferLogins, Zenon
  <2> QED BY <1>1, <2>2, ProcessInv
<1>5. CASE Consume(1)
  BY <1>1, <1>2, <1>5, ConsumeLogins, ProcessInv
<1> QED BY <1>3, <1>4, <1>5, Zenon DEF ReadSocket, NeedMore, BlankLine, LastRequest

\* The AUTH gate.
LEMMA AuthInv ==
    ASSUME SInv, Authenticate \/ NoAuth
    PROVE  SInv'
<1>1. /\ pc = "parse" /\ pc' = "reply"
      /\ UNCHANGED <<channels, client_channels, ready, cur, to_disconnect>>
  BY DEF Authenticate, NoAuth, Goto, subscriptions
<1>2. cur \in Open /\ LoginsOK
  BY <1>1 DEF SInv, LoopOK
<1>3. CASE Authenticate
  <2>1. clients_[cur].read_buffer - RequestSize \in Int
    BY <1>2 DEF LoginsOK, Connection, RequestSize
  <2>2. /\ clients_' = [clients_ EXCEPT ![cur] =
              [read_buffer |-> clients_[cur].read_buffer - RequestSize, authenticated |-> TRUE]]
        /\ proved' = proved \cup {cur}
    BY <1>3 DEF Authenticate
  <2>3. Open' = Open /\ \A d \in Open \ {cur} : clients_'[d] = clients_[d]
    BY <1>2, <2>2 DEF Open, LoginsOK
  <2>4. clients_' \in [Open -> Connection]
    BY <1>2, <2>1, <2>2 DEF LoginsOK, Connection
  <2>5. LoginsOK'
    BY <1>2, <2>2, <2>3, <2>4 DEF LoginsOK
  <2> QED BY <1>1, <2>3, <2>5, ProcessInv
<1>4. CASE NoAuth
  <2>1. Consume(2) /\ UNCHANGED proved
    BY <1>4 DEF NoAuth, RequestSize
  <2> QED BY <1>1, <1>2, <2>1, ConsumeLogins, ProcessInv
<1> QED BY <1>3, <1>4

\* A command that passes the gate.
LEMMA CommandInv ==
    ASSUME SInv, Execute
    PROVE  SInv'
<1>1. /\ pc = "parse" /\ pc' = "reply"
      /\ UNCHANGED <<ready, cur, to_disconnect, proved>>
  BY DEF Execute, Goto
<1>2. cur \in Open /\ LoginsOK
  BY <1>1 DEF SInv, LoopOK
<1>3. LoginsOK' /\ Open' = Open
  <2>1. Consume(2)
    BY DEF Execute, RequestSize
  <2> QED BY <1>1, <1>2, <2>1, ConsumeLogins
<1>4. LoopOK'
  BY <1>1, <1>3, HandledInv
<1>5. Linked' /\ DOMAIN client_channels' \subseteq DOMAIN client_channels \cup {cur}
  <2>1. \E cmd \in Commands[cur] : execute(cur, cmd)
    BY DEF Execute
  <2> QED BY <2>1, ExecuteSubscriptions DEF SInv, SubscriptionsOK
<1>6. SubscriptionsOK'
  BY <1>2, <1>3, <1>5 DEF SInv, SubscriptionsOK
<1> QED BY <1>3, <1>4, <1>6 DEF SInv

\* The answer, and a peer that cannot take it.
LEMMA ResponseInv ==
    ASSUME SInv, SendResponse
    PROVE  SInv'
<1>1. /\ pc = "reply" /\ UNCHANGED <<channels, client_channels, ready, clients_, proved>>
      /\ \/ pc' = "parse" /\ UNCHANGED <<cur, to_disconnect>>
         \/ \E keep \in BOOLEAN : Done(keep)
  BY Zenon DEF SendResponse, subscriptions
<1>2. LoginsOK' /\ Open' = Open
  BY <1>1 DEF SInv, LoginsOK, Open
<1> QED BY <1>1, <1>2, ProcessInv

\* A connection leaves the table, the list, the logins and the subscriptions in
\* one step of the loop.
LEMMA DropInv ==
    ASSUME SInv, Drop
    PROVE  SInv'
<1>1. pc = "drop" /\ UNCHANGED <<cur, ready>> /\ ready = {}
  BY DEF Drop, SInv, LoopOK
<1>2. ASSUME NEW c \in to_disconnect, disconnect_client(c), to_disconnect' = to_disconnect \ {c},
             UNCHANGED pc
      PROVE  SInv'
  <2>1. /\ PS!client_disconnected(c) /\ proved' = proved \ {c}
        /\ clients_' = Erase(clients_, {c})
    BY <1>2 DEF disconnect_client, Forget
  <2>2. /\ Open' = Open \ {c} /\ clients_' = [d \in Open' |-> clients_[d]]
    BY <2>1 DEF Erase, Restrict, Open
  <2>3. LoginsOK'
    BY <2>1, <2>2, Zenon DEF SInv, LoginsOK
  <2>4. Linked' /\ DOMAIN client_channels' \subseteq DOMAIN client_channels \ {c}
    BY <2>1, DisconnectSubscriptions DEF SInv, SubscriptionsOK
  <2>5. SubscriptionsOK'
    BY <2>2, <2>4 DEF SInv, SubscriptionsOK
  <2>6. LoopOK'
    BY <1>1, <1>2, <2>2 DEF SInv, LoopOK
  <2> QED BY <2>3, <2>5, <2>6 DEF SInv
<1>3. CASE UNCHANGED <<subscriptions, clients_, proved, to_disconnect>> /\ pc' = "test"
  BY <1>1, <1>3, ElsewhereInv DEF subscriptions
<1> QED BY <1>2, <1>3 DEF Drop

\* The end of the loop and the destructor.
LEMMA ExitInv ==
    ASSUME SInv, Exit
    PROVE  SInv'
<1>1. /\ pc' = "exited" /\ clients_' = <<>> /\ channels' = <<>> /\ client_channels' = <<>>
      /\ proved' = {}
  BY DEF Exit, Goto
<1>2. LoopOK'
  BY <1>1 DEF LoopOK
<1>3. SubscriptionsOK' /\ LoginsOK'
  BY <1>1 DEF SubscriptionsOK, Linked, LoginsOK, Open
<1> QED BY <1>2, <1>3 DEF SInv

\* Peers and signals.
LEMMA EnvironmentInv ==
    ASSUME SInv, Environment \/ Over \/ UNCHANGED svars
    PROVE  SInv'
<1>1. UNCHANGED <<channels, client_channels, clients_, proved, loop>>
  BY DEF Environment, Signal, SignalCloses, SignalTooEarly, PeerConnects, PeerSends, PeerSocket,
         Unaffected, PS!PeerChanges, PS!indexes, Over, svars, hvars, subscriptions
<1>2. LoopOK'
  BY <1>1 DEF SInv, LoopOK, loop, Open
<1> QED BY <1>1, <1>2, SameConnections

\* The induction step, one case for each part of the loop.
LEMMA SInvInductive == SInv /\ [SNext]_svars => SInv'
BY StartInv, RoundInv, AcceptInv, BytesInv, AuthInv, CommandInv, ResponseInv, DropInv, ExitInv,
   EnvironmentInv
DEF SNext, LoopStep

\* The initial states.
LEMMA SInitInv == SInit => SInv
<1> SUFFICES ASSUME SInit PROVE SInv
  OBVIOUS
<1>0. channels = <<>> /\ client_channels = <<>> /\ clients_ = <<>> /\ proved = {}
  BY Zenon DEF SInit, HInit
<1>1. SubscriptionsOK
  BY <1>0 DEF SubscriptionsOK, Linked
<1>2. LoginsOK
  BY <1>0 DEF LoginsOK, Open
<1>3. LoopOK
  BY Zenon DEF SInit, LoopOK
<1> QED BY <1>1, <1>2, <1>3 DEF SInv

\* Connections, logins, subscriptions and the lists of the loop agree in every
\* reachable state.
THEOREM ConnectionsConsistent == SSpec => []SInv
BY SInitInv, SInvInductive, PTL DEF SSpec

-----------------------------------------------------------------------------
(* What follows *)

\* However commands, dead peers, disconnects, new connections and a stop()
\* interleave, publish() writes to open connections only (server.cpp:170-172,
\* 316-330).
COROLLARY SubscribersStayOpen == SSpec => []SubscribersAreOpen
<1>1. SInv => SubscribersAreOpen
  BY DEF SInv, SubscriptionsOK, Linked, SubscribersAreOpen, PS!At
<1> QED BY <1>1, ConnectionsConsistent, PTL

\* Only accept() adds a connection, and the number it takes is in no list.
LEMMA AcceptsFresh ==
    ASSUME SInv, [SNext]_svars
    PROVE  \A c \in DOMAIN clients_' \ DOMAIN clients_ :
              /\ clients_'[c] = Fresh
              /\ c \notin DOMAIN client_channels \cup proved \cup to_disconnect \cup ready'
<1> SUFFICES ASSUME NEW c \in DOMAIN clients_' \ DOMAIN clients_
             PROVE  /\ clients_'[c] = Fresh
                    /\ c \notin DOMAIN client_channels \cup proved \cup to_disconnect \cup ready'
  OBVIOUS
<1>1. CASE accept_client
  <2>1. pc = "accept" /\ ready' = ready /\ \E d \in Client \ Open : clients_' = Put(clients_, d, Fresh)
    BY <1>1 DEF accept_client, Goto
  <2>2. clients_'[c] = Fresh
    BY <2>1 DEF Put
  <2>3. c \notin Open
    BY DEF Open
  <2>4. /\ DOMAIN client_channels \subseteq Open /\ proved \subseteq Open
        /\ to_disconnect \subseteq Open /\ ready \subseteq Open
    BY <2>1 DEF SInv, SubscriptionsOK, LoginsOK, LoopOK
  <2> QED BY <2>1, <2>2, <2>3, <2>4
<1>2. CASE UNCHANGED clients_
  BY <1>2
<1>3. CASE DOMAIN clients_' \subseteq DOMAIN clients_
  BY <1>3
<1>4. ReadSocket \/ BlankLine \/ Authenticate \/ NoAuth \/ Execute =>
          DOMAIN clients_' \subseteq DOMAIN clients_
  BY Zenon DEF ReadSocket, BlankLine, Authenticate, NoAuth, Execute, Consume
<1>5. Drop \/ Exit => DOMAIN clients_' \subseteq DOMAIN clients_
  <2>1. Drop => \/ UNCHANGED clients_
                \/ \E d \in to_disconnect : clients_' = Erase(clients_, {d})
    BY DEF Drop, disconnect_client
  <2>2. Exit => clients_' = <<>>
    BY DEF Exit
  <2>3. clients_' = <<>> => DOMAIN clients_' = {}
    OBVIOUS
  <2>4. ASSUME NEW d, clients_' = Erase(clients_, {d})
        PROVE  DOMAIN clients_' \subseteq DOMAIN clients_
    BY <2>4 DEF Erase, Restrict
  <2> QED BY <2>1, <2>2, <2>3, <2>4, Zenon
<1>6. \/ Main \/ CreateSocket \/ BindAndListen \/ SetRunning \/ LoopTest \/ FdSet \/ Select
      \/ SelectFails \/ IsSet \/ NextClient \/ NeedMore \/ LastRequest \/ SendResponse
      \/ Environment \/ Over \/ UNCHANGED svars
      => UNCHANGED clients_
  BY Zenon DEF Main, CreateSocket, BindAndListen, SetRunning, LoopTest, FdSet, Select, SelectFails,
         IsSet, NextClient, LoopOnly, NeedMore, LastRequest, SendResponse, Environment, Signal,
         SignalCloses, SignalTooEarly, PeerConnects, PeerSends, PeerSocket, Unaffected, Over, svars
<1> QED BY <1>1, <1>2, <1>3, <1>4, <1>5, <1>6 DEF SNext, LoopStep

\* A socket number that is taken again brings nothing over from the connection
\* that had it before, whenever that one ended (server.cpp:184-210).
THEOREM NumbersComeClean == SSpec => NewConnectionsAreFresh
<1>1. SInv /\ [SNext]_svars =>
        [\A c \in DOMAIN clients_' \ DOMAIN clients_ :
            /\ clients_'[c] = Fresh
            /\ c \notin DOMAIN client_channels \cup proved \cup to_disconnect \cup ready']_svars
  BY AcceptsFresh
<1> QED BY <1>1, ConnectionsConsistent, PTL DEF SSpec, NewConnectionsAreFresh

-----------------------------------------------------------------------------
(* The configuration.  Lines of a file and files of the command line are    *)
(* taken in turn, in the same way.                                          *)

\* What holds of 0 and, with a number, of the next, holds of all numbers.
LEMMA NatInductionSet ==
    ASSUME NEW S, 0 \in S, \A n \in Nat : n \in S => n + 1 \in S
    PROVE  Nat \subseteq S
<1> DEFINE R == {p \in Nat \X Nat : p[1] < p[2]}
           T == Nat \ S
<1>1. SUFFICES ASSUME T # {} PROVE FALSE
  OBVIOUS
<1>2. PICK x \in T : \A y \in T : ~(<<y, x>> \in R)
  <2>1. IsWellFoundedOn(R, Nat)
    BY NatLessThanWellFounded DEF OpToRel
  <2>2. T \subseteq Nat
    OBVIOUS
  <2> HIDE DEF R, T
  <2> QED BY <1>1, <2>1, <2>2, WFMin, Zenon
<1>3. x - 1 \in Nat
  BY <1>2
<1>4. <<x - 1, x>> \in R
  BY <1>2, <1>3
<1>5. x - 1 \in S
  BY <1>2, <1>3, <1>4
<1>6. (x - 1) + 1 = x
  BY <1>2
<1> QED BY <1>2, <1>3, <1>5, <1>6

Take(kind, config, part) ==
    IF kind = "line" THEN Config_set(config, part) ELSE load_file(config, part)

\* f[n] is the configuration after n of the parts.
Taken(f, kind, config, parts, N) ==
    f = [n \in 0 .. N |-> IF n = 0 THEN config ELSE Take(kind, f[n - 1], parts[n])]

\* The recursion has a solution.
LEMMA TakenExists ==
    ASSUME NEW kind, NEW config, NEW parts, NEW N \in Nat
    PROVE  \E f : Taken(f, kind, config, parts, N)
<1> DEFINE S == {n \in Nat : \E f : Taken(f, kind, config, parts, n)}
<1>1. 0 \in S
  <2> DEFINE f == [n \in 0 .. 0 |-> config]
  <2>1. f = [n \in 0 .. 0 |-> IF n = 0 THEN config ELSE Take(kind, f[n - 1], parts[n])]
    OBVIOUS
  <2> QED BY <2>1, Zenon DEF Taken
<1>2. ASSUME NEW n \in Nat, n \in S PROVE n + 1 \in S
  <2>1. PICK f : Taken(f, kind, config, parts, n)
    BY <1>2
  <2> DEFINE g == [i \in 0 .. n + 1 |-> IF i <= n THEN f[i] ELSE Take(kind, f[n], parts[n + 1])]
             h == [i \in 0 .. n + 1 |-> IF i = 0 THEN config ELSE Take(kind, g[i - 1], parts[i])]
  <2>2. ASSUME NEW i \in 0 .. n + 1 PROVE g[i] = h[i]
    <3>1. CASE i = 0
      BY <2>1, <3>1 DEF Taken
    <3>2. CASE i \in 1 .. n
      <4>1. g[i] = f[i] /\ g[i - 1] = f[i - 1]
        BY <3>2
      <4>2. f[i] = Take(kind, f[i - 1], parts[i])
        BY <2>1, <3>2 DEF Taken
      <4> QED BY <3>2, <4>1, <4>2
    <3>3. CASE i = n + 1
      <4>1. i # 0 /\ ~(i <= n) /\ i - 1 = n /\ n \in 0 .. n + 1 /\ n <= n
        BY <3>3
      <4>2. g[i] = Take(kind, f[n], parts[n + 1]) /\ g[n] = f[n]
        BY <4>1
      <4>3. h[i] = Take(kind, g[n], parts[n + 1])
        BY <3>3, <4>1
      <4> QED BY <4>2, <4>3
    <3> QED BY <3>1, <3>2, <3>3
  <2>3. g = h
    BY <2>2
  <2>4. Taken(g, kind, config, parts, n + 1)
    BY <2>3 DEF Taken
  <2> QED BY <2>4
<1>3. Nat \subseteq S
  <2> HIDE DEF S
  <2> QED BY <1>1, <1>2, NatInductionSet
<1> QED BY <1>3

\* Lines and files are taken one after the other.
LEMMA LoadedInTurn ==
    ASSUME NEW config, NEW parts, Len(parts) \in Nat
    PROVE  /\ \E f : /\ Taken(f, "line", config, parts, Len(parts))
                     /\ load_file(config, parts) = f[Len(parts)]
           /\ \E f : /\ Taken(f, "file", set_defaults, parts, Len(parts))
                     /\ Loaded(parts) = f[Len(parts)]
<1> DEFINE N == Len(parts)
<1>1. \E f : Taken(f, "line", config, parts, N) /\ load_file(config, parts) = f[N]
  <2> DEFINE P(f) == f = [n \in 0 .. N |->
                            IF n = 0 THEN config ELSE Config_set(f[n - 1], parts[n])]
             after == CHOOSE f : P(f)
  <2>1. load_file(config, parts) = after[N]
    BY DEF load_file
  <2>2. \A f : P(f) <=> Taken(f, "line", config, parts, N)
    BY DEF Taken, Take
  <2>3. \E f : P(f)
    BY <2>2, TakenExists
  <2>4. P(after)
    <3> HIDE DEF P
    <3> QED BY <2>3
  <2> HIDE DEF P, after
  <2> QED BY <2>1, <2>2, <2>4
<1>2. \E f : Taken(f, "file", set_defaults, parts, N) /\ Loaded(parts) = f[N]
  <2> DEFINE P(f) == f = [n \in 0 .. N |->
                            IF n = 0 THEN set_defaults ELSE load_file(f[n - 1], parts[n])]
             after == CHOOSE f : P(f)
  <2>1. Loaded(parts) = after[N]
    BY DEF Loaded
  <2>2. \A f : P(f) <=> Taken(f, "file", set_defaults, parts, N)
    BY DEF Taken, Take
  <2>3. \E f : P(f)
    BY <2>2, TakenExists
  <2>4. P(after)
    <3> HIDE DEF P
    <3> QED BY <2>3
  <2> HIDE DEF P, after
  <2> QED BY <2>1, <2>2, <2>4
<1> QED BY <1>1, <1>2

\* The parts in sets change the password, to the value val has for them, and
\* the others leave it.
Sets(kind, parts, N, sets, val) ==
    \A c : \A n \in 1 .. N :
        Config_password(Take(kind, c, parts[n])) =
            IF n \in sets THEN val[n] ELSE Config_password(c)

\* The password is the value of the last of sets, or as it was if there is none.
LastOf(sets, val, before, password) ==
    \/ sets = {} /\ password = before
    \/ \E n \in sets : (\A m \in sets : m <= n) /\ password = val[n]

\* When some parts set the password and the others leave it, the last of those
\* that set it counts.
LEMMA LastCounts ==
    ASSUME NEW kind, NEW config, NEW parts, NEW N \in Nat, NEW sets, NEW val, NEW f,
           Taken(f, kind, config, parts, N),
           sets \subseteq 1 .. N,
           Sets(kind, parts, N, sets, val)
    PROVE  LastOf(sets, val, Config_password(config), Config_password(f[N]))
<1>1. f[0] = config
  BY DEF Taken
<1>2. \A n \in 1 .. N : f[n] = Take(kind, f[n - 1], parts[n])
  BY DEF Taken
<1> DEFINE Before(n) == {m \in sets : m <= n}
           Counts(n) ==
              \/ Before(n) = {} /\ Config_password(f[n]) = Config_password(config)
              \/ \E m \in Before(n) : /\ \A l \in Before(n) : l <= m
                                      /\ Config_password(f[n]) = val[m]
           S == {n \in Nat : n <= N => Counts(n)}
<1>3. \A m \in sets : m \in Nat /\ m > 0 /\ m <= N
  OBVIOUS
<1>4. 0 \in S
  <2>1. Before(0) = {}
    <3>1. \A m \in sets : ~(m <= 0)
      BY <1>3
    <3> QED BY <3>1, Zenon
  <2> HIDE DEF Before
  <2> QED BY <1>1, <2>1
<1>5. ASSUME NEW n \in Nat, n \in S PROVE n + 1 \in S
  <2> SUFFICES ASSUME n + 1 <= N PROVE Counts(n + 1)
    OBVIOUS
  <2>1. Counts(n)
    BY <1>5
  <2>2. Config_password(f[n + 1]) = IF n + 1 \in sets THEN val[n + 1] ELSE Config_password(f[n])
    <3>1. n + 1 \in 1 .. N /\ (n + 1) - 1 = n
      OBVIOUS
    <3>2. f[n + 1] = Take(kind, f[n], parts[n + 1])
      BY <1>2, <3>1
    <3> QED BY <3>1, <3>2, Zenon DEF Sets
  <2>3. CASE n + 1 \in sets
    <3>1. n + 1 \in Before(n + 1) /\ \A l \in Before(n + 1) : l <= n + 1
      BY <2>3
    <3> QED BY <2>2, <2>3, <3>1
  <2>4. CASE n + 1 \notin sets
    <3>1. Before(n + 1) = Before(n)
      <4>1. \A m \in sets : m <= n + 1 <=> m <= n
        BY <1>3, <2>4
      <4> QED BY <4>1, Zenon
    <3> HIDE DEF Before
    <3> QED BY <2>1, <2>2, <2>4, <3>1
  <2> QED BY <2>3, <2>4
<1>6. Nat \subseteq S
  <2> HIDE DEF S
  <2> QED BY <1>4, <1>5, NatInductionSet
<1>7. Counts(N)
  BY <1>6
<1>8. Before(N) = sets
  BY <1>3, Zenon
<1> HIDE DEF Before
<1> QED BY <1>7, <1>8, Zenon DEF LastOf

\* The lines of one file that set the password.
Setting(file) == {n \in DOMAIN file : file[n].key = "requirepass"}

\* Within a file the last line for a key counts.
LEMMA LastLineCounts ==
    ASSUME NEW config, NEW file, Len(file) \in Nat, DOMAIN file = 1 .. Len(file)
    PROVE  LET password == Config_password(load_file(config, file)) IN
           \/ Setting(file) = {} /\ password = Config_password(config)
           \/ \E n \in Setting(file) : /\ \A m \in Setting(file) : m <= n
                                       /\ password = file[n].value
<1> DEFINE N == Len(file)
           val == [n \in DOMAIN file |-> file[n].value]
<1>1. Sets("line", file, N, Setting(file), val)
  <2> SUFFICES ASSUME NEW c, NEW n \in 1 .. N
               PROVE  Config_password(Config_set(c, file[n])) =
                          IF n \in Setting(file) THEN val[n] ELSE Config_password(c)
    BY DEF Take, Sets
  <2>1. CASE file[n] = Blank
    <3>1. Blank.key = "#"
      BY DEF Blank
    <3>2. n \notin Setting(file)
      BY <2>1, <3>1 DEF Setting
    <3> QED BY <2>1, <3>2 DEF Config_set
  <2>2. CASE file[n] # Blank /\ file[n].key = "requirepass"
    BY <2>2, Zenon DEF Setting, Config_set, Config_password, Config_get
  <2>3. CASE file[n] # Blank /\ file[n].key # "requirepass"
    BY <2>3, Zenon DEF Setting, Config_set, Config_password, Config_get
  <2> QED BY <2>1, <2>2, <2>3
<1>2. PICK f : Taken(f, "line", config, file, N) /\ load_file(config, file) = f[N]
  BY LoadedInTurn
<1>3. Setting(file) \subseteq 1 .. N
  BY DEF Setting
<1>4. \A n \in Setting(file) : val[n] = file[n].value
  BY DEF Setting
<1> HIDE DEF val, N
<1>5. LastOf(Setting(file), val, Config_password(config), Config_password(f[N]))
  <2>1. N \in Nat
    BY DEF N
  <2> QED BY <1>1, <1>2, <1>3, <2>1, LastCounts
<1> QED BY <1>2, <1>4, <1>5 DEF LastOf

\* Over all files the last file that has the key counts.
LEMMA LastFileCounts ==
    ASSUME NEW fs, NEW N \in Nat, N = Len(fs), NEW sets, NEW val,
           sets \subseteq 1 .. N, Sets("file", fs, N, sets, val)
    PROVE  LastOf(sets, val, "", Config_password(Loaded(fs)))
<1>1. PICK f : Taken(f, "file", set_defaults, fs, N) /\ Loaded(fs) = f[N]
  BY LoadedInTurn
<1>2. LastOf(sets, val, Config_password(set_defaults), Config_password(f[N]))
  BY <1>1, LastCounts, Zenon
<1>3. Config_password(set_defaults) = ""
  BY DEF set_defaults, Config_password, Config_get
<1> QED BY <1>1, <1>2, <1>3, Zenon

\* What main hands to the server is the password of the last line of all files
\* that sets one (config.cpp:21-58, main.cpp:43-56).
LEMMA LastSettingCounts ==
    ASSUME files \in ConfigFiles
    PROVE  Config_password(Loaded(files)) = RequiredPassword
<1> DEFINE N == Len(files)
           sets == {i \in 1 .. N : Setting(files[i]) # {}}
           IsLast(i, n) == n \in Setting(files[i]) /\ \A m \in Setting(files[i]) : m <= n
           last == [i \in sets |-> CHOOSE n : IsLast(i, n)]
           val == [i \in sets |-> files[i][last[i]].value]
<1>1. /\ N \in Nat /\ DOMAIN files = 1 .. N
      /\ \A i \in 1 .. N : Len(files[i]) \in Nat /\ DOMAIN files[i] = 1 .. Len(files[i])
  <2>1. files \in Seq(Seq([key : STRING, value : STRING]))
    BY ServerAssumption
  <2> QED BY <2>1
<1>2. \A i \in sets : IsLast(i, last[i])
  <2> SUFFICES ASSUME NEW i \in sets PROVE IsLast(i, last[i])
    BY Zenon
  <2>1. \E n : IsLast(i, n)
    BY <1>1, LastLineCounts, Zenon
  <2>2. last[i] = CHOOSE n : IsLast(i, n)
    OBVIOUS
  <2> HIDE DEF IsLast, last
  <2> QED BY <2>1, <2>2
<1>3. Sets("file", files, N, sets, val)
  <2> SUFFICES ASSUME NEW c, NEW i \in 1 .. N
               PROVE  Config_password(load_file(c, files[i])) =
                          IF i \in sets THEN val[i] ELSE Config_password(c)
    BY Zenon DEF Take, Sets
  <2>1. CASE Setting(files[i]) = {}
    BY <1>1, <2>1, LastLineCounts
  <2>2. CASE Setting(files[i]) # {}
    <3>1. PICK n : IsLast(i, n) /\ Config_password(load_file(c, files[i])) = files[i][n].value
      BY <1>1, <2>2, LastLineCounts
    <3>2. i \in sets /\ IsLast(i, last[i])
      BY <1>2, <2>2, Zenon
    <3>3. n = last[i]
      <4> DEFINE m == last[i]
      <4>1. IsLast(i, m)
        BY <3>2, Zenon
      <4> HIDE DEF m
      <4>2. n \in Setting(files[i]) /\ m \in Setting(files[i]) /\ n <= m /\ m <= n
        BY <3>1, <4>1
      <4>3. n \in Nat /\ m \in Nat
        BY <1>1, <4>2 DEF Setting
      <4>4. n = m
        BY <4>2, <4>3
      <4> QED BY <4>4 DEF m
    <3> HIDE DEF last
    <3> QED BY <3>1, <3>2, <3>3
  <2> QED BY <2>1, <2>2
<1>4. LastOf(sets, val, "", Config_password(Loaded(files)))
  <2>1. sets \subseteq 1 .. N
    OBVIOUS
  <2>2. N \in Nat /\ N = Len(files)
    BY <1>1
  <2> HIDE DEF sets, val, N
  <2> QED BY <1>3, <2>1, <2>2, LastFileCounts, Zenon
<1>5. \A p : p \in PasswordLines <=> \E i \in sets : \E n \in Setting(files[i]) : p = <<i, n>>
  BY <1>1 DEF PasswordLines, Setting
<1>6. CASE sets = {}
  BY <1>4, <1>5, <1>6, Zenon DEF LastOf, RequiredPassword
<1>7. CASE sets # {}
  <2>1. PICK i \in sets : (\A j \in sets : j <= i) /\ Config_password(Loaded(files)) = val[i]
    BY <1>4, <1>7, Zenon DEF LastOf
  <2>2. val[i] = files[i][last[i]].value
    BY <2>1
  <2> DEFINE lines == PasswordLines
             p == <<i, last[i]>>
             q == CHOOSE r \in lines : IsLastLine(r, lines)
  <2> HIDE DEF last, val
  <2>3. \A j \in sets : j \in Nat /\ j <= i
    BY <1>1, <2>1
  <2>4. \A j \in sets : \A n \in Setting(files[j]) : n \in Nat
    <3>1. \A j \in sets : j \in 1 .. N
      OBVIOUS
    <3> HIDE DEF sets, N
    <3> QED BY <1>1, <3>1 DEF Setting
  <2> HIDE DEF sets
  <2>5. p \in lines
    BY <1>2, <1>5, <2>1
  <2>6. IsLastLine(p, lines)
    <3> SUFFICES ASSUME NEW j \in sets, NEW n \in Setting(files[j])
                 PROVE  j < i \/ (j = i /\ n <= last[i])
      BY <1>5 DEF IsLastLine
    <3>1. CASE j = i
      BY <1>2, <3>1
    <3>2. CASE j # i
      BY <2>1, <2>3, <3>2
    <3> QED BY <3>1, <3>2
  <2>7. q \in lines /\ IsLastLine(q, lines)
    BY <2>5, <2>6
  <2>8. q = p
    <3> HIDE DEF q
    <3>1. PICK j \in sets : \E n \in Setting(files[j]) : q = <<j, n>>
      BY <1>5, <2>7
    <3>2. PICK n \in Setting(files[j]) : q = <<j, n>>
      BY <3>1
    <3>3. j < i \/ (j = i /\ n <= last[i])
      BY <2>6, <2>7, <3>2 DEF IsLastLine
    <3>4. i < j \/ (i = j /\ last[i] <= n)
      BY <2>5, <2>7, <3>2 DEF IsLastLine
    <3>5. i \in Nat /\ j \in Nat /\ n \in Nat /\ last[i] \in Nat
      BY <1>2, <2>1, <2>3, <2>4, <3>2
    <3>6. j = i /\ n = last[i]
      BY <3>3, <3>4, <3>5
    <3> QED BY <3>2, <3>6
  <2>9. RequiredPassword = files[q[1]][q[2]].value
    BY <2>5, Zenon DEF RequiredPassword
  <2> HIDE DEF q
  <2>10. q[1] = i /\ q[2] = last[i]
    BY <2>8
  <2> QED BY <2>1, <2>2, <2>9, <2>10
<1> QED BY <1>6, <1>7

-----------------------------------------------------------------------------
(* The gate *)

\* With a password set, a request of a connection that has not sent it is
\* answered by the AUTH gate alone.
GateAnswers ==
    pc = "parse" /\ pc' = "reply" /\ password_ # "" /\ cur \notin proved => reply'[1] = "auth"

\* The login of an earlier connection never opens the gate for the next owner
\* of its number (server.cpp:288-304).
LEMMA GateHolds == SSpec => [][GateAnswers]_svars
<1>1. SInv /\ [SNext]_svars => GateAnswers
  <2> SUFFICES ASSUME SInv, [SNext]_svars, pc = "parse", pc' = "reply", password_ # "",
                      cur \notin proved
               PROVE  reply'[1] = "auth"
    BY Zenon DEF GateAnswers
  <2>1. ~Execute
    BY Zenon DEF Execute, NeedsAuth, SInv, LoginsOK, LoopOK
  <2>2. Authenticate \/ NoAuth => reply'[1] = "auth"
    <3>1. Authenticate \/ NoAuth => \E r : reply' = <<"auth", r>>
      BY Zenon DEF Authenticate, NoAuth, Returns
    <3>2. \A r : <<"auth", r>>[1] = "auth"
      BY Zenon
    <3> QED BY <3>1, <3>2, Zenon
  <2>3. /\ ~Main /\ ~CreateSocket /\ ~BindAndListen /\ ~SetRunning /\ ~LoopTest /\ ~FdSet
        /\ ~Select /\ ~SelectFails /\ ~IsSet /\ ~accept_client /\ ~NextClient /\ ~Exit
    BY Zenon DEF Main, CreateSocket, BindAndListen, SetRunning, LoopTest, FdSet, Select, SelectFails,
           IsSet, accept_client, NextClient, Exit, Goto
  <2>4. ~ReadSocket /\ ~NeedMore /\ ~BlankLine /\ ~LastRequest /\ ~SendResponse /\ ~Drop
    BY Zenon DEF ReadSocket, NeedMore, BlankLine, LastRequest, SendResponse, Drop, Done, loop
  <2>5. ~Environment /\ ~Over /\ ~UNCHANGED svars
    BY Zenon DEF Environment, Signal, SignalCloses, SignalTooEarly, PeerConnects, PeerSends, PeerSocket,
           Unaffected, loop, Over, svars
  <2> QED BY <2>1, <2>2, <2>3, <2>4, <2>5, Zenon DEF SNext, LoopStep
<1> QED BY <1>1, ConnectionsConsistent, PTL DEF SSpec

\* main has passed on the password of the configuration before start() runs,
\* and nothing changes it later.
StartupOK == files \in ConfigFiles /\ (pc # "main" => password_ = RequiredPassword)

\* Once main has set the password nothing changes it.
LEMMA StartupInductive == StartupOK /\ [SNext]_svars => StartupOK'
<1> SUFFICES ASSUME StartupOK, [SNext]_svars PROVE StartupOK'
  OBVIOUS
<1>1. CASE Main
  <2>1. UNCHANGED files /\ password_' = Config_password(Loaded(files))
    BY <1>1 DEF Main
  <2>2. password_' = RequiredPassword
    BY <2>1, LastSettingCounts DEF StartupOK
  <2>3. RequiredPassword' = RequiredPassword
    <3>1. files' = files
      BY <2>1
    <3> QED BY <3>1, SMTT(30) DEF RequiredPassword, PasswordLines
  <2> QED BY <2>1, <2>2, <2>3 DEF StartupOK
<1>2. CASE UNCHANGED startup /\ (pc' = "main" \/ pc # "main")
  <2>1. RequiredPassword' = RequiredPassword
    <3>1. files' = files
      BY <1>2 DEF startup
    <3> QED BY <3>1, SMTT(30) DEF RequiredPassword, PasswordLines
  <2> QED BY <1>2, <2>1 DEF StartupOK, startup
<1>3. \/ CreateSocket \/ BindAndListen \/ SetRunning \/ LoopTest \/ FdSet \/ Select
      \/ SelectFails \/ IsSet \/ accept_client \/ NextClient
      => UNCHANGED startup /\ pc # "main"
  BY DEF CreateSocket, BindAndListen, SetRunning, LoopTest, FdSet, Select, SelectFails, IsSet,
         accept_client, NextClient, LoopOnly, Goto
<1>4. \/ ReadSocket \/ NeedMore \/ BlankLine \/ LastRequest \/ Authenticate \/ NoAuth \/ Execute
      \/ SendResponse \/ Drop \/ Exit
      => UNCHANGED startup /\ pc # "main"
  BY Zenon DEF ReadSocket, NeedMore, BlankLine, LastRequest, Authenticate, NoAuth, Execute,
         SendResponse, Drop, Exit, Rest, Goto
<1>5. Environment \/ Over \/ UNCHANGED svars => UNCHANGED <<startup, pc>>
  BY DEF Environment, Signal, SignalCloses, SignalTooEarly, PeerConnects, PeerSends, PeerSocket,
         Unaffected, loop, Over, svars
<1> QED BY <1>1, <1>2, <1>3, <1>4, <1>5 DEF SNext, LoopStep

\* From the first step after main's set-up on the server has the password that
\* its configuration files ask for (main.cpp:43-56, config.cpp:21-58).
THEOREM PasswordIsConfigured == SSpec => []StartupOK
<1>1. SInit => StartupOK
  BY Zenon DEF SInit, StartupOK
<1> QED BY <1>1, StartupInductive, PTL DEF SSpec

\* A server whose configuration asks for a password answers every request of a
\* connection that has not sent it by the AUTH gate alone, whatever the files
\* are and whoever had the socket number before (server.cpp:288-304,
\* config.cpp:21-58).
THEOREM NoCommandBeforeAuth == SSpec => NothingBeforeAuth
<1>1. StartupOK /\ [GateAnswers]_svars =>
        [pc = "parse" /\ pc' = "reply" /\ RequiredPassword # "" /\ cur \notin proved
            => reply'[1] = "auth"]_svars
  BY Zenon DEF StartupOK, GateAnswers
<1> QED BY <1>1, GateHolds, PasswordIsConfigured, PTL DEF NothingBeforeAuth

=============================================================================
