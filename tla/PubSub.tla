------------------------------- MODULE PubSub -------------------------------
(***************************************************************************)
(* PubSubManager: the subscriptions kept twice, by channel (channels_, who *)
(* hears channel X) and by client (client_channels_, what does client Y    *)
(* hear), under one mutex.  A client is a socket number; the same number   *)
(* names a new connection once the old one is closed.                      *)
(***************************************************************************)
EXTENDS Integers, Sequences, FiniteSetsExt

CONSTANTS
    Client,         \* socket numbers
    Channel,
    ChannelArgs     \* argument vectors of SUBSCRIBE and UNSUBSCRIBE

ASSUME PubSubAssumption == \A chs \in ChannelArgs : chs \in Seq(Channel) /\ chs # <<>>

VARIABLES
    channels,           \* channels_: channel to set of clients
    client_channels,    \* client_channels_: client to set of channels
    sock,               \* what a send to the client's socket would meet
    reply               \* the last operation and what it returned

indexes == <<channels, client_channels>>
vars == <<channels, client_channels, sock, reply>>

\* A map from a part of D to non-empty sets over R.
IsIndex(map, D, R) ==
    DOMAIN map \subseteq D /\ map \in [DOMAIN map -> (SUBSET R) \ {{}}]

\* Both indexes are maps of their type and keep no empty entry: the code
\* counts active channels by the size of channels_.
TypeOK ==
    /\ IsIndex(channels, Channel, Client)
    /\ IsIndex(client_channels, Client, Channel)
    /\ sock \in [Client -> {"ready", "full", "closed"}]

Init ==
    /\ channels = <<>> /\ client_channels = <<>>
    /\ sock = [c \in Client |-> "ready"]
    /\ reply = <<"none">>

\* find(), with end() as the empty set.
At(map, k) == IF k \in DOMAIN map THEN map[k] ELSE {}

\* insert() of every element of E under every key of K.
InsertUnder(map, K, E) ==
    [k \in DOMAIN map \cup K |-> At(map, k) \cup (IF k \in K THEN E ELSE {})]

\* Faulty form: entries left empty stay in the map.
EraseUnder_keeping_empty(map, K, E) ==
    [k \in DOMAIN map |-> IF k \in K THEN map[k] \ E ELSE map[k]]

\* erase() of E under every key of K, and of the entries that leaves empty.
EraseUnder(map, K, E) ==
    [k \in {x \in DOMAIN map : x \in K => map[x] \ E # {}} |->
        IF k \in K THEN map[k] \ E ELSE map[k]]

Returns(op, result) == reply' = <<op, result>>

-----------------------------------------------------------------------------
\* Each channel is answered with the number of subscriptions held so far.
subscribe(c, chs) ==
    /\ channels' = InsertUnder(channels, Range(chs), {c})
    /\ client_channels' = InsertUnder(client_channels, {c}, Range(chs))
    /\ Returns("subscribe",
           [i \in DOMAIN chs |->
               Cardinality(At(client_channels, c) \cup Range(SubSeq(chs, 1, i)))])
    /\ UNCHANGED sock

\* UNSUBSCRIBE with channels; each is answered with the number still held.
unsubscribe(c, chs) ==
    /\ channels' = EraseUnder(channels, Range(chs), {c})
    /\ client_channels' = EraseUnder(client_channels, {c}, Range(chs))
    /\ Returns("unsubscribe",
           [i \in DOMAIN chs |->
               Cardinality(At(client_channels, c) \ Range(SubSeq(chs, 1, i)))])
    /\ UNCHANGED sock

\* UNSUBSCRIBE without arguments: the channels come from the reverse index, in
\* any order; a client that holds none gets the single answer ("*", 0).
unsubscribe_all(c) ==
    LET held == At(client_channels, c)
        n    == Cardinality(held)
    IN  /\ IF held = {}
           THEN UNCHANGED indexes /\ Returns("unsubscribe", <<0>>)
           ELSE /\ channels' = EraseUnder(channels, held, {c})
                /\ client_channels' = EraseUnder(client_channels, {c}, held)
                /\ Returns("unsubscribe", [i \in 1 .. n |-> n - i])
        /\ UNCHANGED sock

\* A send to a ready socket succeeds and one to a full socket fails (EAGAIN on
\* a non-blocking socket); once the peer has closed it may still succeed.
SendsFail(ch, failed) ==
    /\ failed \subseteq At(channels, ch)
    /\ \A c \in At(channels, ch) :
          /\ sock[c] = "full" => c \in failed
          /\ sock[c] = "ready" => c \notin failed

\* Faulty form: the reverse index is forgotten.
publish_one_sided(ch, failed) ==
    /\ SendsFail(ch, failed)
    /\ channels' = EraseUnder(channels, {ch}, failed)
    /\ Returns("publish", Cardinality(At(channels, ch) \ failed))
    /\ UNCHANGED <<client_channels, sock>>

\* Faulty form: failed sends are counted as delivered.
publish_overcounting(ch, failed) ==
    /\ SendsFail(ch, failed)
    /\ channels' = EraseUnder(channels, {ch}, failed)
    /\ client_channels' = EraseUnder(client_channels, failed, {ch})
    /\ Returns("publish", Cardinality(At(channels, ch)))
    /\ UNCHANGED sock

\* A subscriber whose send fails is removed from this channel only.
publish(ch, failed) ==
    /\ SendsFail(ch, failed)
    /\ channels' = EraseUnder(channels, {ch}, failed)
    /\ client_channels' = EraseUnder(client_channels, failed, {ch})
    /\ Returns("publish", Cardinality(At(channels, ch) \ failed))
    /\ UNCHANGED sock

is_subscribed(c) ==
    /\ Returns("is_subscribed", At(client_channels, c) # {})
    /\ UNCHANGED <<indexes, sock>>

active_channel_count ==
    /\ Returns("active_channel_count", Cardinality(DOMAIN channels))
    /\ UNCHANGED <<indexes, sock>>

total_subscription_count ==
    /\ Returns("total_subscription_count",
           MapThenSumSet(LAMBDA c : Cardinality(client_channels[c]), DOMAIN client_channels))
    /\ UNCHANGED <<indexes, sock>>

\* Faulty form: only the reverse index is cleaned.
client_disconnected_one_sided(c) ==
    /\ client_channels' = Restrict(client_channels, DOMAIN client_channels \ {c})
    /\ sock' = [sock EXCEPT ![c] = "ready"]
    /\ Returns("client_disconnected", c)
    /\ UNCHANGED channels

\* The server cleans up and closes the socket; its number is free for the
\* next connection.  The channels to leave come from the reverse index.
client_disconnected(c) ==
    /\ channels' = EraseUnder(channels, At(client_channels, c), {c})
    /\ client_channels' = Restrict(client_channels, DOMAIN client_channels \ {c})
    /\ sock' = [sock EXCEPT ![c] = "ready"]
    /\ Returns("client_disconnected", c)

\* The peer reads slowly, catches up, or goes away.
PeerChanges(c, state) ==
    /\ sock[c] # "closed"
    /\ sock' = [sock EXCEPT ![c] = state]
    /\ UNCHANGED <<indexes, reply>>

Next ==
    \/ \E c \in Client :
          \/ \E chs \in ChannelArgs : subscribe(c, chs) \/ unsubscribe(c, chs)
          \/ unsubscribe_all(c) \/ is_subscribed(c) \/ client_disconnected(c)
          \/ \E state \in {"ready", "full", "closed"} : PeerChanges(c, state)
    \/ \E ch \in Channel, failed \in SUBSET Client : publish(ch, failed)
    \/ active_channel_count \/ total_subscription_count

Spec == Init /\ [][Next]_vars

-----------------------------------------------------------------------------
(* Properties *)

\* The two indexes say the same.  client_disconnected() and UNSUBSCRIBE
\* without arguments look at the reverse index only, so a subscription missing
\* there would stay in channels_ for ever.
IndexesAgree ==
    \A c \in Client, ch \in Channel : c \in At(channels, ch) <=> ch \in At(client_channels, c)

\* After the clean-up of a closed connection no channel knows its socket
\* number: the next connection with that number hears nothing it did not
\* subscribe to.
DisconnectForgets ==
    \A c \in Client : reply = <<"client_disconnected", c>> =>
        \A ch \in Channel : c \notin At(channels, ch)

=============================================================================
