--------------------------- MODULE Subscriptions ---------------------------
(***************************************************************************)
(* What PubSubManager promises (pubsub.h): a relation between clients and  *)
(* channels, and the answers each operation gives about it.                *)
(***************************************************************************)
EXTENDS Integers, Sequences, FiniteSetsExt

CONSTANTS Client, Channel, ChannelArgs

VARIABLES
    subs,       \* the pairs <<client, channel>> subscribed
    reply

vars == <<subs, reply>>

Init == subs = {} /\ reply = <<"none">>

Answers(op, result) == reply' = <<op, result>>

Held(c) == {ch \in Channel : <<c, ch>> \in subs}
Hearing(ch) == {c \in Client : <<c, ch>> \in subs}

Subscribe(c, chs) ==
    /\ subs' = subs \cup ({c} \X Range(chs))
    /\ Answers("subscribe",
           [i \in DOMAIN chs |-> Cardinality(Held(c) \cup {chs[j] : j \in 1 .. i})])

Unsubscribe(c, chs) ==
    /\ subs' = subs \ ({c} \X Range(chs))
    /\ Answers("unsubscribe",
           [i \in DOMAIN chs |-> Cardinality(Held(c) \ {chs[j] : j \in 1 .. i})])

\* One answer per channel left, counting down to 0; at least one answer.
UnsubscribeAll(c) ==
    /\ subs' = subs \ ({c} \X Channel)
    /\ LET n == Cardinality(Held(c))
       IN  Answers("unsubscribe", [i \in 1 .. Max({1, n}) |-> Max({0, n - i})])

\* The subscribers that could not be sent to are dropped from the channel.
Publish(ch) ==
    \E failed \in SUBSET Hearing(ch) :
        /\ subs' = subs \ (failed \X {ch})
        /\ Answers("publish", Cardinality(Hearing(ch) \ failed))

IsSubscribed(c) == UNCHANGED subs /\ Answers("is_subscribed", Held(c) # {})

ActiveChannelCount ==
    /\ UNCHANGED subs
    /\ Answers("active_channel_count", Cardinality({ch \in Channel : Hearing(ch) # {}}))

TotalSubscriptionCount ==
    UNCHANGED subs /\ Answers("total_subscription_count", Cardinality(subs))

ClientDisconnected(c) ==
    subs' = subs \ ({c} \X Channel) /\ Answers("client_disconnected", c)

Next ==
    \/ \E c \in Client :
          \/ \E chs \in ChannelArgs : Subscribe(c, chs) \/ Unsubscribe(c, chs)
          \/ UnsubscribeAll(c) \/ IsSubscribed(c) \/ ClientDisconnected(c)
    \/ \E ch \in Channel : Publish(ch)
    \/ ActiveChannelCount \/ TotalSubscriptionCount

Spec == Init /\ [][Next]_vars

=============================================================================
