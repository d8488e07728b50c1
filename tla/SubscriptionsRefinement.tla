---------------------- MODULE SubscriptionsRefinement -----------------------
(***************************************************************************)
(* PubSub seen as Subscriptions.                                           *)
(***************************************************************************)
EXTENDS PubSub

Subs == INSTANCE Subscriptions
            WITH subs <- {s \in Client \X Channel : s[1] \in At(channels, s[2])}

\* The two indexes implement one relation between clients and channels: every
\* operation changes it and answers as Subscriptions says, whichever index it
\* reads.
ImplementsSubscriptions == Subs!Spec

=============================================================================
