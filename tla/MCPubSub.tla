------------------------------ MODULE MCPubSub ------------------------------
(* A small instance of PubSub for TLC. *)
EXTENDS SubscriptionsRefinement

CONSTANTS a, b

MCChannelArgs == {<<a>>, <<a, b>>, <<b, b>>}

=============================================================================
