--------------------------- MODULE MCSubscriptions ---------------------------
(* A small instance of Subscriptions: a client with both feeds, and one that
   was given no URL.  Clients share nothing here. *)
EXTENDS Subscriptions, TLC

CONSTANTS c1, c2

BothOrNone == c1 :> Kinds @@ c2 :> {}

\* Both sockets, heartbeats on either, and a channel after one that may throw.
SomeLists == {<<"HEARTBEATS">>, <<"USER", "LEVEL2">>, <<"LEVEL2", "HEARTBEATS">>}

=============================================================================
