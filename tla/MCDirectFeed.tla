---------------------------- MODULE MCDirectFeed ----------------------------
(* A small instance of DirectFeed: one client with both feeds.  Clients share
   nothing in this mode. *)
EXTENDS DirectFeed

CONSTANT c1

BothFeeds == [c \in {c1} |-> Kinds]

=============================================================================
