-------------------------- MODULE MCUserThreadFeed --------------------------
(* Small instances of UserThreadFeed. *)
EXTENDS UserThreadFeed, TLC

CONSTANTS c1, c2

\* One client with one of the feeds only.
MarketFeed == [c \in {c1} |-> {"MD"}]
UserFeed == [c \in {c1} |-> {"USER"}]

\* Two clients on one multiplexer, market data only, as in README.md.
MarketFeeds == [c \in {c1, c2} |-> {"MD"}]

\* Both clients are alike: a permutation of them maps behaviours to behaviours.
Symmetry == Permutations({c1, c2})

=============================================================================
