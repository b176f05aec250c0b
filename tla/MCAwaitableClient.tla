-------------------------- MODULE MCAwaitableClient --------------------------
(* A small instance of AwaitableClient: three objects, two hosts, one of them
   given without its scheme. *)
EXTENDS AwaitableClient, TLC

CONSTANTS o1, o2, o3, s1, s2, s3, s4

TwoUrls == {[scheme |-> "https://", host |-> "production"], [scheme |-> "", host |-> "sandbox"]}

\* Objects are alike, and so are addresses.
Symmetry == Permutations({o1, o2, o3}) \cup Permutations({s1, s2, s3, s4})

=============================================================================
