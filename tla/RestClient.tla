----------------------------- MODULE RestClient -----------------------------
(***************************************************************************)
(* A CoinbaseRestClient used by one application thread: its constructor,   *)
(* which fills the catalogue of products that create_order looks things up *)
(* in, and then its calls, one at a time.                                  *)
(***************************************************************************)
EXTENDS OrderViews, RestCalls

restVars == <<products_, orderVars, callVars>>

Init ==
  /\ products_ = "unset"
  /\ OrderInit
  /\ CallInit

\* initialize_products_ lets the first client of the process through; its
\* fetch happens inside the constructor.
Construct ==
  /\ products_ = "unset"
  /\ Ask("list", 1)
  /\ UNCHANGED <<products_, orderVars>>

\* The list is moved into the catalogue, and an empty one leaves it empty: the
\* flag is set all the same and no client fetches again.
Constructed ==
  /\ products_ = "unset"
  /\ products_' = IF pages = <<>> THEN "empty" ELSE "full"
  /\ Drop
  /\ UNCHANGED orderVars

Usable == products_ # "unset"

OrderStep ==
  /\ Usable
  /\ step = "idle"
  /\ (phase = "idle" /\ CallOrder) \/ FinishOrder
  /\ UNCHANGED <<products_, callVars>>

CallStep ==
  /\ Usable
  /\ phase = "idle"
  /\ \/ \E c \in Paged \cup Whole \cup Commands, n \in 1..MaxPages : Ask(c, n)
     \/ AskNothing
     \/ Drop
  /\ UNCHANGED <<products_, orderVars>>

Transfer == Reply /\ UNCHANGED <<products_, orderVars>>

Next == Construct \/ Constructed \/ OrderStep \/ CallStep \/ Transfer

\* Every request is answered in the end, be it with an error.  The HTTP library
\* is trusted for it: the client waits without a limit of its own.
Spec == Init /\ [][Next]_restVars /\ WF_restVars(Transfer)

=============================================================================
