---------------------------- MODULE FeedContract ----------------------------
(***************************************************************************)
(* What an application is promised about the callbacks of its feeds,       *)
(* whichever thread runs them.  Nothing here knows of queues, producers or *)
(* sequence-number maps: the state is what the application has been told.  *)
(*                                                                         *)
(*   - connections of a feed are announced one at a time, in order, each   *)
(*     closed by one disconnected callback before the next;                *)
(*   - a frame is handed over only while its own connection is announced,  *)
(*     and in the order the exchange numbered it;                          *)
(*   - a gap is reported with a frame exactly when some frame has been     *)
(*     missed since the first one of the connection: never when the        *)
(*     stream is whole, and always once it is not;                         *)
(*   - the first frame of a connection is accepted whatever its number;    *)
(*   - destroying a client ends the connections of its feeds, unannounced. *)
(***************************************************************************)
EXTENDS Integers

CONSTANT Feeds

VARIABLES
  up,       \* the feeds that have a connection announced
  session,  \* session[f]: number of the connection announced last
  heard,    \* heard[f]: last numbered frame handed over on it, NoSeq if none
  whole,    \* the feeds that have missed no frame since the first one
  event     \* what the application was told last

vars == <<up, session, heard, whole, event>>

NoSeq == -1

Call(f, call, n, gap) == [feed |-> f, call |-> call, session |-> n, gap |-> gap]

Init ==
  /\ up = {}
  /\ session = [f \in Feeds |-> 0]
  /\ heard = [f \in Feeds |-> NoSeq]
  /\ whole = Feeds
  /\ event.call = "none"

Connected(f) ==
  /\ f \notin up
  /\ session'[f] \in Nat
  /\ session'[f] > session[f]
  /\ session' = [session EXCEPT ![f] = session'[f]]
  /\ up' = up \cup {f}
  /\ event' = Call(f, "connected", session'[f], FALSE)
  /\ UNCHANGED <<heard, whole>>

\* Nothing has been missed before frame q.
Continues(f, q) == heard[f] = NoSeq \/ (f \in whole /\ q = heard[f] + 1)

\* A numbered frame: onLevel2Updates and the like ("data"), the error callback
\* ("error"), or no callback but a possible gap ("quiet": a heartbeat).
Frame(f, call) ==
  /\ f \in up
  /\ heard'[f] \in Nat
  /\ heard'[f] > heard[f]
  /\ heard' = [heard EXCEPT ![f] = heard'[f]]
  /\ whole' = IF Continues(f, heard'[f]) THEN whole ELSE whole \ {f}
  /\ event' = Call(f, call, session[f], ~Continues(f, heard'[f]))
  /\ UNCHANGED <<up, session>>

\* An error that belongs to no numbered frame.
Error(f) ==
  /\ event' = Call(f, "error", session[f], FALSE)
  /\ UNCHANGED <<up, session, heard, whole>>

Disconnected(f) ==
  /\ f \in up
  /\ up' = up \ {f}
  /\ heard' = [heard EXCEPT ![f] = NoSeq]
  /\ whole' = whole \cup {f}
  /\ event' = Call(f, "disconnected", session[f], FALSE)
  /\ UNCHANGED session

Destroyed(F) ==
  /\ up' = up \ F
  /\ heard' = [f \in Feeds |-> IF f \in F THEN NoSeq ELSE heard[f]]
  /\ whole' = whole \cup F
  /\ UNCHANGED <<session, event>>

Next ==
  \/ \E f \in Feeds :
       \/ Connected(f)
       \/ Frame(f, "data")
       \/ Frame(f, "error")
       \/ Frame(f, "quiet")
       \/ Error(f)
       \/ Disconnected(f)
  \/ \E F \in SUBSET Feeds : Destroyed(F)

Spec == Init /\ [][Next]_vars

=============================================================================
