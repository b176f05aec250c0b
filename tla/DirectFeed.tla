----------------------------- MODULE DirectFeed -----------------------------
(***************************************************************************)
(* WebSocketClients whose callbacks object is a plain WebsocketCallbacks:  *)
(* every callback runs on slick-net's I/O thread, inside the step that     *)
(* caused it, and each client has a DataHandler of its own that tracks the *)
(* sequence numbers of its two feeds.                                      *)
(***************************************************************************)
EXTENDS ExchangeSocket

CONSTANTS
  Null,     \* no client
  Throwing  \* {"DISCONNECTED"} if the disconnected callbacks may throw, else {}

ASSUME DirectAssumption == Null \notin Clients /\ Throwing \subseteq {"DISCONNECTED"}

VARIABLES
  alive,         \* clients constructed and not destroyed
  last_seq_num_, \* last_md_seq_num_ and last_user_seq_num_ of each client's handler
  session,       \* history: connection announced last
  heard,         \* history: last numbered frame handed over on it
  event          \* history: what the application was told last

vars == <<socketVars, alive, last_seq_num_, session, heard, event>>

callback(f, call, n, gap) ==
  event' = [feed |-> f, call |-> call, session |-> n, gap |-> gap]

-----------------------------------------------------------------------------
(* The application's threads.                                              *)

\* The constructor: a fresh DataHandler, whose sequence numbers are -1.
Construct(c) ==
  /\ c \notin alive
  /\ alive' = alive \cup {c}
  /\ last_seq_num_' = [f \in Feeds |-> IF f[1] = c THEN NoSeq ELSE last_seq_num_[f]]
  /\ UNCHANGED <<socketVars, session, heard, event>>

\* The destructor: the sockets are detached first, then the handler deleted.
Destroy(c) ==
  /\ c \in alive
  /\ alive' = alive \ {c}
  /\ Detach(FeedsOf(c))
  /\ last_seq_num_' = [f \in Feeds |-> IF f[1] = c THEN NoSeq ELSE last_seq_num_[f]]
  /\ heard' = [f \in Feeds |-> IF f[1] = c THEN NoSeq ELSE heard[f]]
  /\ UNCHANGED <<session, event>>

\* subscribe, as far as it changes the connection.
Subscribe(f) ==
  /\ f[1] \in alive
  /\ Open(f)
  /\ UNCHANGED <<alive, last_seq_num_, session, heard, event>>

stop(c) ==
  /\ c \in alive
  /\ Close(FeedsOf(c))
  /\ UNCHANGED <<alive, last_seq_num_, session, heard, event>>

-----------------------------------------------------------------------------
(* The I/O thread.                                                         *)

onConnected(f) ==
  /\ Establish(f)
  /\ callback(f, "connected", conn[f], FALSE)
  /\ session' = [session EXCEPT ![f] = conn[f]]
  /\ UNCHANGED <<alive, last_seq_num_, heard>>

\* Mistake: the number of the old connection stays.
resetSequenceNever(f) == last_seq_num_

\* resetMarketDataSequence and resetUserDataSequence.
resetSequence(f) == [last_seq_num_ EXCEPT ![f] = NoSeq]

MayThrow == {FALSE} \cup {throws \in {TRUE} : "DISCONNECTED" \in Throwing}

\* The callback, then the reset, which an exception of the callback skips on
\* its way to slick-net.
onDisconnected(f) ==
  /\ Shut(f)
  /\ callback(f, "disconnected", conn[f], FALSE)
  /\ \E throws \in MayThrow :
       last_seq_num_' = IF throws THEN last_seq_num_ ELSE resetSequence(f)
  /\ heard' = [heard EXCEPT ![f] = NoSeq]
  /\ UNCHANGED <<alive, session>>

\* A failed attempt to connect, reported unless close() asked for it.
onConnectError(f) ==
  /\ Abandon(f)
  /\ IF status[f] = "CONNECTING"
     THEN callback(f, "error", session[f], FALSE)
     ELSE UNCHANGED event
  /\ UNCHANGED <<alive, last_seq_num_, session, heard>>

\* onMarketDataError and onUserDataError, or an error frame without a number.
onError(f) ==
  /\ Unnumbered(f)
  /\ callback(f, "error", session[f], FALSE)
  /\ UNCHANGED <<alive, last_seq_num_, session, heard>>

\* Mistake: anything newer is taken for the next.
AcceptsNewer(last, q) == last < 0 \/ q > last

\* check*DataSequenceNumber: a negative last number accepts anything.
Accepts(last, q) == last < 0 \/ q = last + 1

\* Mistake: the number expected next is stored.
onFrameExpected(f) ==
  LET q == sent[f] + 1
      ok == Accepts(last_seq_num_[f], q)
  IN /\ Number(f)
     /\ \E call \in {"data", "error", "quiet"} : callback(f, call, conn[f], ~ok)
     /\ last_seq_num_' = [last_seq_num_ EXCEPT ![f] = IF ok THEN q + 1 ELSE @]
     /\ heard' = [heard EXCEPT ![f] = q]
     /\ UNCHANGED <<alive, session>>

\* processMarketData and processUserData: the frame is handed over whatever
\* the check said, after the gap callback if it failed; a "quiet" frame makes no
\* callback of its own.
onFrame(f) ==
  LET q == sent[f] + 1
      ok == Accepts(last_seq_num_[f], q)
  IN /\ Number(f)
     /\ \E call \in {"data", "error", "quiet"} : callback(f, call, conn[f], ~ok)
     /\ last_seq_num_' = [last_seq_num_ EXCEPT ![f] = IF ok THEN q ELSE @]
     /\ heard' = [heard EXCEPT ![f] = q]
     /\ UNCHANGED <<alive, session>>

\* The exchange loses a frame, or sends one that does not parse.
LoseFrame(f) ==
  /\ Number(f)
  /\ UNCHANGED <<alive, last_seq_num_, session, heard, event>>

-----------------------------------------------------------------------------

Init ==
  /\ SocketInit
  /\ alive = {}
  /\ last_seq_num_ = [f \in Feeds |-> NoSeq]
  /\ session = [f \in Feeds |-> 0]
  /\ heard = [f \in Feeds |-> NoSeq]
  /\ event = [feed |-> <<Null, "MD">>, call |-> "none", session |-> 0, gap |-> FALSE]

Next ==
  \/ \E c \in Clients : Construct(c) \/ Destroy(c) \/ stop(c)
  \/ \E f \in Feeds :
       \/ Subscribe(f)
       \/ onConnected(f)
       \/ onDisconnected(f)
       \/ onConnectError(f)
       \/ onError(f)
       \/ onFrame(f)
       \/ LoseFrame(f)

Spec == Init /\ [][Next]_vars

-----------------------------------------------------------------------------
(* Properties.                                                             *)

Calls ==
  [feed : (Clients \cup {Null}) \X Kinds, session : 0..MaxConn, gap : BOOLEAN,
   call : {"none", "connected", "disconnected", "error", "data", "quiet"}]

\* Every variable has its type.
TypeOK ==
  /\ SocketTypeOK
  /\ alive \subseteq Clients
  /\ last_seq_num_ \in [Feeds -> NoSeq..MaxSeq]
  /\ session \in [Feeds -> 0..MaxConn]
  /\ heard \in [Feeds -> NoSeq..MaxSeq]
  /\ event \in Calls

\* What the handler remembers of one feed: nothing until a frame of this
\* connection was handed over, never more than was handed over, never more
\* than the exchange sent, and nothing at all between connections.
TracksConnection(f) ==
  /\ last_seq_num_[f] = NoSeq <=> heard[f] = NoSeq
  /\ last_seq_num_[f] <= heard[f]
  /\ heard[f] <= sent[f]
  /\ ~opened[f] => heard[f] = NoSeq

\* How the announced connection relates to the socket's.
AnnouncesConnection(f) ==
  /\ session[f] <= conn[f]
  /\ opened[f] => session[f] = conn[f]
  /\ status[f] = "CONNECTING" => session[f] < conn[f] /\ ~opened[f]

\* A socket that is down or whose client is gone has no connection.
DownIsClosed(f) ==
  /\ f[1] \notin alive => status[f] = "DISCONNECTED"
  /\ status[f] = "DISCONNECTED" => ~opened[f]

\* The sequence state of the I/O-thread mode follows the connection, as long as
\* no disconnected callback throws: a frame of one connection is never judged by
\* the numbers of another.
SequenceFollowsConnection ==
  \A f \in Feeds : TracksConnection(f) /\ AnnouncesConnection(f) /\ DownIsClosed(f)

\* The callbacks keep the contract of FeedContract.
Contract == INSTANCE FeedContract WITH
  up <- {f \in Feeds : opened[f]},
  whole <- {f \in Feeds : heard[f] = last_seq_num_[f]}

KeepsContract == Contract!Spec

=============================================================================
