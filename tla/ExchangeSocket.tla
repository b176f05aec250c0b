--------------------------- MODULE ExchangeSocket ---------------------------
(***************************************************************************)
(* slick-net's websocket and the exchange behind it, as far as             *)
(* WebSocketClient relies on them.  slick-net is not part of the           *)
(* repository: its behaviour is inferred from how src/websocket.cpp and    *)
(* the tests use it.                                                       *)
(*                                                                         *)
(* A feed is one websocket of one client: the client's market data socket  *)
(* (kind "MD") or its user data socket (kind "USER").  The callbacks of a  *)
(* socket run on slick-net's I/O thread; the modules that extend this one  *)
(* conjoin each I/O step below with the handler the client installed.      *)
(*                                                                         *)
(* The exchange numbers the frames of a connection 0, 1, 2, ... and may    *)
(* lose any of them before the socket hands it over.                       *)
(***************************************************************************)
EXTENDS Integers

CONSTANTS
  Clients,   \* addresses at which WebSocketClient objects live
  Urls,      \* Urls[c]: the kinds of feed for which client c was given a URL
  MaxConn,   \* bound: connections a feed establishes or attempts
  MaxSeq     \* bound: last sequence number the exchange uses on a connection

Kinds == {"MD", "USER"}

ASSUME SocketAssumption ==
  /\ Urls \in [Clients -> SUBSET Kinds]
  /\ MaxConn \in Nat
  /\ MaxSeq \in Nat

Feeds == {f \in Clients \X Kinds : f[2] \in Urls[f[1]]}

FeedsOf(c) == {f \in Feeds : f[1] = c}

NoSeq == -1

VARIABLES
  status,   \* status[f]: Websocket::status()
  opened,   \* opened[f]: the connected callback ran, the disconnected one has not
  conn,     \* conn[f]: connections attempted so far
  sent      \* sent[f]: last sequence number the exchange used, NoSeq before the first

socketVars == <<status, opened, conn, sent>>

Statuses == {"CONNECTING", "CONNECTED", "DISCONNECTING", "DISCONNECTED"}

SocketTypeOK ==
  /\ status \in [Feeds -> Statuses]
  /\ opened \in [Feeds -> BOOLEAN]
  /\ conn \in [Feeds -> 0..MaxConn]
  /\ sent \in [Feeds -> NoSeq..MaxSeq]

SocketInit ==
  /\ status = [f \in Feeds |-> "DISCONNECTED"]
  /\ opened = [f \in Feeds |-> FALSE]
  /\ conn = [f \in Feeds |-> 0]
  /\ sent = [f \in Feeds |-> NoSeq]

-----------------------------------------------------------------------------
(* What the client calls.                                                  *)

\* open() on a socket that is down; each connection is numbered afresh.
Open(f) ==
  /\ status[f] = "DISCONNECTED"
  /\ conn[f] < MaxConn
  /\ status' = [status EXCEPT ![f] = "CONNECTING"]
  /\ conn' = [conn EXCEPT ![f] = @ + 1]
  /\ sent' = [sent EXCEPT ![f] = NoSeq]
  /\ UNCHANGED opened

\* close() on every feed of F that is not down yet.
Close(F) ==
  /\ status' = [f \in Feeds |-> IF f \in F /\ status[f] # "DISCONNECTED"
                                THEN "DISCONNECTING" ELSE status[f]]
  /\ UNCHANGED <<opened, conn, sent>>

\* detach() and close(): from here on the socket runs no callback.
Detach(F) ==
  /\ status' = [f \in Feeds |-> IF f \in F THEN "DISCONNECTED" ELSE status[f]]
  /\ opened' = [f \in Feeds |-> IF f \in F THEN FALSE ELSE opened[f]]
  /\ UNCHANGED <<conn, sent>>

-----------------------------------------------------------------------------
(* What the I/O thread does.                                               *)

Establish(f) ==
  /\ status[f] = "CONNECTING"
  /\ status' = [status EXCEPT ![f] = "CONNECTED"]
  /\ opened' = [opened EXCEPT ![f] = TRUE]
  /\ UNCHANGED <<conn, sent>>

\* The attempt fails, or close() overtook it.
Abandon(f) ==
  /\ ~opened[f]
  /\ status[f] \in {"CONNECTING", "DISCONNECTING"}
  /\ status' = [status EXCEPT ![f] = "DISCONNECTED"]
  /\ UNCHANGED <<opened, conn, sent>>

\* An established connection ends, closed by either side or broken.
Shut(f) ==
  /\ opened[f]
  /\ status' = [status EXCEPT ![f] = "DISCONNECTED"]
  /\ opened' = [opened EXCEPT ![f] = FALSE]
  /\ UNCHANGED <<conn, sent>>

\* The exchange sends its next numbered frame.
Number(f) ==
  /\ opened[f]
  /\ sent[f] < MaxSeq
  /\ sent' = [sent EXCEPT ![f] = @ + 1]
  /\ UNCHANGED <<status, opened, conn>>

\* A frame or a socket error that carries no sequence number.
Unnumbered(f) ==
  /\ opened[f]
  /\ UNCHANGED socketVars

=============================================================================
