---------------------------- MODULE Subscriptions ----------------------------
(***************************************************************************)
(* subscribe and unsubscribe of WebSocketClients: the messages that go out *)
(* on their sockets, and what the exchange makes of them.  Which thread    *)
(* runs the callbacks plays no part here, nor do the frames.               *)
(*                                                                         *)
(* A call is made by the one application thread and takes its channels in  *)
(* turn.  It tests status(), opens the socket if it is down, signs, and    *)
(* sends; the I/O thread runs in between, so that a socket found connected *)
(* may be gone when the message is sent.  Nothing of a subscription is     *)
(* kept in the client: what a connection carries is what was sent on it.   *)
(***************************************************************************)
EXTENDS ExchangeSocket, Sequences

CONSTANTS
  Null,      \* no client
  Lists,     \* lists of channels the application passes
  MaxOutbox  \* bound: messages of a socket the exchange has not taken

Channels ==
  {"HEARTBEATS", "LEVEL2", "MARKET_TRADES", "TICKER", "USER", "CANDLES", "STATUS",
   "TICKER_BATCH", "FUTURES_BALANCE_SUMMARY"}

ASSUME SubscriptionAssumption ==
  /\ Null \notin Clients
  /\ Lists \subseteq Seq(Channels)
  /\ MaxOutbox \in Nat

VARIABLES
  alive,   \* clients constructed and not destroyed
  keys,    \* generate_coinbase_jwt succeeds: the keys are read once per process
  call,    \* the call that is running, NoCall between calls
  outbox,  \* outbox[f]: messages sent, not yet taken by the exchange
  subs,    \* subs[f]: channels the exchange has on for the connection
  held,    \* history: channels the application may take for subscribed
  silenced \* history: feeds whose heartbeats were unsubscribed on this connection

messageVars == <<call, outbox, subs, held, silenced>>
vars == <<socketVars, alive, keys, messageVars>>

\* sound: the socket in use has not gone down since its status was read.
NoCall == [client |-> Null, op |-> "none", todo |-> <<>>, step |-> "channel", sound |-> TRUE]

Message(op, name) == [op |-> op, channel |-> name]

-----------------------------------------------------------------------------
(* The sockets.                                                            *)

Up(f) == status[f] \in {"CONNECTING", "CONNECTED"}

\* Mistake: every channel on the market data socket.
SocketOfMarket(c, name) == <<c, "MD">>

SocketOf(c, name) == <<c, IF name = "USER" THEN "USER" ELSE "MD">>

\* send() on the sockets of F: kept until the connection stands, lost on a
\* socket that is down.
send(F, m) ==
  /\ \A f \in F : Len(outbox[f]) < MaxOutbox
  /\ outbox' = [f \in Feeds |-> IF f \in F /\ Up(f) THEN Append(outbox[f], m) ELSE outbox[f]]

\* What the exchange has on once it has taken a message.
Taken(on, m) == IF m.op = "subscribe" THEN on \cup {m.channel} ELSE on \ {m.channel}

\* No message about the channel among those of f from position i on.
Quiet(f, i, name) == \A j \in DOMAIN outbox[f] : j >= i => outbox[f][j].channel # name

\* What it will have on once it has taken all that is under way: the last
\* message about a channel decides.
Effective(f) ==
  {name \in Channels :
     \/ \E i \in DOMAIN outbox[f] :
          outbox[f][i] = Message("subscribe", name) /\ Quiet(f, i + 1, name)
     \/ name \in subs[f] /\ Quiet(f, 1, name)}

\* A connection ends: the application is told, or has asked for it itself.
Forget(F) ==
  /\ outbox' = [f \in Feeds |-> IF f \in F THEN <<>> ELSE outbox[f]]
  /\ subs' = [f \in Feeds |-> IF f \in F THEN {} ELSE subs[f]]
  /\ held' = [f \in Feeds |-> IF f \in F THEN {} ELSE held[f]]
  /\ silenced' = silenced \ F

-----------------------------------------------------------------------------
(* The application's thread: subscribe.                                    *)

Begin(c, op, list) ==
  /\ call = NoCall
  /\ c \in alive
  /\ list # <<>>
  /\ call' = [NoCall EXCEPT !.client = c, !.op = op, !.todo = list]
  /\ UNCHANGED <<socketVars, alive, keys, outbox, subs, held, silenced>>

channel == Head(call.todo)
socket == SocketOf(call.client, channel)

\* The next channel, or the end of the call.
Advance ==
  call' = IF Len(call.todo) = 1 THEN NoCall
          ELSE [call EXCEPT !.todo = Tail(@), !.step = "channel", !.sound = TRUE]

\* No URL was given for the socket: a warning, and the next channel.
SkipChannel ==
  /\ call.op # "none"
  /\ call.step = "channel"
  /\ socket \notin Feeds
  /\ Advance
  /\ UNCHANGED <<socketVars, alive, keys, outbox, subs, held, silenced>>

\* status() > CONNECTED.  open() on a socket that is still closing is taken to
\* do nothing.
Opens(f) == status[f] = "DISCONNECTED"

ReachSocket ==
  /\ call.op = "subscribe"
  /\ call.step = "channel"
  /\ socket \in Feeds
  /\ IF Opens(socket) THEN Open(socket) ELSE UNCHANGED socketVars
  /\ call' = [call EXCEPT !.sound = status[socket] # "DISCONNECTING",
                          !.step = IF channel = "USER" /\ ~Up(socket) THEN "heartbeats" ELSE "send"]
  /\ UNCHANGED <<alive, keys, outbox, subs, held, silenced>>

\* A signature fails: the exception leaves the call where it is.
Fail ==
  /\ call.op = "subscribe"
  /\ call.step # "channel"
  /\ channel = "USER" /\ ~keys
  /\ call' = NoCall
  /\ UNCHANGED <<socketVars, alive, keys, outbox, subs, held, silenced>>

\* Mistake: the heartbeats are left to the application.
SendHeartbeatsNot ==
  /\ call.step = "heartbeats"
  /\ keys
  /\ call' = [call EXCEPT !.step = "send"]
  /\ UNCHANGED <<socketVars, alive, keys, outbox, subs, held, silenced>>

\* A user data socket that had to be opened starts with its heartbeats.
SendHeartbeats ==
  /\ call.step = "heartbeats"
  /\ keys
  /\ send({socket}, Message("subscribe", "HEARTBEATS"))
  /\ call' = [call EXCEPT !.step = "send"]
  /\ UNCHANGED <<socketVars, alive, keys, subs, held, silenced>>

SendChannel ==
  /\ call.op = "subscribe"
  /\ call.step = "send"
  /\ channel = "USER" => keys
  /\ send({socket}, Message("subscribe", channel))
  /\ held' = [held EXCEPT ![socket] = IF call.sound THEN @ \cup {channel} ELSE @]
  /\ Advance
  /\ UNCHANGED <<socketVars, alive, keys, subs, silenced>>

-----------------------------------------------------------------------------
(* The application's thread: unsubscribe, and the rest.                    *)

\* Mistake: the market data socket, whatever the channel.
SilencesMarket == {<<call.client, "MD">>}

\* The sockets that hear of it: unsubscribing from the heartbeats reaches both.
Silences ==
  {socket} \cup IF channel = "HEARTBEATS" THEN {<<call.client, "USER">>} \cap Feeds ELSE {}

\* One channel of unsubscribe.  The test of status() and the message are one
\* step: a socket that goes down in between loses the message all the same.
UnsubscribeChannel ==
  /\ call.op = "unsubscribe"
  /\ socket \in Feeds
  /\ send(Silences, Message("unsubscribe", channel))
  /\ held' = [held EXCEPT ![socket] = @ \ {channel}]
  /\ silenced' = silenced \cup {f \in Silences : channel = "HEARTBEATS" /\ f[2] = "USER" /\ Up(f)}
  /\ Advance
  /\ UNCHANGED <<socketVars, alive, keys, subs>>

\* Constructor, destructor and stop(), between calls.
Construct(c) ==
  /\ call = NoCall
  /\ c \notin alive
  /\ alive' = alive \cup {c}
  /\ UNCHANGED <<socketVars, keys, messageVars>>

Destroy(c) ==
  /\ call = NoCall
  /\ c \in alive
  /\ alive' = alive \ {c}
  /\ Detach(FeedsOf(c))
  /\ Forget(FeedsOf(c))
  /\ UNCHANGED <<keys, call>>

stop(c) ==
  /\ call = NoCall
  /\ c \in alive
  /\ Close(FeedsOf(c))
  /\ held' = [f \in Feeds |-> IF f \in FeedsOf(c) THEN {} ELSE held[f]]
  /\ UNCHANGED <<alive, keys, call, outbox, subs, silenced>>

-----------------------------------------------------------------------------
(* The I/O thread, and the exchange.                                       *)

Connect(f) ==
  /\ Establish(f)
  /\ UNCHANGED <<alive, keys, messageVars>>

\* The connection ends, or the attempt fails.
Disconnect(f) ==
  /\ Shut(f) \/ Abandon(f)
  /\ Forget({f})
  /\ call' = IF call # NoCall /\ socket = f THEN [call EXCEPT !.sound = FALSE] ELSE call
  /\ UNCHANGED <<alive, keys>>

\* The exchange takes the next message.
TakeMessage(f) ==
  /\ opened[f]
  /\ outbox[f] # <<>>
  /\ outbox' = [outbox EXCEPT ![f] = Tail(@)]
  /\ subs' = [subs EXCEPT ![f] = Taken(@, Head(outbox[f]))]
  /\ UNCHANGED <<socketVars, alive, keys, call, held, silenced>>

-----------------------------------------------------------------------------

Init ==
  /\ SocketInit
  /\ alive = {}
  /\ keys \in BOOLEAN
  /\ call = NoCall
  /\ outbox = [f \in Feeds |-> <<>>]
  /\ subs = [f \in Feeds |-> {}]
  /\ held = [f \in Feeds |-> {}]
  /\ silenced = {}

Next ==
  \/ \E c \in Clients :
       \/ Construct(c)
       \/ Destroy(c)
       \/ stop(c)
       \/ \E op \in {"subscribe", "unsubscribe"}, list \in Lists : Begin(c, op, list)
  \/ SkipChannel \/ ReachSocket \/ Fail \/ SendHeartbeats \/ SendChannel
  \/ UnsubscribeChannel
  \/ \E f \in Feeds : Connect(f) \/ Disconnect(f) \/ TakeMessage(f)

Spec == Init /\ [][Next]_vars

-----------------------------------------------------------------------------
(* Properties.                                                             *)

\* Channels a socket may carry.
ChannelsOf(f) == IF f[2] = "USER" THEN {"USER", "HEARTBEATS"} ELSE Channels \ {"USER"}

\* Every variable has its type, and every channel is asked for on the socket
\* whose handler knows it: the user channel only on the user data socket.
TypeOK ==
  /\ SocketTypeOK
  /\ alive \subseteq Clients
  /\ keys \in BOOLEAN
  /\ call \in [client : Clients \cup {Null}, op : {"none", "subscribe", "unsubscribe"},
               todo : Seq(Channels), step : {"channel", "heartbeats", "send"}, sound : BOOLEAN]
  /\ \A f \in Feeds :
       /\ outbox[f] \in Seq([op : {"subscribe", "unsubscribe"}, channel : ChannelsOf(f)])
       /\ subs[f] \cup held[f] \subseteq ChannelsOf(f)
  /\ {DOMAIN outbox, DOMAIN subs, DOMAIN held} = {Feeds}
  /\ silenced \subseteq Feeds

\* What is on at the exchange or under way to it is what the application may
\* take for subscribed: channels it has subscribed, not unsubscribed, on a
\* connection that it has not itself stopped and whose end it has not been told
\* of, before the call or during it.  A subscription is neither dropped in
\* silence nor carried from one connection into the next.
HeldIsSubscribed ==
  \A f \in Feeds :
    Up(f) => held[f] = Effective(f) \ IF f[2] = "USER" THEN {"HEARTBEATS"} ELSE {}

\* "subscribe heartbeat to keep user channel alive": the user channel is never
\* on without heartbeats, unless the application unsubscribed from heartbeats.
HeartbeatsKeepUser ==
  \A f \in Feeds :
    f[2] = "USER" /\ "USER" \in subs[f] => "HEARTBEATS" \in subs[f] \/ f \in silenced

=============================================================================
