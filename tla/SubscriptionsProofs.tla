------------------------ MODULE SubscriptionsProofs ------------------------
(***************************************************************************)
(* Proofs about Subscriptions, for every set of clients, every choice of   *)
(* feeds, every list of channels and every bound: types, with each channel *)
(* on its own socket, and the heartbeats that keep the user channel.       *)
(***************************************************************************)
EXTENDS Subscriptions, TLAPS

LEMMA FeedIsPair ==
  ASSUME NEW f \in Feeds
  PROVE  f \in Clients \X Kinds /\ f = <<f[1], f[2]>> /\ f[2] \in {"MD", "USER"}
BY DEF Feeds, Kinds

\* The call that is running has a client, a channel to go on with and, once it
\* is past the socket, that socket.
CallShape ==
  /\ call.op = "none" <=> call = NoCall
  /\ call.op # "none" => call.client \in Clients /\ call.todo # <<>>
  /\ call.step # "channel" => call.op = "subscribe" /\ socket \in Feeds
  /\ call.step = "heartbeats" => channel = "USER"

TypeInv == TypeOK /\ CallShape

Messages(f) == [op : {"subscribe", "unsubscribe"}, channel : ChannelsOf(f)]

LEMMA CallTypes ==
  ASSUME TypeInv, call.op # "none"
  PROVE  /\ call.todo \in Seq(Channels) /\ Len(call.todo) \in Nat \ {0}
         /\ channel \in Channels /\ Tail(call.todo) \in Seq(Channels)
         /\ call.client \in Clients
         /\ Len(call.todo) # 1 => Tail(call.todo) # <<>>
<1>1. call.todo \in Seq(Channels) /\ call.todo # <<>> /\ call.client \in Clients
  BY DEF TypeInv, TypeOK, CallShape
<1>2. Head(call.todo) \in Channels /\ Len(call.todo) \in Nat \ {0}
  BY <1>1
<1>3. Tail(call.todo) \in Seq(Channels) /\ Len(Tail(call.todo)) = Len(call.todo) - 1
  BY <1>1
<1>4. ASSUME Tail(call.todo) = <<>> PROVE Len(call.todo) = 1
  <2>0. Len(<<>>) = 0
    OBVIOUS
  <2>1. Len(Tail(call.todo)) = 0
    BY <1>4, <2>0, Zenon
  <2> QED BY <1>2, <1>3, <2>1
<1> QED BY <1>1, <1>2, <1>3, <1>4 DEF channel

LEMMA NoCallTyped ==
  /\ NoCall \in [client : Clients \cup {Null}, op : {"none", "subscribe", "unsubscribe"},
                 todo : Seq(Channels), step : {"channel", "heartbeats", "send"}, sound : BOOLEAN]
  /\ NoCall.op = "none" /\ NoCall.step = "channel"
BY DEF NoCall

LEMMA AdvanceTyped ==
  ASSUME TypeInv, call.op # "none", Advance
  PROVE  /\ call' \in [client : Clients \cup {Null}, op : {"none", "subscribe", "unsubscribe"},
                       todo : Seq(Channels), step : {"channel", "heartbeats", "send"}, sound : BOOLEAN]
         /\ CallShape'
         /\ call'.step = "channel"
<1>1. CASE Len(call.todo) = 1
  <2>1. call' = NoCall
    BY <1>1 DEF Advance
  <2> QED BY <2>1, NoCallTyped DEF CallShape
<1>2. CASE Len(call.todo) # 1
  <2>1. call' = [call EXCEPT !.todo = Tail(call.todo), !.step = "channel", !.sound = TRUE]
    BY <1>2 DEF Advance
  <2>2. call' \in [client : Clients \cup {Null}, op : {"none", "subscribe", "unsubscribe"},
                   todo : Seq(Channels), step : {"channel", "heartbeats", "send"}, sound : BOOLEAN]
    BY <2>1, CallTypes DEF TypeInv, TypeOK
  <2>3. /\ call'.op = call.op /\ call'.client = call.client /\ call'.step = "channel"
        /\ call'.todo = Tail(call.todo)
    BY <2>1 DEF TypeInv, TypeOK
  <2> QED BY <1>2, <2>2, <2>3, CallTypes, NoCallTyped DEF CallShape
<1> QED BY <1>1, <1>2

\* A channel is asked for on the socket whose handler knows it.
LEMMA ChannelFits ==
  ASSUME TypeInv, call.op # "none", socket \in Feeds
  PROVE  channel \in ChannelsOf(socket)
<1>1. socket[2] = IF channel = "USER" THEN "USER" ELSE "MD"
  BY DEF socket, SocketOf
<1> QED BY <1>1, CallTypes DEF ChannelsOf

\* Messages of the right channels keep the outboxes typed.
LEMMA SendTyped ==
  ASSUME TypeInv, NEW F, NEW m, send(F, m), \A f \in F \cap Feeds : m \in Messages(f)
  PROVE  DOMAIN outbox' = Feeds /\ \A f \in Feeds : outbox'[f] \in Seq(Messages(f))
<1>1. DOMAIN outbox' = Feeds
  BY DEF send
<1>2. ASSUME NEW f \in Feeds PROVE outbox'[f] \in Seq(Messages(f))
  <2>1. outbox[f] \in Seq(Messages(f))
    BY DEF TypeInv, TypeOK, Messages
  <2>2. outbox'[f] = IF f \in F /\ Up(f) THEN Append(outbox[f], m) ELSE outbox[f]
    BY DEF send
  <2> QED BY <2>1, <2>2
<1> QED BY <1>1, <1>2

\* So does forgetting a connection.
LEMMA ForgetTyped ==
  ASSUME TypeInv, NEW F, Forget(F)
  PROVE  /\ {DOMAIN outbox', DOMAIN subs', DOMAIN held'} = {Feeds}
         /\ \A f \in Feeds :
              outbox'[f] \in Seq(Messages(f)) /\ subs'[f] \cup held'[f] \subseteq ChannelsOf(f)
         /\ silenced' \subseteq Feeds
<1>1. {DOMAIN outbox', DOMAIN subs', DOMAIN held'} = {Feeds} /\ silenced' \subseteq Feeds
  BY DEF Forget, TypeInv, TypeOK
<1>2. ASSUME NEW f \in Feeds
      PROVE  outbox'[f] \in Seq(Messages(f)) /\ subs'[f] \cup held'[f] \subseteq ChannelsOf(f)
  <2>1. outbox[f] \in Seq(Messages(f)) /\ subs[f] \cup held[f] \subseteq ChannelsOf(f)
    BY DEF TypeInv, TypeOK, Messages
  <2>2. /\ outbox'[f] = IF f \in F THEN <<>> ELSE outbox[f]
        /\ subs'[f] = IF f \in F THEN {} ELSE subs[f]
        /\ held'[f] = IF f \in F THEN {} ELSE held[f]
    BY DEF Forget
  <2> QED BY <2>1, <2>2
<1> QED BY <1>1, <1>2

CallRecords ==
  [client : Clients \cup {Null}, op : {"none", "subscribe", "unsubscribe"},
   todo : Seq(Channels), step : {"channel", "heartbeats", "send"}, sound : BOOLEAN]

\* The messages, sent and taken, are of channels their socket may carry.
MessagesTyped ==
  /\ DOMAIN outbox = Feeds /\ DOMAIN subs = Feeds /\ DOMAIN held = Feeds
  /\ \A f \in Feeds : outbox[f] \in Seq(Messages(f)) /\ subs[f] \cup held[f] \subseteq ChannelsOf(f)
  /\ silenced \subseteq Feeds

LEMMA TypeParts ==
  TypeOK <=> /\ SocketTypeOK /\ alive \subseteq Clients /\ keys \in BOOLEAN
             /\ call \in CallRecords /\ MessagesTyped
BY DEF TypeOK, CallRecords, MessagesTyped, Messages

LEMMA SocketStep ==
  ASSUME SocketTypeOK, NEW F,
         \/ UNCHANGED socketVars \/ Close(F) \/ Detach(F)
         \/ \E f \in Feeds : Open(f) \/ Establish(f) \/ Abandon(f) \/ Shut(f)
  PROVE  SocketTypeOK'
<1> USE SocketAssumption DEF SocketTypeOK, Statuses, NoSeq
<1>1. CASE UNCHANGED socketVars
  BY <1>1 DEF socketVars
<1>2. CASE Close(F)
  BY <1>2 DEF Close
<1>3. CASE Detach(F)
  <2>1. status' \in [Feeds -> Statuses]
    BY <1>3 DEF Detach
  <2>2. opened' \in [Feeds -> BOOLEAN]
    BY <1>3 DEF Detach
  <2> QED BY <1>3, <2>1, <2>2 DEF Detach
<1>4. ASSUME NEW f \in Feeds, Open(f) PROVE SocketTypeOK'
  BY <1>4 DEF Open
<1>5. ASSUME NEW f \in Feeds, Establish(f) \/ Abandon(f) \/ Shut(f) PROVE SocketTypeOK'
  BY <1>5 DEF Establish, Abandon, Shut
<1> QED BY <1>1, <1>2, <1>3, <1>4, <1>5

LEMMA TypeInit == Init => TypeInv
<1> SUFFICES ASSUME Init PROVE TypeInv
  OBVIOUS
<1>1. SocketTypeOK
  BY SocketAssumption DEF Init, SocketInit, SocketTypeOK, Statuses, NoSeq
<1>2. MessagesTyped
  BY DEF Init, MessagesTyped
<1>3. call \in CallRecords /\ CallShape
  BY NoCallTyped DEF Init, CallRecords, CallShape
<1> QED BY <1>1, <1>2, <1>3, TypeParts DEF Init, TypeInv

LEMMA TypeNext == TypeInv /\ [Next]_vars => TypeInv'
<1> SUFFICES ASSUME TypeInv, [Next]_vars PROVE TypeInv'
  OBVIOUS
<1>t. /\ SocketTypeOK /\ alive \subseteq Clients /\ keys \in BOOLEAN
      /\ call \in CallRecords /\ MessagesTyped /\ CallShape
  BY TypeParts DEF TypeInv
<1>k. UNCHANGED call => CallShape' /\ call' \in CallRecords
  BY <1>t DEF CallShape, socket, channel
<1>m. UNCHANGED <<outbox, subs, held, silenced>> => MessagesTyped'
  BY <1>t DEF MessagesTyped
<1>s. UNCHANGED socketVars => SocketTypeOK'
  BY <1>t, SocketStep
<1>q. ASSUME SocketTypeOK', alive' \subseteq Clients, keys' \in BOOLEAN, call' \in CallRecords,
             MessagesTyped', CallShape'
      PROVE  TypeInv'
  BY <1>q DEF TypeInv, TypeOK, CallRecords, MessagesTyped, Messages
<1>n. call = NoCall => call.op = "none" /\ call.step = "channel"
  BY NoCallTyped
<1>1. ASSUME NEW c \in Clients, Construct(c) PROVE TypeInv'
  BY <1>1, <1>t, <1>k, <1>m, <1>s, <1>q DEF Construct, messageVars
<1>2. ASSUME NEW c \in Clients, Destroy(c) PROVE TypeInv'
  <2>1. SocketTypeOK'
    BY <1>2, <1>t, SocketStep DEF Destroy
  <2>2. MessagesTyped'
    BY <1>2, ForgetTyped DEF Destroy, MessagesTyped
  <2> QED BY <1>2, <1>t, <1>k, <1>q, <2>1, <2>2 DEF Destroy
<1>3. ASSUME NEW c \in Clients, stop(c) PROVE TypeInv'
  <2>1. SocketTypeOK'
    BY <1>3, <1>t, SocketStep DEF stop
  <2>2. MessagesTyped'
    BY <1>3, <1>t DEF stop, MessagesTyped
  <2> QED BY <1>3, <1>t, <1>k, <1>q, <2>1, <2>2 DEF stop
<1>4. ASSUME NEW c \in Clients, NEW o \in {"subscribe", "unsubscribe"}, NEW list \in Lists, Begin(c, o, list)
      PROVE  TypeInv'
  <2>1. call' = [client |-> c, op |-> o, todo |-> list, step |-> "channel", sound |-> TRUE]
    BY <1>4 DEF Begin, NoCall
  <2>2. list \in Seq(Channels)
    BY SubscriptionAssumption
  <2>3. call' \in CallRecords
    BY <2>1, <2>2 DEF CallRecords
  <2>4. CallShape'
    <3>1. call'.op # "none" /\ call'.client \in Clients /\ call'.todo # <<>> /\ call'.step = "channel"
      <4>1. list # <<>>
        BY <1>4 DEF Begin
      <4>2. o # "none"
        BY <1>4
      <4> QED BY <1>4, <2>1, <4>1, <4>2
    <3>2. call' # NoCall
      BY <3>1, NoCallTyped
    <3> QED BY <3>1, <3>2 DEF CallShape
  <2> QED BY <1>4, <1>t, <1>m, <1>s, <1>q, <2>3, <2>4 DEF Begin
<1>5. CASE SkipChannel
  BY <1>5, <1>t, <1>m, <1>s, <1>q, AdvanceTyped DEF SkipChannel, CallRecords
<1>6. CASE ReachSocket
  <2>1. SocketTypeOK'
    BY <1>6, <1>t, <1>s, SocketStep DEF ReachSocket
  <2>2. call' \in CallRecords
    BY <1>6, <1>t DEF ReachSocket, CallRecords
  <2>3. /\ call'.op = "subscribe" /\ call'.client = call.client /\ call'.todo = call.todo
        /\ call'.step = "heartbeats" => channel = "USER"
    BY <1>6, <1>t DEF ReachSocket, CallRecords
  <2>4. socket' = socket /\ channel' = channel
    BY <2>3 DEF socket, channel
  <2>5. CallShape'
    BY <1>6, <1>t, <2>3, <2>4, NoCallTyped DEF CallShape, ReachSocket
  <2> QED BY <1>6, <1>t, <1>m, <1>q, <2>1, <2>2, <2>5 DEF ReachSocket
<1>7. CASE Fail
  BY <1>7, <1>t, <1>m, <1>s, <1>q, NoCallTyped DEF Fail, CallShape, CallRecords
<1>8. CASE SendHeartbeats
  <2>1. socket \in Feeds /\ channel = "USER" /\ call.op = "subscribe"
    BY <1>8, <1>t DEF SendHeartbeats, CallShape
  <2>2. Message("subscribe", "HEARTBEATS") \in Messages(socket)
    BY <2>1 DEF Message, Messages, ChannelsOf, socket, SocketOf
  <2>3. MessagesTyped'
    BY <1>8, <1>t, <2>2, SendTyped DEF SendHeartbeats, MessagesTyped
  <2>4. /\ call' \in CallRecords
        /\ call'.op = "subscribe" /\ call'.client = call.client /\ call'.todo = call.todo
        /\ call'.step = "send"
    BY <1>8, <1>t, <2>1 DEF SendHeartbeats, CallRecords
  <2>5. CallShape'
    BY <1>t, <2>1, <2>4, NoCallTyped DEF CallShape, socket, channel
  <2> QED BY <1>8, <1>t, <1>s, <1>q, <2>3, <2>4, <2>5 DEF SendHeartbeats
<1>9. CASE SendChannel
  <2>1. socket \in Feeds /\ call.op = "subscribe"
    BY <1>9, <1>t DEF SendChannel, CallShape
  <2>2. channel \in ChannelsOf(socket)
    BY <2>1, ChannelFits
  <2>3. Message("subscribe", channel) \in Messages(socket)
    BY <2>2 DEF Message, Messages
  <2>4. DOMAIN outbox' = Feeds /\ \A f \in Feeds : outbox'[f] \in Seq(Messages(f))
    BY <1>9, <2>3, SendTyped DEF SendChannel
  <2>5. MessagesTyped'
    BY <1>9, <1>t, <2>1, <2>2, <2>4 DEF SendChannel, MessagesTyped
  <2> QED BY <1>9, <1>t, <1>s, <1>q, <2>1, <2>5, AdvanceTyped DEF SendChannel, CallRecords
<1>10. CASE UnsubscribeChannel
  <2>1. socket \in Feeds /\ call.op = "unsubscribe"
    BY <1>10 DEF UnsubscribeChannel
  <2>2. channel \in ChannelsOf(socket)
    BY <2>1, ChannelFits
  <2>3. \A f \in Silences \cap Feeds : Message("unsubscribe", channel) \in Messages(f)
    BY <2>2 DEF Message, Messages, Silences, ChannelsOf
  <2>4. DOMAIN outbox' = Feeds /\ \A f \in Feeds : outbox'[f] \in Seq(Messages(f))
    BY <1>10, <2>3, SendTyped DEF UnsubscribeChannel
  <2>5. Silences \subseteq Feeds
    BY <2>1 DEF Silences
  <2>6. MessagesTyped'
    BY <1>10, <1>t, <2>1, <2>2, <2>4, <2>5 DEF UnsubscribeChannel, MessagesTyped
  <2> QED BY <1>10, <1>t, <1>s, <1>q, <2>1, <2>6, AdvanceTyped DEF UnsubscribeChannel, CallRecords
<1>11. ASSUME NEW f \in Feeds, Connect(f) PROVE TypeInv'
  BY <1>11, <1>t, <1>k, <1>m, <1>q, SocketStep DEF Connect, messageVars
<1>12. ASSUME NEW f \in Feeds, Disconnect(f) PROVE TypeInv'
  <2>1. SocketTypeOK'
    BY <1>12, <1>t, SocketStep DEF Disconnect
  <2>2. MessagesTyped'
    BY <1>12, ForgetTyped DEF Disconnect, MessagesTyped
  <2>3. call' \in CallRecords /\ CallShape'
    <3>1. CASE UNCHANGED call
      BY <3>1, <1>k
    <3>2. CASE call # NoCall /\ call' = [call EXCEPT !.sound = FALSE]
      <4>1. /\ call' \in CallRecords /\ call'.op = call.op /\ call'.client = call.client
            /\ call'.todo = call.todo /\ call'.step = call.step
        BY <3>2, <1>t DEF CallRecords
      <4> QED BY <3>2, <4>1, <1>t, NoCallTyped DEF CallShape, socket, channel
    <3> QED BY <1>12, <3>1, <3>2 DEF Disconnect
  <2> QED BY <1>12, <1>t, <1>q, <2>1, <2>2, <2>3 DEF Disconnect
<1>13. ASSUME NEW f \in Feeds, TakeMessage(f) PROVE TypeInv'
  <2>1. outbox[f] \in Seq(Messages(f)) /\ outbox[f] # <<>>
    BY <1>13, <1>t DEF TakeMessage, MessagesTyped
  <2>2. Head(outbox[f]) \in Messages(f) /\ Tail(outbox[f]) \in Seq(Messages(f))
    BY <2>1
  <2>3. Taken(subs[f], Head(outbox[f])) \subseteq ChannelsOf(f)
    BY <2>2, <1>t DEF Taken, Messages, MessagesTyped
  <2>4. MessagesTyped'
    BY <1>13, <1>t, <2>2, <2>3 DEF TakeMessage, MessagesTyped
  <2> QED BY <1>13, <1>t, <1>k, <1>s, <1>q, <2>4 DEF TakeMessage
<1>14. CASE UNCHANGED vars
  BY <1>14, <1>t, <1>k, <1>m, <1>s, <1>q DEF vars, messageVars
<1> QED BY <1>1, <1>2, <1>3, <1>4, <1>5, <1>6, <1>7, <1>8, <1>9, <1>10, <1>11, <1>12, <1>13, <1>14
        DEF Next

\* Types hold, and every channel is asked for on the socket whose handler knows
\* it, for any clients and any lists of channels.
THEOREM TypeCorrect == Spec => []TypeOK
<1>1. TypeInv => TypeOK
  BY DEF TypeInv
<1> QED BY TypeInit, TypeNext, <1>1, PTL DEF Spec

-----------------------------------------------------------------------------
(* Heartbeats keep the user channel.                                       *)

UserFeeds == {f \in Feeds : f[2] = "USER"}

Beat == Message("subscribe", "HEARTBEATS")
Mute == Message("unsubscribe", "HEARTBEATS")
User == Message("subscribe", "USER")

\* Heartbeats are on, or asked for by one of the first n messages under way.
BeatBy(f, n) == "HEARTBEATS" \in subs[f] \/ \E j \in DOMAIN outbox[f] : j <= n /\ outbox[f][j] = Beat

\* The user channel is never ahead of the heartbeats, which are not turned off.
Kept(f) ==
  /\ "USER" \in subs[f] => "HEARTBEATS" \in subs[f]
  /\ \A i \in DOMAIN outbox[f] : outbox[f][i] = User => BeatBy(f, i)
  /\ \A i \in DOMAIN outbox[f] : outbox[f][i] # Mute

\* The call has opened the socket of f and not asked for the heartbeats yet.
Owing(f) == call.step = "heartbeats" /\ socket = f

\* A socket that is up has its heartbeats, once its opening is complete.
Ready(f) == Up(f) /\ keys /\ ~Owing(f) => BeatBy(f, Len(outbox[f]))

BeatInv == \A f \in UserFeeds : f \notin silenced => Kept(f) /\ Ready(f)

LEMMA Distinct == Beat # Mute /\ Beat # User /\ User # Mute
  BY DEF Beat, Mute, User, Message

LEMMA UserFeed ==
  ASSUME NEW f \in UserFeeds
  PROVE  f \in Feeds /\ f[2] = "USER" /\ (socket = f => channel = "USER")
BY DEF UserFeeds, socket, SocketOf

\* A step that leaves the messages of f alone.
LEMMA BeatQuiet ==
  ASSUME NEW f \in UserFeeds, f \notin silenced => Kept(f) /\ Ready(f),
         outbox'[f] = outbox[f], subs'[f] = subs[f], keys' = keys,
         f \in silenced => f \in silenced', Up(f)' => Up(f),
         Up(f)' /\ keys /\ Owing(f) => Owing(f)'
  PROVE  f \notin silenced' => Kept(f)' /\ Ready(f)'
<1>1. \A n : BeatBy(f, n)' <=> BeatBy(f, n)
  BY DEF BeatBy
<1>2. Kept(f) => Kept(f)'
  BY <1>1 DEF Kept
<1>3. Ready(f) => Ready(f)'
  BY <1>1 DEF Ready
<1> QED BY <1>2, <1>3

\* One more message for f.
LEMMA BeatSend ==
  ASSUME NEW f \in UserFeeds, Kept(f), MessagesTyped, NEW m, outbox'[f] = Append(outbox[f], m),
         subs'[f] = subs[f], m # Mute, m = User => BeatBy(f, Len(outbox[f]))
  PROVE  /\ Kept(f)'
         /\ BeatBy(f, Len(outbox[f])) \/ m = Beat => BeatBy(f, Len(outbox[f]))'
<1> DEFINE n == Len(outbox[f])
<1>1. /\ n \in Nat /\ DOMAIN outbox[f] = 1..n
      /\ Len(outbox'[f]) = n + 1 /\ DOMAIN outbox'[f] = 1..(n + 1)
      /\ outbox'[f][n + 1] = m /\ \A i \in 1..n : outbox'[f][i] = outbox[f][i]
  <2>1. outbox[f] \in Seq(Messages(f))
    BY UserFeed DEF MessagesTyped
  <2> QED BY <2>1
<1>2. ASSUME NEW i \in 1..n, BeatBy(f, i) PROVE BeatBy(f, i)' /\ \A k \in Nat : i <= k => BeatBy(f, k)'
  BY <1>1, <1>2 DEF BeatBy
<1>3. BeatBy(f, n) => \A k \in Nat : n <= k => BeatBy(f, k)'
  BY <1>1 DEF BeatBy
<1>4. \A i \in DOMAIN outbox'[f] : outbox'[f][i] = User => BeatBy(f, i)'
  <2> SUFFICES ASSUME NEW i \in 1..(n + 1), outbox'[f][i] = User PROVE BeatBy(f, i)'
    BY <1>1
  <2>1. CASE i \in 1..n
    BY <2>1, <1>1, <1>2 DEF Kept
  <2>2. CASE i = n + 1
    BY <2>2, <1>1, <1>3
  <2> QED BY <2>1, <2>2, <1>1
<1>5. \A i \in DOMAIN outbox'[f] : outbox'[f][i] # Mute
  BY <1>1 DEF Kept
<1>6. Kept(f)'
  BY <1>4, <1>5 DEF Kept
<1>7. BeatBy(f, n) \/ m = Beat => BeatBy(f, Len(outbox[f]))'
  BY <1>1, <1>3 DEF BeatBy
<1> QED BY <1>6, <1>7

\* The exchange takes a message.
LEMMA BeatTake ==
  ASSUME NEW f \in UserFeeds, Kept(f), Ready(f), MessagesTyped, TakeMessage(f)
  PROVE  Kept(f)' /\ Ready(f)'
<1> DEFINE n == Len(outbox[f])
           m == Head(outbox[f])
<1>1. /\ n \in Nat /\ n > 0 /\ DOMAIN outbox[f] = 1..n /\ m = outbox[f][1]
      /\ outbox'[f] = Tail(outbox[f])
      /\ Len(outbox'[f]) = n - 1 /\ DOMAIN outbox'[f] = 1..(n - 1)
      /\ \A i \in 1..(n - 1) : outbox'[f][i] = outbox[f][i + 1]
      /\ subs'[f] = Taken(subs[f], m)
  <2>1. outbox[f] \in Seq(Messages(f)) /\ outbox[f] # <<>> /\ f \in DOMAIN outbox /\ f \in DOMAIN subs
    BY UserFeed DEF MessagesTyped, TakeMessage
  <2> QED BY <2>1 DEF TakeMessage
<1>2. m \in Messages(f) /\ m # Mute
  <2>1. outbox[f] \in Seq(Messages(f)) /\ 1 \in DOMAIN outbox[f]
    BY <1>1, UserFeed DEF MessagesTyped
  <2> QED BY <2>1, <1>1 DEF Kept
<1>3. m.channel = "HEARTBEATS" => m = Beat
  BY <1>2 DEF Messages, Mute, Beat, Message
<1>4. "HEARTBEATS" \in subs[f] \/ m = Beat => "HEARTBEATS" \in subs'[f]
  BY <1>1, <1>2, <1>3 DEF Taken, Beat, Message
<1>5. "USER" \in subs'[f] => "USER" \in subs[f] \/ m = User
  BY <1>1, <1>2 DEF Taken, User, Message, Messages
<1>6. m = User => "HEARTBEATS" \in subs[f]
  BY <1>1, Distinct DEF Kept, BeatBy
<1>7. "USER" \in subs'[f] => "HEARTBEATS" \in subs'[f]
  BY <1>4, <1>5, <1>6 DEF Kept
<1>8. ASSUME NEW i \in 1..n, BeatBy(f, i) PROVE BeatBy(f, i - 1)'
  <2>1. CASE "HEARTBEATS" \in subs[f]
    BY <2>1, <1>4 DEF BeatBy
  <2>2. CASE \E j \in DOMAIN outbox[f] : j <= i /\ outbox[f][j] = Beat
    <3>1. PICK j \in 1..n : j <= i /\ outbox[f][j] = Beat
      BY <2>2, <1>1
    <3>2. CASE j = 1
      BY <3>1, <3>2, <1>1, <1>4 DEF BeatBy
    <3>3. CASE j # 1
      <4>1. j - 1 \in DOMAIN outbox'[f] /\ outbox'[f][j - 1] = Beat /\ j - 1 <= i - 1
        BY <3>1, <3>3, <1>1
      <4>2. PICK h : h = i - 1
        OBVIOUS
      <4>3. BeatBy(f, h)'
        BY <4>1, <4>2 DEF BeatBy
      <4> QED BY <4>2, <4>3
    <3> QED BY <3>2, <3>3
  <2> QED BY <1>8, <2>1, <2>2 DEF BeatBy
<1>9. \A i \in DOMAIN outbox'[f] : outbox'[f][i] = User => BeatBy(f, i)'
  <2> SUFFICES ASSUME NEW i \in 1..(n - 1), outbox'[f][i] = User PROVE BeatBy(f, i)'
    BY <1>1
  <2>1. i + 1 \in 1..n /\ outbox[f][i + 1] = User
    BY <1>1
  <2>2. BeatBy(f, i + 1)
    BY <2>1, <1>1 DEF Kept
  <2>3. BeatBy(f, (i + 1) - 1)'
    BY <2>1, <2>2, <1>8
  <2>4. (i + 1) - 1 = i
    OBVIOUS
  <2> QED BY <2>3, <2>4
<1>10. \A i \in DOMAIN outbox'[f] : outbox'[f][i] # Mute
  BY <1>1 DEF Kept
<1>11. Kept(f)'
  BY <1>7, <1>9, <1>10 DEF Kept
<1>12. Ready(f)'
  <2>1. BeatBy(f, n) => BeatBy(f, Len(outbox[f]))'
    <3> SUFFICES ASSUME BeatBy(f, n) PROVE BeatBy(f, Len(outbox[f]))'
      OBVIOUS
    <3>1. PICK k \in 1..n : k = n
      BY <1>1
    <3>2. BeatBy(f, k - 1)'
      BY <3>1, <1>8
    <3>3. Len(outbox'[f]) = k - 1
      BY <1>1, <3>1
    <3> QED BY <3>2, <3>3 DEF BeatBy
  <2>2. (Up(f)' <=> Up(f)) /\ (Owing(f)' <=> Owing(f)) /\ keys' = keys
    BY DEF TakeMessage, socketVars, Up, Owing, socket, channel
  <2> QED BY <2>1, <2>2 DEF Ready
<1> QED BY <1>11, <1>12

\* What send() does to the outbox of one feed.
LEMMA SendOne ==
  ASSUME NEW F, NEW m, send(F, m), NEW f \in Feeds
  PROVE  outbox'[f] = IF f \in F /\ Up(f) THEN Append(outbox[f], m) ELSE outbox[f]
BY DEF send

LEMMA BeatNext == TypeInv /\ BeatInv /\ [Next]_vars => BeatInv'
<1> SUFFICES ASSUME TypeInv, BeatInv, [Next]_vars, NEW f \in UserFeeds
             PROVE  f \notin silenced' => Kept(f)' /\ Ready(f)'
  BY DEF BeatInv, UserFeeds, Feeds
<1>f. f \in Feeds /\ f[2] = "USER" /\ (socket = f => channel = "USER")
  BY UserFeed
<1>t. MessagesTyped /\ CallShape /\ (f \notin silenced => Kept(f) /\ Ready(f))
  BY TypeParts DEF TypeInv, BeatInv
<1>n. call = NoCall => ~Owing(f)
  BY NoCallTyped DEF Owing
<1>1. ASSUME NEW c \in Clients, Construct(c) PROVE f \notin silenced' => Kept(f)' /\ Ready(f)'
  BY <1>1, <1>t, <1>n, BeatQuiet DEF Construct, messageVars, socketVars, Up
<1>2. ASSUME NEW c \in Clients, Destroy(c) PROVE f \notin silenced' => Kept(f)' /\ Ready(f)'
  <2>1. CASE f \in FeedsOf(c)
    BY <2>1, <1>2, <1>f DEF Destroy, Detach, Forget, Kept, Ready, Up
  <2>2. CASE f \notin FeedsOf(c)
    <3>1. /\ outbox'[f] = outbox[f] /\ subs'[f] = subs[f] /\ keys' = keys
          /\ f \in silenced => f \in silenced'
      BY <2>2, <1>2, <1>f DEF Destroy, Detach, Forget
    <3>2. status'[f] = status[f]
      BY <2>2, <1>2, <1>f DEF Destroy, Detach
    <3> QED BY <1>2, <1>t, <1>n, <3>1, <3>2, BeatQuiet DEF Destroy, Up
  <2> QED BY <2>1, <2>2
<1>3. ASSUME NEW c \in Clients, stop(c) PROVE f \notin silenced' => Kept(f)' /\ Ready(f)'
  <2>1. Up(f)' => Up(f)
    BY <1>3, <1>f DEF stop, Close, Up
  <2> QED BY <1>3, <2>1, <1>t, <1>n, BeatQuiet DEF stop
<1>4. ASSUME NEW c \in Clients, NEW o, NEW list, Begin(c, o, list)
      PROVE  f \notin silenced' => Kept(f)' /\ Ready(f)'
  BY <1>4, <1>t, <1>n, BeatQuiet DEF Begin, socketVars, Up
<1>5. CASE SkipChannel
  BY <1>5, <1>t, BeatQuiet DEF SkipChannel, socketVars, Up, Owing
<1>6. CASE ReachSocket
  <2>1. /\ outbox' = outbox /\ subs' = subs /\ keys' = keys /\ silenced' = silenced
        /\ call.step = "channel" /\ socket \in Feeds
    BY <1>6 DEF ReachSocket
  <2>2. CASE Up(f)' => Up(f)
    BY <2>1, <2>2, <1>t, BeatQuiet DEF Owing
  <2>3. CASE Up(f)' /\ ~Up(f)
    <3>1. f = socket
      BY <1>6, <1>f, <2>3 DEF ReachSocket, Open, Up, socketVars, TypeInv, TypeOK, SocketTypeOK
    <3>2. call' = [call EXCEPT !.sound = status[socket] # "DISCONNECTING", !.step = "heartbeats"]
      BY <1>6, <1>f, <2>3, <3>1 DEF ReachSocket
    <3>3. call'.step = "heartbeats" /\ call'.client = call.client /\ call'.todo = call.todo
      BY <3>2, <1>t, TypeParts DEF TypeInv, CallRecords
    <3>4. Owing(f)'
      BY <3>1, <3>3 DEF Owing, socket, channel
    <3>5. Kept(f) => Kept(f)'
      BY <2>1 DEF Kept, BeatBy
    <3> QED BY <1>t, <2>1, <3>4, <3>5 DEF Ready
  <2> QED BY <2>2, <2>3
<1>7. CASE Fail
  BY <1>7, <1>t, BeatQuiet DEF Fail, socketVars, Up
<1>8. CASE SendHeartbeats
  <2>1. /\ send({socket}, Beat) /\ subs' = subs /\ keys' = keys /\ silenced' = silenced
        /\ Up(f)' <=> Up(f)
    BY <1>8 DEF SendHeartbeats, Beat, socketVars, Up
  <2>2. CASE f = socket /\ Up(f)
    <3>1. outbox'[f] = Append(outbox[f], Beat)
      BY <2>1, <2>2, <1>f, SendOne
    <3>2. f \notin silenced => Kept(f)' /\ BeatBy(f, Len(outbox[f]))'
      BY <1>t, <2>1, <3>1, Distinct, BeatSend
    <3> QED BY <2>1, <3>2 DEF Ready
  <2>3. CASE ~(f = socket /\ Up(f))
    <3>1. outbox'[f] = outbox[f]
      BY <2>1, <2>3, <1>f, SendOne
    <3> QED BY <1>t, <2>1, <2>3, <3>1, BeatQuiet DEF Owing
  <2> QED BY <2>2, <2>3
<1>9. CASE SendChannel
  <2>1. /\ send({socket}, Message("subscribe", channel)) /\ subs' = subs /\ keys' = keys
        /\ silenced' = silenced
        /\ Up(f)' <=> Up(f)
        /\ ~Owing(f) /\ (channel = "USER" => keys)
    BY <1>9 DEF SendChannel, socketVars, Up, Owing
  <2>2. ~Owing(f)'
    <3>1. call'.step = "channel"
      BY <1>9, AdvanceTyped DEF SendChannel
    <3> QED BY <3>1 DEF Owing
  <2>3. CASE f = socket /\ Up(f)
    <3>1. outbox'[f] = Append(outbox[f], User)
      BY <2>1, <2>3, <1>f, SendOne DEF User
    <3>2. f \notin silenced => BeatBy(f, Len(outbox[f]))
      BY <2>1, <2>3, <1>f, <1>t DEF Ready
    <3>3. f \notin silenced => Kept(f)' /\ BeatBy(f, Len(outbox[f]))'
      BY <1>t, <2>1, <3>1, <3>2, Distinct, BeatSend
    <3> QED BY <2>1, <3>3 DEF Ready
  <2>4. CASE ~(f = socket /\ Up(f))
    <3>1. outbox'[f] = outbox[f]
      BY <2>1, <2>4, <1>f, SendOne
    <3> QED BY <1>t, <2>1, <3>1, BeatQuiet
  <2> QED BY <2>3, <2>4
<1>10. CASE UnsubscribeChannel
  <2>1. /\ send(Silences, Message("unsubscribe", channel)) /\ subs' = subs /\ keys' = keys
        /\ Up(f)' <=> Up(f)
        /\ silenced' = silenced \cup {g \in Silences : channel = "HEARTBEATS" /\ g[2] = "USER" /\ Up(g)}
        /\ call.op = "unsubscribe"
    BY <1>10 DEF UnsubscribeChannel, socketVars, Up
  <2>2. ~Owing(f)
    BY <1>t, <2>1 DEF CallShape, Owing
  <2>3. CASE f \in Silences /\ Up(f)
    <3>1. CASE channel = "HEARTBEATS"
      BY <2>1, <2>3, <3>1, <1>f
    <3>2. CASE channel # "HEARTBEATS"
      <4>1. outbox'[f] = Append(outbox[f], Message("unsubscribe", channel))
        BY <2>1, <2>3, <1>f, SendOne
      <4>2. Message("unsubscribe", channel) # Mute /\ Message("unsubscribe", channel) # User
        BY <3>2 DEF Mute, User, Message
      <4>3. f \notin silenced =>
              Kept(f)' /\ (BeatBy(f, Len(outbox[f])) => BeatBy(f, Len(outbox[f]))')
        BY <1>t, <2>1, <4>1, <4>2, BeatSend
      <4> QED BY <1>t, <2>1, <2>2, <4>3 DEF Ready
    <3> QED BY <3>1, <3>2
  <2>4. CASE ~(f \in Silences /\ Up(f))
    <3>1. outbox'[f] = outbox[f]
      BY <2>1, <2>4, <1>f, SendOne
    <3> QED BY <1>t, <2>1, <2>2, <3>1, BeatQuiet
  <2> QED BY <2>3, <2>4
<1>11. ASSUME NEW g \in Feeds, Connect(g) PROVE f \notin silenced' => Kept(f)' /\ Ready(f)'
  <2>1. Up(f)' => Up(f)
    BY <1>11, <1>f DEF Connect, Establish, Up, TypeInv, TypeOK, SocketTypeOK
  <2>2. Owing(f)' <=> Owing(f)
    BY <1>11 DEF Connect, messageVars, Owing, socket, channel
  <2> QED BY <1>11, <2>1, <2>2, <1>t, BeatQuiet DEF Connect, messageVars
<1>12. ASSUME NEW g \in Feeds, Disconnect(g) PROVE f \notin silenced' => Kept(f)' /\ Ready(f)'
  <2>1. CASE g = f
    <3>1. status'[f] = "DISCONNECTED"
      BY <1>12, <2>1, <1>f DEF Disconnect, Shut, Abandon, TypeInv, TypeOK, SocketTypeOK
    <3> QED BY <1>12, <2>1, <3>1, <1>f DEF Disconnect, Forget, Kept, Ready, Up
  <2>2. CASE g # f
    <3>1. outbox'[f] = outbox[f] /\ subs'[f] = subs[f] /\ (f \in silenced => f \in silenced')
      BY <1>12, <2>2, <1>f DEF Disconnect, Forget
    <3>2. status'[f] = status[f]
      BY <1>12, <2>2, <1>f DEF Disconnect, Shut, Abandon, TypeInv, TypeOK, SocketTypeOK
    <3>3. Owing(f)' <=> Owing(f)
      <4>1. call'.step = call.step /\ call'.client = call.client /\ call'.todo = call.todo
        BY <1>12, TypeParts DEF Disconnect, TypeInv, CallRecords
      <4> QED BY <4>1 DEF Owing, socket, channel
    <3> QED BY <1>12, <1>t, <3>1, <3>2, <3>3, BeatQuiet DEF Disconnect, Up
  <2> QED BY <2>1, <2>2
<1>13. ASSUME NEW g \in Feeds, TakeMessage(g) PROVE f \notin silenced' => Kept(f)' /\ Ready(f)'
  <2>1. CASE g = f
    BY <1>13, <2>1, <1>t, BeatTake DEF TakeMessage
  <2>2. CASE g # f
    <3>1. /\ outbox'[f] = outbox[f] /\ subs'[f] = subs[f]
      BY <1>13, <2>2, <1>f, <1>t DEF TakeMessage, MessagesTyped
    <3>2. Owing(f)' <=> Owing(f)
      BY <1>13 DEF TakeMessage, Owing, socket, channel
    <3> QED BY <1>13, <1>t, <3>1, <3>2, BeatQuiet DEF TakeMessage, socketVars, Up
  <2> QED BY <2>1, <2>2
<1>14. CASE UNCHANGED vars
  <2>1. Owing(f)' <=> Owing(f)
    BY <1>14 DEF vars, messageVars, Owing, socket, channel
  <2> QED BY <1>14, <2>1, <1>t, BeatQuiet DEF vars, messageVars, socketVars, Up
<1> QED BY <1>1, <1>2, <1>3, <1>4, <1>5, <1>6, <1>7, <1>8, <1>9, <1>10, <1>11, <1>12, <1>13, <1>14
        DEF Next

\* The user channel is never on without the heartbeats that keep it, unless the
\* application has turned them off: in whatever order messages are sent and
\* taken, sockets go down, and signatures fail.
THEOREM HeartbeatsKeepUserCorrect == Spec => []HeartbeatsKeepUser
<1>1. Init => BeatInv
  BY DEF Init, SocketInit, BeatInv, UserFeeds, Kept, Ready, Up
<1>2. BeatInv => HeartbeatsKeepUser
  BY DEF BeatInv, UserFeeds, Kept, HeartbeatsKeepUser
<1> QED BY <1>1, <1>2, TypeInit, TypeNext, BeatNext, PTL DEF Spec

-----------------------------------------------------------------------------
(* What is held is subscribed.                                             *)

\* What keeps HeldIsSubscribed: a socket that is down carries nothing, and a
\* call past the test of status() knows whether its socket is still up.
HeldInv ==
  /\ HeldIsSubscribed
  /\ \A f \in Feeds : status[f] = "DISCONNECTED" => outbox[f] = <<>> /\ subs[f] = {} /\ held[f] = {}
  /\ call.step # "channel" => (call.sound <=> Up(socket))

\* HeldInv of one feed.
HeldOf(f) ==
  /\ Up(f) => held[f] = Effective(f) \ IF f[2] = "USER" THEN {"HEARTBEATS"} ELSE {}
  /\ status[f] = "DISCONNECTED" => outbox[f] = <<>> /\ subs[f] = {} /\ held[f] = {}

SoundIsUp == call.step # "channel" => (call.sound <=> Up(socket))

LEMMA HeldParts == HeldInv <=> SoundIsUp /\ \A f \in Feeds : HeldOf(f)
BY DEF HeldInv, HeldOf, SoundIsUp, HeldIsSubscribed

\* The places of an outbox.
LEMMA OutboxAt ==
  ASSUME MessagesTyped, NEW f \in Feeds
  PROVE  /\ outbox[f] \in Seq(Messages(f)) /\ Len(outbox[f]) \in Nat
         /\ DOMAIN outbox[f] = 1..Len(outbox[f])
         /\ \A i \in DOMAIN outbox[f] : outbox[f][i] \in Messages(f)
<1>1. outbox[f] \in Seq(Messages(f))
  BY DEF MessagesTyped
<1> QED BY <1>1

LEMMA MessageIs ==
  ASSUME NEW f \in Feeds, NEW m \in Messages(f)
  PROVE  /\ m.channel \in Channels /\ m.op \in {"subscribe", "unsubscribe"}
         /\ \A name : m = Message("subscribe", name) <=> m.op = "subscribe" /\ m.channel = name
<1>1. ChannelsOf(f) \subseteq Channels
  BY DEF ChannelsOf, Channels
<1> QED BY <1>1 DEF Messages, Message

\* A message that is sent takes effect after all that are under way.
LEMMA EffectiveSend ==
  ASSUME MessagesTyped, NEW f \in Feeds, NEW m \in Messages(f),
         outbox'[f] = Append(outbox[f], m), subs'[f] = subs[f]
  PROVE  Effective(f)' = Taken(Effective(f), m)
<1>0. PICK n : n = Len(outbox[f])
  OBVIOUS
<1>1. /\ n \in Nat /\ DOMAIN outbox[f] = 1..n /\ DOMAIN outbox'[f] = 1..(n + 1)
      /\ outbox'[f][n + 1] = m /\ \A i \in 1..n : outbox'[f][i] = outbox[f][i]
  BY <1>0, OutboxAt
<1>2. ASSUME NEW name, NEW i \in 1..(n + 1)
      PROVE  Quiet(f, i, name)' <=> Quiet(f, i, name) /\ m.channel # name
  <2>1. Quiet(f, i, name)' <=> \A j \in 1..(n + 1) : j >= i => outbox'[f][j].channel # name
    BY <1>1 DEF Quiet
  <2>2. Quiet(f, i, name) <=> \A j \in 1..n : j >= i => outbox[f][j].channel # name
    BY <1>1 DEF Quiet
  <2>3. n + 1 \in 1..(n + 1) /\ n + 1 >= i
    BY <1>1
  <2>4. \A j \in 1..(n + 1) : j \in 1..n \/ j = n + 1
    BY <1>1
  <2> QED BY <1>1, <2>1, <2>2, <2>3, <2>4
<1>3. ASSUME NEW name \in Channels
      PROVE  name \in Effective(f)' <=> IF m.channel = name THEN m.op = "subscribe"
                                        ELSE name \in Effective(f)
  <2>1. name \in Effective(f)' <=>
          \/ \E i \in 1..(n + 1) : outbox'[f][i] = Message("subscribe", name) /\ Quiet(f, i + 1, name)'
          \/ name \in subs[f] /\ Quiet(f, 1, name)'
    BY <1>1 DEF Effective
  <2>2. name \in Effective(f) <=>
          \/ \E i \in 1..n : outbox[f][i] = Message("subscribe", name) /\ Quiet(f, i + 1, name)
          \/ name \in subs[f] /\ Quiet(f, 1, name)
    BY <1>1 DEF Effective
  <2>3. Quiet(f, n + 2, name)'
    BY <1>1 DEF Quiet
  <2>4. \A i \in 1..n : Quiet(f, i + 1, name)' <=> Quiet(f, i + 1, name) /\ m.channel # name
    <3> SUFFICES ASSUME NEW i \in 1..n
                 PROVE  Quiet(f, i + 1, name)' <=> Quiet(f, i + 1, name) /\ m.channel # name
      OBVIOUS
    <3>1. PICK k \in 1..(n + 1) : k = i + 1
      BY <1>1
    <3>2. Quiet(f, k, name)' <=> Quiet(f, k, name) /\ m.channel # name
      BY <1>2
    <3> QED BY <3>1, <3>2
  <2>5. Quiet(f, 1, name)' <=> Quiet(f, 1, name) /\ m.channel # name
    BY <1>1, <1>2
  <2>6. CASE m.channel = name
    <3>1. (n + 1) + 1 = n + 2 /\ n + 1 \in 1..(n + 1)
      BY <1>1
    <3>2. m = Message("subscribe", name) <=> m.op = "subscribe"
      BY <2>6, MessageIs
    <3>3. ASSUME m.op = "subscribe" PROVE name \in Effective(f)'
      BY <1>1, <2>1, <2>3, <3>1, <3>2, <3>3
    <3>4. ASSUME name \in Effective(f)' PROVE m.op = "subscribe"
      <4>1. PICK i \in 1..(n + 1) : outbox'[f][i] = Message("subscribe", name) /\ Quiet(f, i + 1, name)'
        BY <2>1, <2>5, <2>6, <3>4
      <4>2. i = n + 1
        BY <1>1, <2>4, <2>6, <4>1
      <4> QED BY <1>1, <3>2, <4>1, <4>2
    <3> QED BY <2>6, <3>3, <3>4
  <2>7. CASE m.channel # name
    <3>1. m # Message("subscribe", name)
      BY <2>7, MessageIs
    <3>2. \A i \in 1..(n + 1) : i \in 1..n \/ i = n + 1
      BY <1>1
    <3>3. \A i \in 1..n : i \in 1..(n + 1)
      BY <1>1
    <3> QED BY <1>1, <2>1, <2>2, <2>4, <2>5, <2>7, <3>1, <3>2, <3>3
  <2> QED BY <2>6, <2>7
<1>4. Effective(f) \subseteq Channels /\ Effective(f)' \subseteq Channels
  BY DEF Effective
<1>5. m.channel \in Channels /\ m.op \in {"subscribe", "unsubscribe"}
  BY MessageIs
<1> QED BY <1>3, <1>4, <1>5 DEF Taken

\* Taking the first message changes nothing of the effect of them all.
LEMMA EffectiveTake ==
  ASSUME MessagesTyped, NEW f \in Feeds, TakeMessage(f)
  PROVE  Effective(f)' = Effective(f)
<1> DEFINE n == Len(outbox[f])
           m == Head(outbox[f])
<1>1. /\ n \in Nat /\ n > 0 /\ DOMAIN outbox[f] = 1..n /\ m = outbox[f][1] /\ m \in Messages(f)
      /\ DOMAIN outbox'[f] = 1..(n - 1)
      /\ \A i \in 1..(n - 1) : outbox'[f][i] = outbox[f][i + 1]
      /\ subs'[f] = Taken(subs[f], m)
  <2>1. outbox[f] \in Seq(Messages(f)) /\ outbox[f] # <<>> /\ f \in DOMAIN outbox /\ f \in DOMAIN subs
    BY DEF MessagesTyped, TakeMessage
  <2>2. outbox'[f] = Tail(outbox[f]) /\ subs'[f] = Taken(subs[f], m)
    BY <2>1 DEF TakeMessage
  <2> QED BY <2>1, <2>2
<1> HIDE DEF n, m
<1>2. ASSUME NEW name, NEW i \in 1..n PROVE Quiet(f, i, name)' <=> Quiet(f, i + 1, name)
  <2>1. Quiet(f, i, name)' <=> \A j \in 1..(n - 1) : j >= i => outbox[f][j + 1].channel # name
    BY <1>1 DEF Quiet
  <2>2. Quiet(f, i + 1, name) <=> \A j \in 1..n : j >= i + 1 => outbox[f][j].channel # name
    BY <1>1 DEF Quiet
  <2>3. \A j \in 1..(n - 1) : j + 1 \in 1..n /\ (j >= i => j + 1 >= i + 1)
    BY <1>1
  <2>4. \A j \in 1..n : j >= i + 1 => j - 1 \in 1..(n - 1) /\ j - 1 >= i /\ (j - 1) + 1 = j
    BY <1>1
  <2>5. ASSUME Quiet(f, i, name)', NEW j \in 1..n, j >= i + 1 PROVE outbox[f][j].channel # name
    <3>1. PICK k \in 1..(n - 1) : k >= i /\ k + 1 = j
      BY <2>4, <2>5
    <3>2. outbox[f][k + 1].channel # name
      BY <2>1, <2>5, <3>1
    <3> QED BY <3>1, <3>2
  <2> QED BY <2>1, <2>2, <2>3, <2>5
<1>3. ASSUME NEW name \in Channels PROVE name \in Effective(f)' <=> name \in Effective(f)
  <2>1. name \in Effective(f)' <=>
          \/ \E i \in 1..(n - 1) : outbox[f][i + 1] = Message("subscribe", name) /\ Quiet(f, i + 1, name)'
          \/ name \in Taken(subs[f], m) /\ Quiet(f, 1, name)'
    BY <1>1 DEF Effective
  <2>2. name \in Effective(f) <=>
          \/ \E i \in 1..n : outbox[f][i] = Message("subscribe", name) /\ Quiet(f, i + 1, name)
          \/ name \in subs[f] /\ Quiet(f, 1, name)
    BY <1>1 DEF Effective
  <2>3. \A i \in 1..(n - 1) : Quiet(f, i + 1, name)' <=> Quiet(f, (i + 1) + 1, name)
    <3> SUFFICES ASSUME NEW i \in 1..(n - 1)
                 PROVE  Quiet(f, i + 1, name)' <=> Quiet(f, (i + 1) + 1, name)
      OBVIOUS
    <3>1. PICK k \in 1..n : k = i + 1
      BY <1>1
    <3>2. Quiet(f, k, name)' <=> Quiet(f, k + 1, name)
      BY <1>2
    <3> QED BY <3>1, <3>2
  <2>4. Quiet(f, 1, name)' <=> Quiet(f, 1 + 1, name)
    BY <1>1, <1>2
  <2>5. Quiet(f, 1, name) <=> Quiet(f, 1 + 1, name) /\ m.channel # name
    <3>1. \A j \in 1..n : j = 1 \/ j >= 1 + 1
      BY <1>1
    <3>2. 1 \in 1..n /\ \A j \in 1..n : j >= 1
      BY <1>1
    <3> QED BY <1>1, <3>1, <3>2 DEF Quiet
  <2>6. name \in Taken(subs[f], m) <=>
          IF m.channel = name THEN m.op = "subscribe" ELSE name \in subs[f]
    BY <1>1, MessageIs DEF Taken
  <2>7. m = Message("subscribe", name) <=> m.op = "subscribe" /\ m.channel = name
    BY <1>1, MessageIs
  <2>8. (\E i \in 1..n : outbox[f][i] = Message("subscribe", name) /\ Quiet(f, i + 1, name)) <=>
          \/ m = Message("subscribe", name) /\ Quiet(f, 1 + 1, name)
          \/ \E i \in 1..(n - 1) :
               outbox[f][i + 1] = Message("subscribe", name) /\ Quiet(f, (i + 1) + 1, name)
    <3>1. 1 \in 1..n /\ \A i \in 1..(n - 1) : i + 1 \in 1..n
      BY <1>1
    <3>2. ASSUME NEW i \in 1..n, outbox[f][i] = Message("subscribe", name), Quiet(f, i + 1, name)
          PROVE  \/ m = Message("subscribe", name) /\ Quiet(f, 1 + 1, name)
                 \/ \E k \in 1..(n - 1) :
                      outbox[f][k + 1] = Message("subscribe", name) /\ Quiet(f, (k + 1) + 1, name)
      <4>1. CASE i = 1
        BY <1>1, <3>2, <4>1
      <4>2. CASE i # 1
        <5>1. PICK k \in 1..(n - 1) : k + 1 = i
          <6>1. i - 1 \in 1..(n - 1) /\ (i - 1) + 1 = i
            BY <1>1, <4>2
          <6> QED BY <6>1
        <5> QED BY <3>2, <5>1
      <4> QED BY <4>1, <4>2
    <3> QED BY <1>1, <3>1, <3>2
  <2> QED BY <2>1, <2>2, <2>3, <2>4, <2>5, <2>6, <2>7, <2>8
<1>4. Effective(f) \subseteq Channels /\ Effective(f)' \subseteq Channels
  BY DEF Effective
<1> QED BY <1>3, <1>4

LEMMA EffectiveSame ==
  ASSUME NEW f, outbox'[f] = outbox[f], subs'[f] = subs[f]
  PROVE  Effective(f)' = Effective(f)
BY DEF Effective, Quiet

\* A connection that nothing was sent on has nothing on.
LEMMA EffectiveNone ==
  ASSUME NEW f, outbox[f] = <<>>, subs[f] = {}
  PROVE  Effective(f) = {}
<1>1. DOMAIN outbox[f] = {}
  OBVIOUS
<1> QED BY <1>1 DEF Effective

\* A step that leaves the messages of f alone and does not open it.
LEMMA HeldQuiet ==
  ASSUME NEW f \in Feeds, HeldOf(f),
         outbox'[f] = outbox[f], subs'[f] = subs[f], held'[f] = held[f],
         Up(f)' => Up(f), status'[f] = "DISCONNECTED" => status[f] = "DISCONNECTED"
  PROVE  HeldOf(f)'
<1>1. Effective(f)' = Effective(f)
  BY EffectiveSame
<1> QED BY <1>1 DEF HeldOf

\* A message is sent on f if f is up, and held says the same.
LEMMA HeldSend ==
  ASSUME MessagesTyped, NEW f \in Feeds, HeldOf(f), NEW m \in Messages(f),
         UNCHANGED socketVars, subs'[f] = subs[f],
         outbox'[f] = IF Up(f) THEN Append(outbox[f], m) ELSE outbox[f],
         Up(f) => held'[f] = Taken(held[f], m) \ IF f[2] = "USER" THEN {"HEARTBEATS"} ELSE {},
         ~Up(f) => held'[f] \subseteq held[f]
  PROVE  HeldOf(f)'
<1>1. status'[f] = status[f] /\ (Up(f)' <=> Up(f)) /\ (Up(f) => status[f] # "DISCONNECTED")
  BY DEF socketVars, Up
<1>2. CASE Up(f)
  <2>1. Effective(f)' = Taken(Effective(f), m)
    BY <1>2, EffectiveSend
  <2>2. held'[f] = Taken(Effective(f), m) \ IF f[2] = "USER" THEN {"HEARTBEATS"} ELSE {}
    BY <1>2, MessageIs DEF HeldOf, Taken
  <2> QED BY <1>1, <1>2, <2>1, <2>2 DEF HeldOf
<1>3. CASE ~Up(f)
  BY <1>1, <1>3 DEF HeldOf
<1> QED BY <1>2, <1>3

LEMMA HeldNext == TypeInv /\ HeldInv /\ [Next]_vars => HeldInv'
<1> SUFFICES ASSUME TypeInv, HeldInv, [Next]_vars PROVE HeldInv'
  OBVIOUS
<1>t. /\ MessagesTyped /\ CallShape /\ SocketTypeOK /\ call \in CallRecords
      /\ SoundIsUp /\ \A f \in Feeds : HeldOf(f)
  BY TypeParts, HeldParts DEF TypeInv
<1>n. call = NoCall => call.op = "none" /\ call.step = "channel"
  BY NoCallTyped
<1>q. ASSUME SoundIsUp', \A f \in Feeds : HeldOf(f)' PROVE HeldInv'
  BY <1>q DEF HeldInv, HeldOf, SoundIsUp, HeldIsSubscribed
<1>s. call'.step = "channel" => SoundIsUp'
  BY DEF SoundIsUp
<1>k. UNCHANGED <<outbox, subs, held, status>> => \A f \in Feeds : HeldOf(f)'
  <2> SUFFICES ASSUME UNCHANGED <<outbox, subs, held, status>>, NEW f \in Feeds PROVE HeldOf(f)'
    OBVIOUS
  <2> QED BY <1>t, HeldQuiet DEF Up
<1>1. ASSUME NEW c \in Clients, Construct(c) PROVE HeldInv'
  BY <1>1, <1>n, <1>q, <1>s, <1>k DEF Construct, messageVars, socketVars
<1>2. ASSUME NEW c \in Clients, Destroy(c) PROVE HeldInv'
  <2>1. ASSUME NEW f \in Feeds PROVE HeldOf(f)'
    <3>1. CASE f \in FeedsOf(c)
      BY <2>1, <3>1, <1>2 DEF Destroy, Detach, Forget, HeldOf, Up
    <3>2. CASE f \notin FeedsOf(c)
      <4>1. outbox'[f] = outbox[f] /\ subs'[f] = subs[f] /\ held'[f] = held[f]
        BY <3>2, <1>2 DEF Destroy, Forget
      <4>2. status'[f] = status[f]
        BY <3>2, <1>2 DEF Destroy, Detach
      <4> QED BY <1>t, <4>1, <4>2, HeldQuiet DEF Up
    <3> QED BY <3>1, <3>2
  <2> QED BY <1>2, <1>n, <1>q, <1>s, <2>1 DEF Destroy
<1>3. ASSUME NEW c \in Clients, stop(c) PROVE HeldInv'
  <2>1. ASSUME NEW f \in Feeds PROVE HeldOf(f)'
    <3>1. status'[f] = IF f \in FeedsOf(c) /\ status[f] # "DISCONNECTED"
                       THEN "DISCONNECTING" ELSE status[f]
      BY <1>3 DEF stop, Close
    <3>2. held'[f] = IF f \in FeedsOf(c) THEN {} ELSE held[f]
      BY <1>3 DEF stop
    <3>3. outbox' = outbox /\ subs' = subs
      BY <1>3 DEF stop
    <3>4. CASE f \in FeedsOf(c)
      BY <1>t, <3>1, <3>2, <3>3, <3>4 DEF HeldOf, Up
    <3>5. CASE f \notin FeedsOf(c)
      BY <1>t, <3>1, <3>2, <3>3, <3>5, HeldQuiet DEF Up
    <3> QED BY <3>4, <3>5
  <2> QED BY <1>3, <1>n, <1>q, <1>s, <2>1 DEF stop
<1>4. ASSUME NEW c \in Clients, NEW o \in {"subscribe", "unsubscribe"}, NEW list \in Lists, Begin(c, o, list)
      PROVE  HeldInv'
  <2>1. call'.step = "channel"
    BY <1>4 DEF Begin, NoCall
  <2> QED BY <1>4, <1>q, <1>s, <1>k, <2>1 DEF Begin, socketVars
<1>5. CASE SkipChannel
  BY <1>5, <1>q, <1>s, <1>k, AdvanceTyped DEF SkipChannel, socketVars
<1>6. CASE ReachSocket
  <2>1. /\ UNCHANGED <<outbox, subs, held>> /\ socket \in Feeds
        /\ IF Opens(socket) THEN Open(socket) ELSE UNCHANGED socketVars
    BY <1>6 DEF ReachSocket
  <2>2. \A f \in Feeds : status'[f] = IF f = socket /\ Opens(socket) THEN "CONNECTING" ELSE status[f]
    BY <1>t, <2>1 DEF Opens, Open, socketVars, SocketTypeOK
  <2>3. ASSUME NEW f \in Feeds PROVE HeldOf(f)'
    <3>1. CASE f = socket /\ Opens(socket)
      <4>1. outbox[f] = <<>> /\ subs[f] = {} /\ held[f] = {}
        BY <1>t, <3>1 DEF HeldOf, Opens
      <4>2. Effective(f)' = Effective(f) /\ Effective(f) = {}
        BY <2>1, <4>1, EffectiveSame, EffectiveNone
      <4> QED BY <2>1, <2>2, <3>1, <4>1, <4>2 DEF HeldOf
    <3>2. CASE ~(f = socket /\ Opens(socket))
      BY <1>t, <2>1, <2>2, <3>2, HeldQuiet DEF Up
    <3> QED BY <3>1, <3>2
  <2>4. SoundIsUp'
    <3>1. /\ call'.client = call.client /\ call'.todo = call.todo
          /\ call'.sound = (status[socket] # "DISCONNECTING")
      BY <1>6, <1>t DEF ReachSocket, CallRecords
    <3>2. socket' = socket
      BY <3>1 DEF socket, channel
    <3>3. status[socket] \in Statuses
      BY <1>t, <2>1 DEF SocketTypeOK
    <3>4. status'[socket] \in {"CONNECTING", "CONNECTED"} <=> status[socket] # "DISCONNECTING"
      BY <2>1, <2>2, <3>3 DEF Opens, Statuses
    <3> QED BY <3>1, <3>2, <3>4 DEF SoundIsUp, Up
  <2> QED BY <1>q, <2>3, <2>4
<1>7. CASE Fail
  BY <1>7, <1>q, <1>s, <1>k, NoCallTyped DEF Fail, socketVars
<1>8. CASE SendHeartbeats
  <2>1. /\ send({socket}, Beat) /\ UNCHANGED <<socketVars, subs, held>>
        /\ socket \in Feeds /\ channel = "USER" /\ call.step = "heartbeats"
    BY <1>8, <1>t DEF SendHeartbeats, CallShape, Beat
  <2>2. socket[2] = "USER" /\ Beat \in Messages(socket)
    BY <2>1 DEF Beat, Message, Messages, ChannelsOf, socket, SocketOf
  <2>3. ASSUME NEW f \in Feeds PROVE HeldOf(f)'
    <3>1. CASE f = socket
      <4>1. outbox'[f] = IF Up(f) THEN Append(outbox[f], Beat) ELSE outbox[f]
        BY <2>1, <3>1, SendOne
      <4>2. "HEARTBEATS" \notin held[f] \/ ~Up(f)
        BY <1>t, <2>2, <3>1 DEF HeldOf
      <4>3. Up(f) => held'[f] = Taken(held[f], Beat) \ {"HEARTBEATS"}
        BY <2>1, <4>2 DEF Taken, Beat, Message
      <4> QED BY <1>t, <2>1, <2>2, <3>1, <4>1, <4>3, HeldSend
    <3>2. CASE f # socket
      <4>1. outbox'[f] = outbox[f]
        BY <2>1, <3>2, SendOne
      <4> QED BY <1>t, <2>1, <4>1, HeldQuiet DEF Up, socketVars
    <3> QED BY <3>1, <3>2
  <2>4. SoundIsUp'
    <3>1. call'.client = call.client /\ call'.todo = call.todo /\ call'.sound = call.sound
      BY <1>8, <1>t DEF SendHeartbeats, CallRecords
    <3>2. socket' = socket /\ status' = status
      BY <2>1, <3>1 DEF socket, channel, socketVars
    <3> QED BY <1>t, <2>1, <3>1, <3>2 DEF SoundIsUp, Up
  <2> QED BY <1>q, <2>3, <2>4
<1>9. CASE SendChannel
  <2>1. /\ send({socket}, Message("subscribe", channel)) /\ UNCHANGED <<socketVars, subs>>
        /\ held' = [held EXCEPT ![socket] = IF call.sound THEN held[socket] \cup {channel}
                                            ELSE held[socket]]
        /\ socket \in Feeds /\ call.op = "subscribe" /\ call.step = "send" /\ Advance
    BY <1>9, <1>t DEF SendChannel, CallShape
  <2>2. channel \in ChannelsOf(socket)
    BY <2>1, ChannelFits
  <2>3. Message("subscribe", channel) \in Messages(socket)
    BY <2>2 DEF Message, Messages
  <2>4. ~(socket[2] = "USER" /\ channel = "HEARTBEATS")
    BY DEF socket, SocketOf
  <2>5. call.sound <=> Up(socket)
    BY <1>t, <2>1 DEF SoundIsUp
  <2>6. ASSUME NEW f \in Feeds PROVE HeldOf(f)'
    <3>1. CASE f = socket
      <4>1. outbox'[f] = IF Up(f) THEN Append(outbox[f], Message("subscribe", channel)) ELSE outbox[f]
        BY <2>1, <3>1, SendOne
      <4>2. held'[f] = IF Up(f) THEN held[f] \cup {channel} ELSE held[f]
        BY <1>t, <2>1, <2>5, <3>1 DEF MessagesTyped
      <4>3. Taken(held[f], Message("subscribe", channel)) = held[f] \cup {channel}
        BY DEF Taken, Message
      <4>4. Up(f) /\ f[2] = "USER" => "HEARTBEATS" \notin held[f]
        BY <1>t DEF HeldOf
      <4>5. Up(f) => held'[f] = Taken(held[f], Message("subscribe", channel))
                                  \ IF f[2] = "USER" THEN {"HEARTBEATS"} ELSE {}
        BY <2>4, <3>1, <4>2, <4>3, <4>4
      <4> QED BY <1>t, <2>1, <2>3, <3>1, <4>1, <4>2, <4>5, HeldSend
    <3>2. CASE f # socket
      <4>1. outbox'[f] = outbox[f] /\ held'[f] = held[f]
        BY <1>t, <2>1, <3>2, SendOne DEF MessagesTyped
      <4> QED BY <1>t, <2>1, <4>1, HeldQuiet DEF Up, socketVars
    <3> QED BY <3>1, <3>2
  <2> QED BY <1>q, <1>s, <2>1, <2>6, AdvanceTyped
<1>10. CASE UnsubscribeChannel
  <2>1. /\ send(Silences, Message("unsubscribe", channel)) /\ UNCHANGED <<socketVars, subs>>
        /\ held' = [held EXCEPT ![socket] = held[socket] \ {channel}]
        /\ socket \in Feeds /\ call.op = "unsubscribe" /\ Advance
    BY <1>10 DEF UnsubscribeChannel
  <2>2. channel \in ChannelsOf(socket)
    BY <2>1, ChannelFits
  <2>3. \A f \in Silences \cap Feeds : Message("unsubscribe", channel) \in Messages(f)
    BY <2>2 DEF Message, Messages, Silences, ChannelsOf
  <2>4. socket \in Silences /\ \A f \in Silences : f # socket => f[2] = "USER" /\ channel = "HEARTBEATS"
    BY DEF Silences
  <2>5. ASSUME NEW f \in Feeds PROVE HeldOf(f)'
    <3> DEFINE m == Message("unsubscribe", channel)
    <3>1. held'[f] = IF f = socket THEN held[f] \ {channel} ELSE held[f]
      BY <1>t, <2>1 DEF MessagesTyped
    <3>2. Taken(held[f], m) = held[f] \ {channel}
      BY DEF Taken, Message
    <3>3. Up(f) /\ f[2] = "USER" => "HEARTBEATS" \notin held[f]
      BY <1>t DEF HeldOf
    <3>4. CASE f \in Silences
      <4>1. outbox'[f] = IF Up(f) THEN Append(outbox[f], m) ELSE outbox[f]
        BY <2>1, <3>4, SendOne
      <4>2. Up(f) => held'[f] = Taken(held[f], m) \ IF f[2] = "USER" THEN {"HEARTBEATS"} ELSE {}
        BY <2>4, <3>1, <3>2, <3>3, <3>4
      <4>3. held'[f] \subseteq held[f]
        BY <3>1
      <4>4. m \in Messages(f)
        BY <2>3, <3>4
      <4> HIDE DEF m
      <4> QED BY <1>t, <2>1, <4>1, <4>2, <4>3, <4>4, HeldSend
    <3>5. CASE f \notin Silences
      <4>1. outbox'[f] = outbox[f] /\ held'[f] = held[f]
        BY <2>1, <2>4, <3>1, <3>5, SendOne
      <4> QED BY <1>t, <2>1, <4>1, HeldQuiet DEF Up, socketVars
    <3> QED BY <3>4, <3>5
  <2> QED BY <1>q, <1>s, <2>1, <2>5, AdvanceTyped
<1>11. ASSUME NEW g \in Feeds, Connect(g) PROVE HeldInv'
  <2>1. \A f \in Feeds : (Up(f)' <=> Up(f)) /\ (status'[f] = "DISCONNECTED" => status[f] = "DISCONNECTED")
    BY <1>11, <1>t DEF Connect, Establish, Up, SocketTypeOK
  <2>2. UNCHANGED <<outbox, subs, held, call>> /\ socket' = socket
    BY <1>11 DEF Connect, messageVars, socket, channel
  <2>3. ASSUME NEW f \in Feeds PROVE HeldOf(f)'
    BY <1>t, <2>1, <2>2, HeldQuiet
  <2>4. SoundIsUp'
    BY <1>t, <2>1, <2>2 DEF SoundIsUp, CallShape, Up
  <2> QED BY <1>q, <2>3, <2>4
<1>12. ASSUME NEW g \in Feeds, Disconnect(g) PROVE HeldInv'
  <2>1. status' = [status EXCEPT ![g] = "DISCONNECTED"]
    BY <1>12 DEF Disconnect, Shut, Abandon
  <2>2. \A f \in Feeds : status'[f] = IF f = g THEN "DISCONNECTED" ELSE status[f]
    BY <1>t, <2>1 DEF SocketTypeOK
  <2>3. ASSUME NEW f \in Feeds PROVE HeldOf(f)'
    <3>1. CASE f = g
      BY <1>12, <2>2, <3>1 DEF Disconnect, Forget, HeldOf, Up
    <3>2. CASE f # g
      <4>1. outbox'[f] = outbox[f] /\ subs'[f] = subs[f] /\ held'[f] = held[f]
        BY <1>12, <3>2 DEF Disconnect, Forget
      <4> QED BY <1>t, <2>2, <3>2, <4>1, HeldQuiet DEF Up
    <3> QED BY <3>1, <3>2
  <2>4. SoundIsUp'
    <3>1. /\ call'.client = call.client /\ call'.todo = call.todo /\ call'.step = call.step
          /\ call'.sound = IF call # NoCall /\ socket = g THEN FALSE ELSE call.sound
      BY <1>12, <1>t DEF Disconnect, CallRecords
    <3>2. socket' = socket
      BY <3>1 DEF socket, channel
    <3>3. ASSUME call.step # "channel" PROVE call'.sound <=> Up(socket)'
      <4>1. socket \in Feeds /\ call # NoCall /\ (call.sound <=> Up(socket))
        BY <1>t, <1>n, <3>3 DEF SoundIsUp, CallShape
      <4>2. status'[socket'] = IF socket = g THEN "DISCONNECTED" ELSE status[socket]
        BY <2>2, <3>2, <4>1
      <4> QED BY <3>1, <4>1, <4>2 DEF Up
    <3> QED BY <3>1, <3>3 DEF SoundIsUp
  <2> QED BY <1>q, <2>3, <2>4
<1>13. ASSUME NEW g \in Feeds, TakeMessage(g) PROVE HeldInv'
  <2>1. UNCHANGED <<socketVars, call, held>> /\ status' = status /\ socket' = socket
    BY <1>13 DEF TakeMessage, socketVars, socket, channel
  <2>2. ASSUME NEW f \in Feeds PROVE HeldOf(f)'
    <3>1. CASE f = g
      <4>1. Effective(f)' = Effective(f)
        BY <1>13, <1>t, <3>1, EffectiveTake
      <4>2. outbox[f] # <<>>
        BY <1>13, <3>1 DEF TakeMessage
      <4> QED BY <1>t, <2>1, <4>1, <4>2 DEF HeldOf, Up
    <3>2. CASE f # g
      <4>1. outbox'[f] = outbox[f] /\ subs'[f] = subs[f]
        BY <1>13, <1>t, <3>2 DEF TakeMessage, MessagesTyped
      <4> QED BY <1>t, <2>1, <4>1, HeldQuiet DEF Up
    <3> QED BY <3>1, <3>2
  <2>3. SoundIsUp'
    BY <1>t, <2>1 DEF SoundIsUp, Up
  <2> QED BY <1>q, <2>2, <2>3
<1>14. CASE UNCHANGED vars
  <2>1. SoundIsUp'
    BY <1>14, <1>t DEF vars, messageVars, socketVars, SoundIsUp, Up, socket, channel
  <2> QED BY <1>14, <1>q, <1>k, <2>1 DEF vars, messageVars, socketVars
<1> QED BY <1>1, <1>2, <1>3, <1>4, <1>5, <1>6, <1>7, <1>8, <1>9, <1>10, <1>11, <1>12, <1>13, <1>14
        DEF Next

\* What is on at the exchange or under way to it is what the application may
\* take for subscribed, for any clients and lists of channels, any number of
\* messages under way, and whenever sockets go down during a call.
THEOREM HeldIsSubscribedCorrect == Spec => []HeldIsSubscribed
<1>1. Init => HeldInv
  <2> SUFFICES ASSUME Init PROVE SoundIsUp /\ \A f \in Feeds : HeldOf(f)
    BY HeldParts
  <2> QED BY NoCallTyped DEF Init, SocketInit, SoundIsUp, HeldOf, Up
<1>2. HeldInv => HeldIsSubscribed
  BY DEF HeldInv
<1> QED BY <1>1, <1>2, TypeInit, TypeNext, HeldNext, PTL DEF Spec

=============================================================================
