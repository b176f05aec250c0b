--------------------------- MODULE UserThreadFeed ---------------------------
(***************************************************************************)
(* WebSocketClients whose callbacks object is a                            *)
(* UserThreadWebsocketCallbacks.  The I/O thread only appends records to   *)
(* the shared stream_buffer_multiplexer: control records through           *)
(* dispatchData, raw frames through slick-net itself.  The user thread     *)
(* calls processData, which reads the records in order and makes the       *)
(* callbacks.  Routing goes through clients_ and producer_types_, two      *)
(* vectors indexed by producer id; sequence numbers are tracked per client *)
(* object.                                                                 *)
(*                                                                         *)
(* Clients are constructed and destroyed by the user thread between two    *)
(* calls of processData.  An address may be used again by a later client,  *)
(* a range of producer ids may not.                                        *)
(***************************************************************************)
EXTENDS ExchangeSocket, Sequences, FiniteSets

CONSTANTS
  Offsets,         \* producer_offset values given to clients, each at most once
  ForeignPids,     \* ids of other producers on the same multiplexer
  DrainCounts,     \* max_drain_count arguments of processData
  Null,            \* nullptr
  DrainedTeardown, \* TRUE: a client is destroyed once its feeds are down and drained
  Throwing,        \* control records whose callback may throw
  MaxQueue         \* bound: records waiting in the multiplexer

_PRODUCER_TYPE_COUNT_ == 4

ASSUME UserThreadAssumption ==
  /\ Offsets \subseteq Nat
  /\ ForeignPids \subseteq Nat
  /\ \A o \in Offsets, p \in Offsets \cup ForeignPids :
       p # o => p < o \/ p >= o + _PRODUCER_TYPE_COUNT_
  /\ Offsets \cap ForeignPids = {}
  /\ DrainCounts \subseteq Nat
  /\ Null \notin Clients
  /\ DrainedTeardown \in BOOLEAN
  /\ Throwing \subseteq {"CONNECTED", "DISCONNECTED", "ERROR"}
  /\ MaxQueue \in Nat

DataType(k) == IF k = "MD" THEN 0 ELSE 1

\* Mistake: the control producers registered in the other order.
CtrlTypeSwapped(k) == IF k = "MD" THEN 3 ELSE 2

CtrlType(k) == IF k = "MD" THEN 2 ELSE 3

VARIABLES
  alive,           \* clients constructed and not destroyed
  offset,          \* producer_offset_ of the client last constructed at an address
  used,            \* offsets given out so far
  mux,             \* records the user thread has not read
  clients_,        \* vector<WebSocketClient*>, by producer id
  producer_types_, \* vector<ProducerType>, by producer id
  seq_nums_,       \* md_seq_nums_ and user_seq_nums_; NoSeq where there is no entry
  left,            \* iterations left in the running processData call, 0 outside
  session, heard,  \* history: connection announced last, last numbered frame handled
  event            \* history: what the application was told last

readerVars == <<clients_, producer_types_, seq_nums_>>
objectVars == <<alive, offset, used>>
historyVars == <<session, heard, event>>
vars == <<socketVars, objectVars, mux, readerVars, left, historyVars>>

-----------------------------------------------------------------------------
(* Records.  processData reads client and kind of a control record only;   *)
(* elsewhere, like conn and seq, they are history.                         *)

\* Mistake: the data producer registered without the client's offset.
DataPidUnshifted(f) == DataType(f[2])

DataPid(f) == offset[f[1]] + DataType(f[2])

CtrlPid(f) == offset[f[1]] + CtrlType(f[2])

CtrlKinds == {"CONNECTED", "DISCONNECTED", "ERROR"}
FrameKinds == {"data", "error", "quiet", "junk"}
RecordKinds == CtrlKinds \cup FrameKinds \cup {"foreign"}

Record(p, what, f, q) ==
  [pid |-> p, what |-> what, client |-> f[1], kind |-> f[2], conn |-> conn[f], seq |-> q]

Foreign(p) ==
  [pid |-> p, what |-> "foreign", client |-> Null, kind |-> "MD", conn |-> 0, seq |-> NoSeq]

Append1(r) == Len(mux) < MaxQueue /\ mux' = Append(mux, r)

\* dispatchData: into the control producer of the feed.
dispatchData(f, what) == Append1(Record(CtrlPid(f), what, f, NoSeq))

-----------------------------------------------------------------------------
(* The I/O thread.                                                         *)

onConnected(f) ==
  /\ Establish(f)
  /\ dispatchData(f, "CONNECTED")
  /\ UNCHANGED <<objectVars, readerVars, left, historyVars>>

onDisconnected(f) ==
  /\ Shut(f)
  /\ dispatchData(f, "DISCONNECTED")
  /\ UNCHANGED <<objectVars, readerVars, left, historyVars>>

\* A failed attempt to connect, reported unless close() asked for it.
onConnectError(f) ==
  /\ Abandon(f)
  /\ IF status[f] = "CONNECTING" THEN dispatchData(f, "ERROR") ELSE UNCHANGED mux
  /\ UNCHANGED <<objectVars, readerVars, left, historyVars>>

onSocketError(f) ==
  /\ Unnumbered(f)
  /\ dispatchData(f, "ERROR")
  /\ UNCHANGED <<objectVars, readerVars, left, historyVars>>

\* slick-net writes the frame into the data producer; onMarketData and
\* onUserData do nothing in this mode.
onFrame(f) ==
  /\ \/ /\ Number(f)
        /\ \E what \in FrameKinds : Append1(Record(DataPid(f), what, f, sent[f] + 1))
     \/ /\ Unnumbered(f)
        /\ Append1(Record(DataPid(f), "error", f, NoSeq))
  /\ UNCHANGED <<objectVars, readerVars, left, historyVars>>

LoseFrame(f) ==
  /\ Number(f)
  /\ UNCHANGED <<objectVars, mux, readerVars, left, historyVars>>

\* Some other producer of the multiplexer writes a record.
ForeignWrite(p) ==
  /\ Append1(Foreign(p))
  /\ UNCHANGED <<socketVars, objectVars, readerVars, left, historyVars>>

-----------------------------------------------------------------------------
(* The user thread: the clients.                                           *)

\* vector::resize(sz, fill) when the vector is shorter than sz.
Resized(v, sz, fill) ==
  [p \in DOMAIN v \cup 0..(sz - 1) |-> IF p \in DOMAIN v THEN v[p] ELSE fill]

\* Mistake: the vector ends before the client's last producer.
addClientShort(o) == Resized(clients_, o + _PRODUCER_TYPE_COUNT_ - 1, Null)

addClient(o) == Resized(clients_, o + _PRODUCER_TYPE_COUNT_, Null)

\* addClient's resize of producer_types_, then mapProducerType for every
\* producer init registers.
mapProducerTypes(o, kinds) ==
  LET grown == Resized(producer_types_, o + _PRODUCER_TYPE_COUNT_, _PRODUCER_TYPE_COUNT_)
  IN [p \in DOMAIN grown |->
        IF \E k \in kinds : p \in {o + DataType(k), o + CtrlType(k)} THEN p - o ELSE grown[p]]

\* The constructor that is given a multiplexer, and init.
Construct(c, o) ==
  /\ left = 0
  /\ c \notin alive
  /\ o \notin used
  /\ alive' = alive \cup {c}
  /\ offset' = [offset EXCEPT ![c] = o]
  /\ used' = used \cup {o}
  /\ clients_' = addClient(o)
  /\ producer_types_' = mapProducerTypes(o, Urls[c])
  /\ UNCHANGED <<socketVars, mux, seq_nums_, left, historyVars>>

Drained(c) ==
  /\ \A f \in FeedsOf(c) : status[f] = "DISCONNECTED"
  /\ \A i \in DOMAIN mux : mux[i].client # c

\* The destructor: the sockets go, the records already queued and what the
\* callbacks object knows of the client stay.
Destroy(c) ==
  /\ left = 0
  /\ c \in alive
  /\ DrainedTeardown => Drained(c)
  /\ alive' = alive \ {c}
  /\ Detach(FeedsOf(c))
  /\ UNCHANGED <<offset, used, mux, readerVars, left, historyVars>>

\* subscribe, as far as it changes the connection.
Subscribe(f) ==
  /\ f[1] \in alive
  /\ Open(f)
  /\ UNCHANGED <<objectVars, mux, readerVars, left, historyVars>>

stop(c) ==
  /\ c \in alive
  /\ Close(FeedsOf(c))
  /\ UNCHANGED <<objectVars, mux, readerVars, left, historyVars>>

-----------------------------------------------------------------------------
(* The user thread: processData.                                           *)

\* do ... while(++i < max_drain_count): at least one record is read.
EnterProcessData(max) ==
  /\ left = 0
  /\ DOMAIN producer_types_ # {}
  /\ left' = IF max = 0 THEN 1 ELSE max
  /\ UNCHANGED <<socketVars, objectVars, mux, readerVars, historyVars>>

NoDataLeft ==
  /\ left > 0
  /\ mux = <<>>
  /\ left' = 0
  /\ UNCHANGED <<socketVars, objectVars, mux, readerVars, historyVars>>

\* One iteration reads r.
Read(r) ==
  /\ left > 0
  /\ mux # <<>>
  /\ r = Head(mux)
  /\ mux' = Tail(mux)
  /\ UNCHANGED <<socketVars, objectVars, producer_types_>>

\* Mistake: the iterations are not counted.
CountedNever(throws) == UNCHANGED left

\* One iteration fewer, or none: what a connection callback throws leaves
\* processData, and the application catches it and calls again later.
Counted(throws) == left' = IF throws THEN 0 ELSE left - 1

\* The callback of record r may throw.
MayThrow(r) == {FALSE} \cup {throws \in {TRUE} : r.what \in Throwing}

\* Mistake: the ids of the last control producers count as unknown.
KnownShort(r) == r.pid + 2 \in DOMAIN producer_types_

Known(r) == r.pid \in DOMAIN producer_types_

IsCtrl(r) == Known(r) /\ \E k \in Kinds : producer_types_[r.pid] = CtrlType(k)

IsFrame(r) == Known(r) /\ \E k \in Kinds : producer_types_[r.pid] = DataType(k)

\* Both `continue`s: the id is out of range, or nobody mapped it.
SkipRecord(r) ==
  /\ Read(r)
  /\ Counted(FALSE)
  /\ ~IsCtrl(r) /\ ~IsFrame(r)
  /\ UNCHANGED <<clients_, seq_nums_, historyVars>>

\* Mistake: the data producer looked for next to the control producer.
SlotsAdjacent(r) == {r.pid, r.pid - 1}

\* The slots of a control record: its own and that of the data producer.
Slots(r) == {r.pid, r.pid - 2}

\* Mistake: a slot in use is not written again.
SetSlotsOnce(r, c) ==
  [p \in DOMAIN clients_ |-> IF p \in Slots(r) /\ clients_[p] = Null THEN c ELSE clients_[p]]

SetSlots(r, c) == [p \in DOMAIN clients_ |-> IF p \in Slots(r) THEN c ELSE clients_[p]]

callback(f, call, n, gap) ==
  event' = [feed |-> f, call |-> call, session |-> n, gap |-> gap]

\* Mistake: the callback comes before the slots are set.
HandleConnectedLate(r) ==
  LET f == <<r.client, r.kind>> IN
  \E throws \in MayThrow(r) :
    /\ Read(r)
    /\ Counted(throws)
    /\ IsCtrl(r) /\ r.what = "CONNECTED"
    /\ clients_' = IF throws THEN clients_ ELSE SetSlots(r, r.client)
    /\ callback(f, "connected", r.conn, FALSE)
    /\ session' = [session EXCEPT ![f] = r.conn]
    /\ heard' = [heard EXCEPT ![f] = NoSeq]
    /\ UNCHANGED seq_nums_

\* MARKET_CONNECTED and USER_CONNECTED: everything is done when the callback is
\* made.
HandleConnected(r) ==
  LET f == <<r.client, r.kind>> IN
  /\ Read(r)
  /\ \E throws \in MayThrow(r) : Counted(throws)
  /\ IsCtrl(r) /\ r.what = "CONNECTED"
  /\ clients_' = SetSlots(r, r.client)
  /\ callback(f, "connected", r.conn, FALSE)
  /\ session' = [session EXCEPT ![f] = r.conn]
  /\ heard' = [heard EXCEPT ![f] = NoSeq]
  /\ UNCHANGED seq_nums_

\* Mistakes: the entry stays, or the whole map is cleared.
resetSequenceNever(f) == seq_nums_
resetSequenceOfAll(f) == [g \in Feeds |-> NoSeq]

\* resetMarketDataSequence and resetUserDataSequence: the entry is erased.
resetSequence(f) == [seq_nums_ EXCEPT ![f] = NoSeq]

\* MARKET_DISCONNECTED and USER_DISCONNECTED: the callback is made first, and
\* one that throws leaves the slots and the sequence number as they are.
HandleDisconnected(r) ==
  LET f == <<r.client, r.kind>> IN
  \E throws \in MayThrow(r) :
    /\ Read(r)
    /\ Counted(throws)
    /\ IsCtrl(r) /\ r.what = "DISCONNECTED"
    /\ callback(f, "disconnected", r.conn, FALSE)
    /\ IF throws
       THEN UNCHANGED <<seq_nums_, clients_>>
       ELSE seq_nums_' = resetSequence(f) /\ clients_' = SetSlots(r, Null)
    /\ heard' = [heard EXCEPT ![f] = NoSeq]
    /\ UNCHANGED session

\* MARKET_ERROR and USER_ERROR: dropped unless the feed is announced.
HandleError(r) ==
  /\ Read(r)
  /\ IsCtrl(r) /\ r.what = "ERROR"
  /\ IF clients_[r.pid] # Null
     THEN /\ \E throws \in MayThrow(r) : Counted(throws)
          /\ callback(<<r.client, r.kind>>, "error", r.conn, FALSE)
     ELSE /\ Counted(FALSE)
          /\ UNCHANGED event
  /\ UNCHANGED <<clients_, seq_nums_, session, heard>>

\* check*DataSequenceNumber: what the map holds once the entry exists, and
\* whether q follows it.
LastSeq(f, q) == IF seq_nums_[f] = NoSeq THEN q - 1 ELSE seq_nums_[f]

Follows(f, q) == q = LastSeq(f, q) + 1

\* processMarketData and processUserData for client c: the numbered frame is
\* checked, then handed over whatever the check said.  A "quiet" frame makes no
\* callback of its own (heartbeats, subscriptions, an unknown channel, events
\* that do not parse); one that is not JSON, "junk", only reaches the log.
\* What the callbacks of a frame throw is caught in here.
HandleFrame(r) ==
  /\ Read(r)
  /\ Counted(FALSE)
  /\ IsFrame(r)
  /\ LET c == clients_[r.pid]
         f == <<c, IF producer_types_[r.pid] = DataType("MD") THEN "MD" ELSE "USER">>
     IN IF c = Null \/ r.what = "junk"
        THEN UNCHANGED <<seq_nums_, heard, event>>
        ELSE IF r.seq = NoSeq
        THEN /\ callback(f, r.what, r.conn, FALSE)
             /\ UNCHANGED <<seq_nums_, heard>>
        ELSE /\ seq_nums_' = [seq_nums_ EXCEPT ![f] = IF Follows(f, r.seq) THEN r.seq
                                                      ELSE LastSeq(f, r.seq)]
             /\ callback(f, r.what, r.conn, ~Follows(f, r.seq))
             /\ heard' = [heard EXCEPT ![f] = r.seq]
  /\ UNCHANGED <<clients_, session>>

processData ==
  \/ NoDataLeft
  \/ \E max \in DrainCounts : EnterProcessData(max)
  \/ /\ mux # <<>>
     /\ \/ SkipRecord(Head(mux))
        \/ HandleConnected(Head(mux))
        \/ HandleDisconnected(Head(mux))
        \/ HandleError(Head(mux))
        \/ HandleFrame(Head(mux))

-----------------------------------------------------------------------------

Init ==
  /\ SocketInit
  /\ alive = {}
  /\ offset = [c \in Clients |-> 0]
  /\ used = {}
  /\ mux = <<>>
  /\ clients_ = <<>>
  /\ producer_types_ = <<>>
  /\ seq_nums_ = [f \in Feeds |-> NoSeq]
  /\ left = 0
  /\ session = [f \in Feeds |-> 0]
  /\ heard = [f \in Feeds |-> NoSeq]
  /\ event = [feed |-> <<Null, "MD">>, call |-> "none", session |-> 0, gap |-> FALSE]

IOThread ==
  \E f \in Feeds :
    \/ onConnected(f)
    \/ onDisconnected(f)
    \/ onConnectError(f)
    \/ onSocketError(f)
    \/ onFrame(f)
    \/ LoseFrame(f)

Next ==
  \/ processData
  \/ IOThread
  \/ \E p \in ForeignPids : ForeignWrite(p)
  \/ \E c \in Clients, o \in Offsets : Construct(c, o)
  \/ \E c \in Clients : Destroy(c) \/ stop(c)
  \/ \E f \in Feeds : Subscribe(f)

Spec == Init /\ [][Next]_vars

\* The application keeps calling processData, as README.md asks of it.
FairSpec == Spec /\ WF_vars(processData)

-----------------------------------------------------------------------------
(* Properties.                                                             *)

Records ==
  [pid : Nat, what : RecordKinds, client : Clients \cup {Null}, kind : Kinds,
   conn : 0..MaxConn, seq : NoSeq..MaxSeq]

Calls ==
  [feed : (Clients \cup {Null}) \X Kinds, session : 0..MaxConn, gap : BOOLEAN,
   call : {"none", "connected", "disconnected"} \cup RecordKinds]

\* Every variable has its type; the two vectors are always of one size.
TypeOK ==
  /\ SocketTypeOK
  /\ alive \subseteq Clients
  /\ offset \in [Clients -> Offsets \cup {0}]
  /\ used \subseteq Offsets
  /\ mux \in Seq(Records)
  /\ DOMAIN clients_ \subseteq Nat
  /\ DOMAIN producer_types_ = DOMAIN clients_
  /\ clients_ \in [DOMAIN clients_ -> Clients \cup {Null}]
  /\ producer_types_ \in [DOMAIN clients_ -> 0.._PRODUCER_TYPE_COUNT_]
  /\ seq_nums_ \in [Feeds -> NoSeq..MaxSeq]
  /\ left \in Nat
  /\ session \in [Feeds -> 0..MaxConn]
  /\ heard \in [Feeds -> NoSeq..MaxSeq]
  /\ event \in Calls

\* The application has been told the feed is connected: both its slots hold
\* the client.
Announced(f) ==
  /\ f[1] \in alive
  /\ clients_[DataPid(f)] = f[1]
  /\ clients_[CtrlPid(f)] = f[1]

\* A slot of clients_ that is not nullptr belongs to one announced feed: its
\* client is alive, the id is in the range the client was given, and the
\* slots of the control and the data producer agree.  A stale, shifted or
\* half-cleared slot hands one client's frames to another.
RoutedToOwner ==
  \A p \in DOMAIN clients_ :
    clients_[p] # Null =>
      \E f \in Feeds : /\ f[1] = clients_[p]
                       /\ p \in {DataPid(f), CtrlPid(f)}
                       /\ Announced(f)

\* Whatever callback a record leads to, it names the client and the feed
\* that wrote the record, though a raw frame carries no client and is routed
\* by its producer id alone.
CalledForItsWriter ==
  [][event' # event => event'.feed = <<Head(mux).client, Head(mux).kind>>]_vars

\* The callbacks keep the contract of FeedContract: what the code keeps in
\* clients_ and in the sequence maps is exactly what the contract speaks of.
Contract == INSTANCE FeedContract WITH
  up <- {f \in Feeds : Announced(f)},
  whole <- {f \in Feeds : heard[f] = seq_nums_[f]}

KeepsContract == Contract!Spec

\* Every call of processData returns, even when the I/O threads and foreign
\* producers never stop writing: max_drain_count bounds the loop.
CallReturns == left > 0 ~> left = 0

\* A connection that was established is announced, in spite of everything
\* queued before it.
ConnectionAnnounced ==
  \A f \in Feeds, n \in 1..MaxConn :
    (opened[f] /\ conn[f] = n) ~> (session[f] = n)

\* A feed that stays down is in the end known to be down.
ClosureAnnounced ==
  \A f \in Feeds : <>[](~opened[f]) => <>[](~Announced(f))

\* CHANGELOG.md: the first message of a connection is accepted whatever its
\* number, and teardown clears the per-client sequence state.  Holds, address
\* reuse included, of clients that are drained before they are destroyed.
FirstFrameAccepted ==
  [][\A f \in Feeds : heard[f] = NoSeq /\ heard'[f] # NoSeq => ~event'.gap]_vars

\* CHANGELOG.md: error messages are dispatched.  Fails for an error met
\* before the feed is announced.
ErrorsDispatched ==
  [][(mux # <<>> /\ mux' = Tail(mux) /\ Head(mux).what = "ERROR")
       => event' = [feed |-> <<Head(mux).client, Head(mux).kind>>, call |-> "error",
                    session |-> Head(mux).conn, gap |-> FALSE]]_vars

=============================================================================
