------------------------ MODULE UserThreadFeedProofs ------------------------
(***************************************************************************)
(* Proofs about UserThreadFeed, for every set of clients, every choice of  *)
(* feeds, offsets, foreign producers and drain counts, and every bound:    *)
(* types, the routing of records through the two vectors, and that what    *)
(* processData tells an application is what FeedContract promises of a     *)
(* feed, whatever lies in the queue between the socket and it.             *)
(***************************************************************************)
EXTENDS UserThreadFeed, TLAPS

-----------------------------------------------------------------------------
(* The queue.                                                              *)

\* Appending keeps what is there and adds one record behind it.
LEMMA AppendAt ==
  ASSUME NEW S, NEW s \in Seq(S), NEW r \in S
  PROVE  /\ Append(s, r) \in Seq(S)
         /\ Len(Append(s, r)) = Len(s) + 1
         /\ \A i \in 1..Len(s) : Append(s, r)[i] = s[i]
         /\ Append(s, r)[Len(s) + 1] = r
  OBVIOUS

\* Reading the head shifts the rest by one.
LEMMA TailAt ==
  ASSUME NEW S, NEW s \in Seq(S), s # <<>>
  PROVE  /\ Tail(s) \in Seq(S)
         /\ Len(s) \in Nat \ {0}
         /\ Len(Tail(s)) = Len(s) - 1
         /\ \A i \in 1..Len(Tail(s)) : Tail(s)[i] = s[i + 1]
         /\ Head(s) = s[1]
         /\ Head(s) \in S
  OBVIOUS

-----------------------------------------------------------------------------
(* Types.                                                                  *)

\* A feed is the pair of its client and its kind.
LEMMA FeedIsPair ==
  ASSUME NEW f \in Feeds
  PROVE  f[1] \in Clients /\ f[2] \in Kinds /\ f = <<f[1], f[2]>>
  BY DEF Feeds

\* Producer ids are natural numbers.
LEMMA PidIsNat ==
  ASSUME offset \in [Clients -> Offsets \cup {0}], NEW f \in Feeds
  PROVE  DataPid(f) \in Nat /\ CtrlPid(f) \in Nat
  BY FeedIsPair, UserThreadAssumption DEF DataPid, CtrlPid, DataType, CtrlType

\* Whatever a client writes is a record.
LEMMA RecordTyped ==
  ASSUME TypeOK, NEW f \in Feeds, NEW p \in Nat,
         NEW what \in CtrlKinds \cup FrameKinds, NEW q \in NoSeq..MaxSeq
  PROVE  Record(p, what, f, q) \in Records
<1> USE DEF RecordKinds
<1>1. conn[f] \in 0..MaxConn
  BY DEF TypeOK, SocketTypeOK
<1>2. QED
  BY <1>1, FeedIsPair DEF Record, Records

\* Changing one value of a function keeps its type.
LEMMA ExceptTyped ==
  ASSUME NEW S, NEW T, NEW g \in [S -> T], NEW x, NEW y, x \in S => y \in T
  PROVE  [g EXCEPT ![x] = y] \in [S -> T]
  OBVIOUS

\* What dispatchData and slick-net do to the multiplexer keeps its type.
LEMMA Append1Typed ==
  ASSUME TypeOK, NEW r \in Records, Append1(r)
  PROVE  mux' \in Seq(Records)
  BY AppendAt DEF TypeOK, Append1

\* The two parts of TypeOK no step of processData changes.
LEMMA ReadTyped ==
  ASSUME TypeOK, NEW r, Read(r)
  PROVE  /\ r \in Records /\ r = mux[1] /\ Len(mux) \in Nat \ {0}
         /\ SocketTypeOK'
         /\ mux' \in Seq(Records)
         /\ \A throws \in BOOLEAN : Counted(throws) => left' \in Nat
<1>1. mux \in Seq(Records) /\ mux # <<>>
  BY DEF TypeOK, Read
<1>2. r \in Records /\ r = mux[1] /\ Len(mux) \in Nat \ {0} /\ mux' \in Seq(Records)
  BY <1>1, TailAt DEF Read
<1>3. SocketTypeOK'
  BY DEF TypeOK, SocketTypeOK, Read, socketVars
<1>4. \A throws \in BOOLEAN : Counted(throws) => left' \in Nat
  BY DEF TypeOK, Read, Counted
<1>5. QED
  BY <1>2, <1>3, <1>4

\* Writing a slot keeps the type of clients_.
LEMMA SetSlotsTyped ==
  ASSUME TypeOK, NEW r, NEW c \in Clients \cup {Null}
  PROVE  /\ DOMAIN SetSlots(r, c) = DOMAIN clients_
         /\ SetSlots(r, c) \in [DOMAIN clients_ -> Clients \cup {Null}]
  BY DEF TypeOK, SetSlots

\* Every callback has its type.
LEMMA CallTyped ==
  ASSUME NEW c \in Clients \cup {Null}, NEW k \in Kinds, NEW n \in 0..MaxConn,
         NEW gap \in BOOLEAN,
         NEW call \in {"connected", "disconnected"} \cup RecordKinds,
         callback(<<c, k>>, call, n, gap)
  PROVE  event' \in Calls
  BY DEF callback, Calls

\* Every variable of the user-thread mode keeps its type.
THEOREM TypeCorrect == Spec => []TypeOK
<1>1. Init => TypeOK
  <2> SUFFICES ASSUME Init PROVE TypeOK
    OBVIOUS
  <2>1. SocketTypeOK
    BY SocketAssumption DEF Init, SocketInit, SocketTypeOK, Statuses, NoSeq
  <2>2. event \in Calls
    BY SocketAssumption DEF Init, Calls, Kinds
  <2>3. DOMAIN clients_ = {} /\ clients_ = [p \in {} |-> Null] /\ producer_types_ = clients_
    BY DEF Init
  <2>4. QED
    BY <2>1, <2>2, <2>3, SocketAssumption DEF Init, TypeOK, NoSeq
<1>2. TypeOK /\ [Next]_vars => TypeOK'
  <2> SUFFICES ASSUME TypeOK, [Next]_vars PROVE TypeOK'
    OBVIOUS
  <2> USE UserThreadAssumption, SocketAssumption
  <2>1. ASSUME NEW f \in Feeds, NEW p \in Nat, NEW what \in CtrlKinds \cup FrameKinds,
               NEW q \in NoSeq..MaxSeq, Append1(Record(p, what, f, q)), SocketTypeOK',
               UNCHANGED <<objectVars, readerVars, left, historyVars>>
        PROVE TypeOK'
    <3>1. mux' \in Seq(Records)
      BY <2>1, RecordTyped, Append1Typed
    <3>2. QED
      BY <2>1, <3>1 DEF TypeOK, objectVars, readerVars, historyVars
  <2>2. ASSUME SocketTypeOK', mux' = mux,
               UNCHANGED <<objectVars, readerVars, left, historyVars>>
        PROVE TypeOK'
    BY <2>2 DEF TypeOK, objectVars, readerVars, historyVars
  <2>3. \A f \in Feeds : DataPid(f) \in Nat /\ CtrlPid(f) \in Nat
    BY PidIsNat DEF TypeOK
  <2>4. NoSeq \in NoSeq..MaxSeq
    BY DEF NoSeq
  <2>5. ASSUME NEW f \in Feeds, onConnected(f) PROVE TypeOK'
    <3>1. SocketTypeOK'
      BY <2>5 DEF TypeOK, SocketTypeOK, onConnected, Establish, Statuses
    <3>2. QED
      BY <2>1, <2>3, <2>4, <2>5, <3>1 DEF onConnected, dispatchData, CtrlKinds
  <2>6. ASSUME NEW f \in Feeds, onDisconnected(f) PROVE TypeOK'
    <3>1. SocketTypeOK'
      BY <2>6 DEF TypeOK, SocketTypeOK, onDisconnected, Shut, Statuses
    <3>2. QED
      BY <2>1, <2>3, <2>4, <2>6, <3>1 DEF onDisconnected, dispatchData, CtrlKinds
  <2>7. ASSUME NEW f \in Feeds, onConnectError(f) PROVE TypeOK'
    <3>1. SocketTypeOK'
      BY <2>7 DEF TypeOK, SocketTypeOK, onConnectError, Abandon, Statuses
    <3>2. CASE status[f] = "CONNECTING"
      BY <2>1, <2>3, <2>4, <2>7, <3>1, <3>2 DEF onConnectError, dispatchData, CtrlKinds
    <3>3. CASE status[f] # "CONNECTING"
      BY <2>2, <2>7, <3>1, <3>3 DEF onConnectError
    <3>4. QED
      BY <3>2, <3>3
  <2>8. ASSUME NEW f \in Feeds, onSocketError(f) PROVE TypeOK'
    <3>1. SocketTypeOK'
      BY <2>8 DEF TypeOK, SocketTypeOK, onSocketError, Unnumbered, socketVars
    <3>2. QED
      BY <2>1, <2>3, <2>4, <2>8, <3>1 DEF onSocketError, dispatchData, CtrlKinds
  <2>9. ASSUME NEW f \in Feeds, onFrame(f) PROVE TypeOK'
    <3>1. ASSUME Number(f), NEW what \in FrameKinds,
                 Append1(Record(DataPid(f), what, f, sent[f] + 1))
          PROVE TypeOK'
      <4>1. SocketTypeOK' /\ sent[f] + 1 \in NoSeq..MaxSeq
        BY <3>1 DEF TypeOK, SocketTypeOK, Number, NoSeq
      <4>2. QED
        BY <2>1, <2>3, <2>9, <3>1, <4>1 DEF onFrame
    <3>2. ASSUME Unnumbered(f), Append1(Record(DataPid(f), "error", f, NoSeq))
          PROVE TypeOK'
      <4>1. SocketTypeOK'
        BY <3>2 DEF TypeOK, SocketTypeOK, Unnumbered, socketVars
      <4>2. QED
        BY <2>1, <2>3, <2>4, <2>9, <3>2, <4>1 DEF onFrame, FrameKinds
    <3>3. QED
      BY <2>9, <3>1, <3>2 DEF onFrame
  <2>10. ASSUME NEW f \in Feeds, LoseFrame(f) PROVE TypeOK'
    <3>1. SocketTypeOK'
      BY <2>10 DEF TypeOK, SocketTypeOK, LoseFrame, Number, NoSeq
    <3>2. QED
      BY <2>2, <2>10, <3>1 DEF LoseFrame
  <2>11. ASSUME NEW p \in ForeignPids, ForeignWrite(p) PROVE TypeOK'
    <3>1. Foreign(p) \in Records
      BY DEF Foreign, Records, RecordKinds, Kinds, NoSeq
    <3>2. mux' \in Seq(Records)
      BY <2>11, <3>1, Append1Typed DEF ForeignWrite
    <3>3. SocketTypeOK'
      BY <2>11 DEF TypeOK, SocketTypeOK, ForeignWrite, socketVars
    <3>4. QED
      BY <2>11, <3>2, <3>3 DEF ForeignWrite, TypeOK, objectVars, readerVars, historyVars
  <2>12. ASSUME NEW c \in Clients, NEW o \in Offsets, Construct(c, o) PROVE TypeOK'
    <3> DEFINE D == DOMAIN clients_ \cup 0..(o + _PRODUCER_TYPE_COUNT_ - 1)
    <3>1. o + _PRODUCER_TYPE_COUNT_ \in Nat /\ _PRODUCER_TYPE_COUNT_ = 4 /\ o \in Nat
      BY DEF _PRODUCER_TYPE_COUNT_
    <3>2. DOMAIN clients_' = D /\ clients_' \in [D -> Clients \cup {Null}]
      <4>1. clients_ \in [DOMAIN clients_ -> Clients \cup {Null}]
        BY DEF TypeOK
      <4>2. /\ DOMAIN Resized(clients_, o + _PRODUCER_TYPE_COUNT_, Null) = D
            /\ Resized(clients_, o + _PRODUCER_TYPE_COUNT_, Null) \in [D -> Clients \cup {Null}]
        BY <3>1, <4>1 DEF Resized
      <4>3. clients_' = Resized(clients_, o + _PRODUCER_TYPE_COUNT_, Null)
        BY <2>12 DEF Construct, addClient
      <4>4. QED
        BY <4>2, <4>3
    <3>3. producer_types_' \in [D -> 0.._PRODUCER_TYPE_COUNT_]
      <4> DEFINE grown == Resized(producer_types_, o + _PRODUCER_TYPE_COUNT_, _PRODUCER_TYPE_COUNT_)
      <4>1. DOMAIN grown = D /\ grown \in [D -> 0.._PRODUCER_TYPE_COUNT_]
        <5>1. DOMAIN producer_types_ = DOMAIN clients_
              /\ producer_types_ \in [DOMAIN producer_types_ -> 0.._PRODUCER_TYPE_COUNT_]
          BY DEF TypeOK
        <5>2. _PRODUCER_TYPE_COUNT_ \in 0.._PRODUCER_TYPE_COUNT_
          BY <3>1
        <5>3. QED
          BY <3>1, <5>1, <5>2 DEF Resized
      <4>2. producer_types_' = [p \in D |->
              IF \E k \in Urls[c] : p \in {o + DataType(k), o + CtrlType(k)}
              THEN p - o ELSE grown[p]]
        BY <2>12, <4>1 DEF Construct, mapProducerTypes
      <4>3. \A k : DataType(k) \in 0..1 /\ CtrlType(k) \in 2..3
        BY DEF DataType, CtrlType
      <4>4. ASSUME NEW p \in D
            PROVE (IF \E k \in Urls[c] : p \in {o + DataType(k), o + CtrlType(k)}
                   THEN p - o ELSE grown[p]) \in 0.._PRODUCER_TYPE_COUNT_
        <5>1. grown[p] \in 0.._PRODUCER_TYPE_COUNT_
          BY <4>1
        <5>2. ASSUME NEW k, p \in {o + DataType(k), o + CtrlType(k)} PROVE p - o \in 0..4
          BY <3>1, <4>3, <5>2
        <5>3. QED
          BY <3>1, <5>1, <5>2
      <4> HIDE DEF grown, D
      <4>5. QED
        BY <4>2, <4>4
    <3>4. DOMAIN producer_types_' = D /\ DOMAIN clients_' \subseteq Nat
      BY <3>1, <3>2, <3>3 DEF TypeOK
    <3>5. SocketTypeOK'
      BY <2>12 DEF TypeOK, SocketTypeOK, Construct, socketVars
    <3>6. alive' \subseteq Clients /\ offset' \in [Clients -> Offsets \cup {0}] /\ used' \subseteq Offsets
      BY <2>12 DEF TypeOK, Construct
    <3>7. QED
      BY <2>12, <3>2, <3>3, <3>4, <3>5, <3>6 DEF TypeOK, Construct, historyVars
  <2>13. ASSUME NEW c \in Clients, Destroy(c) PROVE TypeOK'
    <3>1. SocketTypeOK'
      BY <2>13 DEF TypeOK, SocketTypeOK, Destroy, Detach, Statuses
    <3>2. QED
      BY <2>13, <3>1 DEF Destroy, TypeOK, readerVars, historyVars
  <2>14. ASSUME NEW c \in Clients, stop(c) PROVE TypeOK'
    <3>1. SocketTypeOK'
      BY <2>14 DEF TypeOK, SocketTypeOK, stop, Close, Statuses
    <3>2. QED
      BY <2>2, <2>14, <3>1 DEF stop
  <2>15. ASSUME NEW f \in Feeds, Subscribe(f) PROVE TypeOK'
    <3>1. SocketTypeOK'
      BY <2>15 DEF TypeOK, SocketTypeOK, Subscribe, Open, Statuses, NoSeq
    <3>2. QED
      BY <2>2, <2>15, <3>1 DEF Subscribe
  <2>16. ASSUME NEW max \in DrainCounts, EnterProcessData(max) PROVE TypeOK'
    <3>1. SocketTypeOK'
      BY <2>16 DEF TypeOK, SocketTypeOK, EnterProcessData, socketVars
    <3>2. QED
      BY <2>16, <3>1 DEF EnterProcessData, TypeOK, objectVars, readerVars, historyVars
  <2>17. ASSUME NoDataLeft PROVE TypeOK'
    <3>1. SocketTypeOK'
      BY <2>17 DEF TypeOK, SocketTypeOK, NoDataLeft, socketVars
    <3>2. QED
      BY <2>17, <3>1 DEF NoDataLeft, TypeOK, objectVars, readerVars, historyVars
  <2>18. ASSUME NEW r, SkipRecord(r) PROVE TypeOK'
    BY <2>18, ReadTyped DEF SkipRecord, Read, TypeOK, objectVars, historyVars
  <2>19. ASSUME NEW r, HandleConnected(r) PROVE TypeOK'
    <3>1. Read(r) /\ clients_' = SetSlots(r, r.client)
          /\ callback(<<r.client, r.kind>>, "connected", r.conn, FALSE)
      BY <2>19 DEF HandleConnected
    <3>2. r.client \in Clients \cup {Null} /\ r.kind \in Kinds /\ r.conn \in 0..MaxConn
      BY <3>1, ReadTyped DEF Records
    <3>3. event' \in Calls
      BY <3>1, <3>2, CallTyped
    <3>4. session' \in [Feeds -> 0..MaxConn] /\ heard' \in [Feeds -> NoSeq..MaxSeq]
      <4>1. session \in [Feeds -> 0..MaxConn] /\ heard \in [Feeds -> NoSeq..MaxSeq]
            /\ NoSeq \in NoSeq..MaxSeq
        BY DEF TypeOK, NoSeq
      <4>2. /\ session' = [session EXCEPT ![<<r.client, r.kind>>] = r.conn]
            /\ heard' = [heard EXCEPT ![<<r.client, r.kind>>] = NoSeq]
        BY <2>19 DEF HandleConnected
      <4>3. QED
        BY <3>2, <4>1, <4>2, ExceptTyped
    <3>5. DOMAIN clients_' = DOMAIN clients_ /\ clients_' \in [DOMAIN clients_ -> Clients \cup {Null}]
      <4>1. /\ DOMAIN SetSlots(r, r.client) = DOMAIN clients_
            /\ SetSlots(r, r.client) \in [DOMAIN clients_ -> Clients \cup {Null}]
        BY <3>2, SetSlotsTyped
      <4>2. QED
        BY <3>1, <4>1
    <3>6. left' \in Nat
      BY <2>19, <3>1, ReadTyped DEF HandleConnected, MayThrow
    <3>7. QED
      BY <2>19, <3>1, <3>3, <3>4, <3>5, <3>6, ReadTyped
         DEF HandleConnected, Read, TypeOK, objectVars
  <2>20. ASSUME NEW r, HandleDisconnected(r) PROVE TypeOK'
    <3>1. Read(r) /\ clients_' \in {clients_, SetSlots(r, Null)}
          /\ callback(<<r.client, r.kind>>, "disconnected", r.conn, FALSE)
      BY <2>20 DEF HandleDisconnected
    <3>2. r.client \in Clients \cup {Null} /\ r.kind \in Kinds /\ r.conn \in 0..MaxConn
      BY <3>1, ReadTyped DEF Records
    <3>3. event' \in Calls
      BY <3>1, <3>2, CallTyped
    <3>4. seq_nums_' \in [Feeds -> NoSeq..MaxSeq] /\ heard' \in [Feeds -> NoSeq..MaxSeq]
      <4>1. seq_nums_ \in [Feeds -> NoSeq..MaxSeq] /\ heard \in [Feeds -> NoSeq..MaxSeq]
            /\ NoSeq \in NoSeq..MaxSeq
        BY DEF TypeOK, NoSeq
      <4>2. /\ \/ seq_nums_' = seq_nums_
               \/ seq_nums_' = [seq_nums_ EXCEPT ![<<r.client, r.kind>>] = NoSeq]
            /\ heard' = [heard EXCEPT ![<<r.client, r.kind>>] = NoSeq]
        BY <2>20 DEF HandleDisconnected, resetSequence
      <4>3. heard' \in [Feeds -> NoSeq..MaxSeq]
        BY <4>1, <4>2, ExceptTyped
      <4>4. CASE seq_nums_' = seq_nums_
        BY <4>1, <4>3, <4>4
      <4>5. CASE seq_nums_' = [seq_nums_ EXCEPT ![<<r.client, r.kind>>] = NoSeq]
        BY <4>1, <4>3, <4>5, ExceptTyped
      <4>6. QED
        BY <4>2, <4>4, <4>5
    <3>5. DOMAIN clients_' = DOMAIN clients_ /\ clients_' \in [DOMAIN clients_ -> Clients \cup {Null}]
      <4>1. /\ DOMAIN SetSlots(r, Null) = DOMAIN clients_
            /\ SetSlots(r, Null) \in [DOMAIN clients_ -> Clients \cup {Null}]
        BY SetSlotsTyped
      <4>2. clients_ \in [DOMAIN clients_ -> Clients \cup {Null}]
        BY DEF TypeOK
      <4>3. QED
        BY <3>1, <4>1, <4>2
    <3>6. left' \in Nat
      BY <2>20, <3>1, ReadTyped DEF HandleDisconnected, MayThrow
    <3>7. QED
      BY <2>20, <3>1, <3>3, <3>4, <3>5, <3>6, ReadTyped
         DEF HandleDisconnected, Read, TypeOK, objectVars
  <2>21. ASSUME NEW r, HandleError(r) PROVE TypeOK'
    <3>1. Read(r)
      BY <2>21 DEF HandleError
    <3>2. r.client \in Clients \cup {Null} /\ r.kind \in Kinds /\ r.conn \in 0..MaxConn
      BY <3>1, ReadTyped DEF Records
    <3>3. event' \in Calls
      <4>1. CASE callback(<<r.client, r.kind>>, "error", r.conn, FALSE)
        BY <3>2, <4>1, CallTyped DEF RecordKinds, FrameKinds
      <4>2. CASE UNCHANGED event
        BY <4>2 DEF TypeOK
      <4>3. QED
        BY <2>21, <4>1, <4>2 DEF HandleError
    <3>4. left' \in Nat
      BY <2>21, <3>1, ReadTyped DEF HandleError, MayThrow
    <3>5. QED
      BY <2>21, <3>1, <3>3, <3>4, ReadTyped DEF HandleError, Read, TypeOK, objectVars
  <2>22. ASSUME NEW r, HandleFrame(r) PROVE TypeOK'
    <3> DEFINE c == clients_[r.pid]
               k == IF producer_types_[r.pid] = DataType("MD") THEN "MD" ELSE "USER"
               f == <<c, k>>
    <3>1. Read(r) /\ r.pid \in DOMAIN clients_
      BY <2>22 DEF HandleFrame, IsFrame, Known, TypeOK
    <3>2. /\ r.conn \in 0..MaxConn /\ r.seq \in NoSeq..MaxSeq /\ r.what \in RecordKinds
          /\ c \in Clients \cup {Null} /\ k \in Kinds
      <4>1. r \in Records
        BY <3>1, ReadTyped
      <4>2. c \in Clients \cup {Null}
        BY <3>1 DEF TypeOK
      <4>3. k \in Kinds
        BY DEF Kinds
      <4>4. QED
        BY <4>1, <4>2, <4>3 DEF Records
    <3>3. UNCHANGED <<clients_, session, producer_types_, alive, offset, used>>
      BY <2>22, <3>1 DEF HandleFrame, Read, objectVars
    <3>4. event' \in Calls /\ seq_nums_' \in [Feeds -> NoSeq..MaxSeq] /\ heard' \in [Feeds -> NoSeq..MaxSeq]
      <4>1. CASE c = Null \/ r.what = "junk"
        BY <2>22, <4>1 DEF HandleFrame, TypeOK
      <4>2. CASE ~(c = Null \/ r.what = "junk") /\ r.seq = NoSeq
        <5>1. callback(f, r.what, r.conn, FALSE) /\ UNCHANGED <<seq_nums_, heard>>
          BY <2>22, <4>2 DEF HandleFrame
        <5>2. QED
          BY <3>2, <5>1, CallTyped DEF TypeOK
      <4>3. CASE ~(c = Null \/ r.what = "junk") /\ r.seq # NoSeq
        <5>1. /\ seq_nums_' = [seq_nums_ EXCEPT ![f] = IF Follows(f, r.seq) THEN r.seq
                                                      ELSE LastSeq(f, r.seq)]
              /\ callback(f, r.what, r.conn, ~Follows(f, r.seq))
              /\ heard' = [heard EXCEPT ![f] = r.seq]
          BY <2>22, <4>3 DEF HandleFrame
        <5>2. f \in Feeds => LastSeq(f, r.seq) \in NoSeq..MaxSeq
          <6>1. r.seq - 1 \in NoSeq..MaxSeq
            BY <3>2, <4>3 DEF NoSeq
          <6>2. f \in Feeds => seq_nums_[f] \in NoSeq..MaxSeq
            <7> HIDE DEF f
            <7>1. QED
              BY DEF TypeOK
          <6>3. QED
            BY <6>1, <6>2 DEF LastSeq
        <5>3. (~Follows(f, r.seq)) \in BOOLEAN
          <6>1. CASE Follows(f, r.seq)
            BY <6>1
          <6>2. CASE ~Follows(f, r.seq)
            BY <6>2
          <6>3. QED
            BY <6>1, <6>2
        <5>4. event' \in Calls
          BY <3>2, <5>1, <5>3, CallTyped
        <5>5. seq_nums_' \in [Feeds -> NoSeq..MaxSeq] /\ heard' \in [Feeds -> NoSeq..MaxSeq]
          BY <3>2, <5>1, <5>2, ExceptTyped DEF TypeOK
        <5>6. QED
          BY <5>4, <5>5
      <4>4. QED
        BY <4>1, <4>2, <4>3
    <3>5. left' \in Nat
      BY <2>22, <3>1, ReadTyped DEF HandleFrame
    <3>6. QED
      BY <3>1, <3>3, <3>4, <3>5, ReadTyped DEF TypeOK
  <2>23. CASE UNCHANGED vars
    <3>1. SocketTypeOK'
      BY <2>23 DEF TypeOK, SocketTypeOK, vars, socketVars
    <3>2. QED
      BY <2>23, <3>1 DEF TypeOK, vars, objectVars, readerVars, historyVars
  <2>24. QED
    BY <2>5, <2>6, <2>7, <2>8, <2>9, <2>10, <2>11, <2>12, <2>13, <2>14, <2>15, <2>16, <2>17,
       <2>18, <2>19, <2>20, <2>21, <2>22, <2>23 DEF Next, IOThread, processData
<1>3. QED
  BY <1>1, <1>2, PTL DEF Spec

-----------------------------------------------------------------------------
(* Routing, for an application that drains a client before destroying it.  *)
(*                                                                         *)
(* A slot is safe to hold a client only because the record that clears it  *)
(* is always on its way: the connection a slot stands for is still open,   *)
(* or its DISCONNECTED record is in the queue.  The destructor waits for   *)
(* neither, so RoutedToOwner alone is not inductive.                       *)

\* No two clients alive share a producer id.
OffsetsDiffer ==
  /\ \A c \in alive : offset[c] \in used
  /\ \A c, d \in alive : c # d => offset[c] # offset[d]

\* The feeds of a client that is gone are down, and a feed that is down is closed.
DeadIsDown ==
  \A f \in Feeds :
    /\ f[1] \notin alive => status[f] = "DISCONNECTED"
    /\ status[f] = "DISCONNECTED" => ~opened[f]

\* Both vectors cover every id handed out.
RangesCovered ==
  \A o \in used : o..(o + _PRODUCER_TYPE_COUNT_ - 1) \subseteq DOMAIN clients_

\* The ids of a living client's feeds are mapped, and no id outside the ranges is.
PidsMapped ==
  /\ \A f \in Feeds : f[1] \in alive =>
       /\ producer_types_[DataPid(f)] = DataType(f[2])
       /\ producer_types_[CtrlPid(f)] = CtrlType(f[2])
  /\ \A p \in DOMAIN clients_ : producer_types_[p] # _PRODUCER_TYPE_COUNT_ =>
       \E o \in used : p \in o..(o + _PRODUCER_TYPE_COUNT_ - 1)

\* A record was written by a living client into its own producers, or by a
\* foreign producer.
WriterOf(r) == <<r.client, r.kind>>

FromWriter(r) ==
  \/ r.what = "foreign" /\ r.pid \in ForeignPids
  \/ /\ WriterOf(r) \in Feeds
     /\ r.client \in alive
     /\ \/ r.what \in CtrlKinds /\ r.pid = CtrlPid(WriterOf(r))
        \/ r.what \in FrameKinds /\ r.pid = DataPid(WriterOf(r))

QueueFromWriters == \A i \in 1..Len(mux) : FromWriter(mux[i])

\* Connection n of f is open, or its DISCONNECTED record is behind position i.
Opens(r, f, n) == r.what = "CONNECTED" /\ WriterOf(r) = f /\ r.conn = n

Closes(r, f, n) == r.what = "DISCONNECTED" /\ WriterOf(r) = f /\ r.conn = n

Ends(f, n, i) ==
  \/ opened[f] /\ conn[f] = n
  \/ \E j \in (i + 1)..Len(mux) : Closes(mux[j], f, n)

ConnectionsEnd ==
  \A f \in Feeds, n \in 0..MaxConn :
    /\ \A i \in 1..Len(mux) : Opens(mux[i], f, n) => Ends(f, n, i)
    /\ Announced(f) /\ session[f] = n => Ends(f, n, 0)

RoutingInv ==
  /\ OffsetsDiffer
  /\ DeadIsDown
  /\ RangesCovered
  /\ PidsMapped
  /\ QueueFromWriters
  /\ ConnectionsEnd
  /\ RoutedToOwner

\* Where the ids of a living client's feed lie, and that they are its own.
LEMMA PidRange ==
  ASSUME TypeOK, OffsetsDiffer, NEW f \in Feeds, f[1] \in alive
  PROVE  /\ offset[f[1]] \in used /\ offset[f[1]] \in Offsets /\ offset[f[1]] \in Nat
         /\ DataPid(f) = offset[f[1]] + DataType(f[2])
         /\ CtrlPid(f) = offset[f[1]] + DataType(f[2]) + 2
         /\ CtrlType(f[2]) = DataType(f[2]) + 2
         /\ DataType(f[2]) \in {0, 1}
         /\ f[2] = (IF DataType(f[2]) = DataType("MD") THEN "MD" ELSE "USER")
<1>1. offset[f[1]] \in used /\ offset[f[1]] \in Offsets /\ offset[f[1]] \in Nat
  BY UserThreadAssumption DEF OffsetsDiffer, TypeOK
<1>2. \/ f[2] = "MD" /\ DataType(f[2]) = 0 /\ CtrlType(f[2]) = 2
      \/ f[2] = "USER" /\ DataType(f[2]) = 1 /\ CtrlType(f[2]) = 3
  BY FeedIsPair DEF Kinds, DataType, CtrlType
<1>3. DataType("MD") = 0
  BY DEF DataType
<1>4. DataPid(f) = offset[f[1]] + DataType(f[2]) /\ CtrlPid(f) = offset[f[1]] + CtrlType(f[2])
  BY DEF DataPid, CtrlPid
<1>5. QED
  BY <1>1, <1>2, <1>3, <1>4

\* No producer id serves two feeds of live clients, nor both purposes of one.
LEMMA PidsDiffer ==
  ASSUME TypeOK, OffsetsDiffer, NEW f \in Feeds, NEW g \in Feeds, f[1] \in alive, g[1] \in alive
  PROVE  /\ DataPid(f) # CtrlPid(g)
         /\ DataPid(f) = DataPid(g) => f = g
         /\ CtrlPid(f) = CtrlPid(g) => f = g
<1>1. CASE f[1] = g[1]
  <2>1. f = <<f[1], f[2]>> /\ g = <<g[1], g[2]>>
    BY FeedIsPair
  <2>2. DataType(f[2]) = DataType(g[2]) => f[2] = g[2]
    BY PidRange
  <2>3. QED
    BY <1>1, <2>1, <2>2, PidRange
<1>2. CASE f[1] # g[1]
  <2>1. offset[f[1]] # offset[g[1]]
    BY <1>2 DEF OffsetsDiffer
  <2>2. /\ offset[f[1]] \in Offsets /\ offset[g[1]] \in Offsets
        /\ offset[f[1]] \in Nat /\ offset[g[1]] \in Nat
    BY PidRange
  <2>3. \/ offset[g[1]] < offset[f[1]] /\ offset[f[1]] >= offset[g[1]] + 4
        \/ offset[f[1]] < offset[g[1]] /\ offset[g[1]] >= offset[f[1]] + 4
    BY <2>1, <2>2, UserThreadAssumption DEF _PRODUCER_TYPE_COUNT_
  <2>4. QED
    BY <2>2, <2>3, PidRange
<1>3. QED
  BY <1>1, <1>2

\* The ids of a living client's feed are in the vectors.
LEMMA PidsCovered ==
  ASSUME TypeOK, OffsetsDiffer, RangesCovered, NEW f \in Feeds, f[1] \in alive
  PROVE  DataPid(f) \in DOMAIN clients_ /\ CtrlPid(f) \in DOMAIN clients_
<1>1. offset[f[1]]..(offset[f[1]] + 3) \subseteq DOMAIN clients_
  BY PidRange DEF RangesCovered, _PRODUCER_TYPE_COUNT_
<1>2. DataPid(f) \in offset[f[1]]..(offset[f[1]] + 3) /\ CtrlPid(f) \in offset[f[1]]..(offset[f[1]] + 3)
  BY PidRange
<1>3. QED
  BY <1>1, <1>2

\* A foreign producer's id is mapped to nothing.
LEMMA ForeignUnmapped ==
  ASSUME TypeOK, PidsMapped, NEW p \in ForeignPids, p \in DOMAIN clients_
  PROVE  producer_types_[p] = 4
<1>1. ASSUME NEW o \in used PROVE p \notin o..(o + 3)
  <2>1. o \in Offsets /\ o \in Nat /\ p \in Nat
    BY UserThreadAssumption DEF TypeOK
  <2>2. p # o
    BY <2>1, UserThreadAssumption
  <2>3. p < o \/ p >= o + 4
    BY <2>1, <2>2, UserThreadAssumption DEF _PRODUCER_TYPE_COUNT_
  <2>4. QED
    BY <2>1, <2>3
<1>2. QED
  BY <1>1 DEF PidsMapped, _PRODUCER_TYPE_COUNT_

\* A control record was written by the feed whose control producer it came from.
LEMMA CtrlWriter ==
  ASSUME TypeOK, RoutingInv, NEW r, r \in Records, FromWriter(r), IsCtrl(r)
  PROVE  /\ r.what \in CtrlKinds
         /\ WriterOf(r) \in Feeds /\ WriterOf(r)[1] = r.client /\ WriterOf(r)[2] = r.kind
         /\ r.client \in alive
         /\ r.pid = CtrlPid(WriterOf(r))
         /\ Slots(r) = {CtrlPid(WriterOf(r)), DataPid(WriterOf(r))}
<1> DEFINE f == WriterOf(r)
<1>1. r.pid \in DOMAIN clients_ /\ producer_types_[r.pid] \in {2, 3}
  BY DEF IsCtrl, Known, TypeOK, CtrlType
<1>2. ~(r.what = "foreign" /\ r.pid \in ForeignPids)
  BY <1>1, ForeignUnmapped DEF RoutingInv
<1>3. f \in Feeds /\ r.client \in alive /\ f[1] = r.client /\ f[2] = r.kind
  BY <1>2 DEF FromWriter, WriterOf
<1>4. producer_types_[DataPid(f)] = DataType(f[2])
  BY <1>3 DEF RoutingInv, PidsMapped
<1>5. r.what \in CtrlKinds /\ r.pid = CtrlPid(f)
  BY <1>1, <1>2, <1>3, <1>4, PidRange DEF FromWriter, RoutingInv
<1>6. Slots(r) = {CtrlPid(f), DataPid(f)}
  BY <1>3, <1>5, PidRange DEF Slots, RoutingInv
<1>7. QED
  BY <1>3, <1>5, <1>6

\* A frame was written by the feed whose data producer it came from.
LEMMA FrameWriter ==
  ASSUME TypeOK, RoutingInv, NEW r, r \in Records, FromWriter(r), IsFrame(r)
  PROVE  /\ r.what \in FrameKinds
         /\ WriterOf(r) \in Feeds /\ WriterOf(r)[1] = r.client /\ WriterOf(r)[2] = r.kind
         /\ r.client \in alive
         /\ r.pid = DataPid(WriterOf(r))
         /\ producer_types_[r.pid] = DataType(r.kind)
<1> DEFINE f == WriterOf(r)
<1>1. r.pid \in DOMAIN clients_ /\ producer_types_[r.pid] \in {0, 1}
  BY DEF IsFrame, Known, TypeOK, DataType
<1>2. ~(r.what = "foreign" /\ r.pid \in ForeignPids)
  BY <1>1, ForeignUnmapped DEF RoutingInv
<1>3. f \in Feeds /\ r.client \in alive /\ f[1] = r.client /\ f[2] = r.kind
  BY <1>2 DEF FromWriter, WriterOf
<1>4. producer_types_[CtrlPid(f)] = CtrlType(f[2]) /\ producer_types_[DataPid(f)] = DataType(f[2])
  BY <1>3 DEF RoutingInv, PidsMapped
<1>5. r.what \in FrameKinds /\ r.pid = DataPid(f)
  BY <1>1, <1>2, <1>3, <1>4, PidRange DEF FromWriter, RoutingInv
<1>6. QED
  BY <1>3, <1>4, <1>5

\* A slot of a living client's feed that is not nullptr holds that client.
LEMMA SlotOfFeed ==
  ASSUME TypeOK, RoutingInv, NEW f \in Feeds, f[1] \in alive, NEW p,
         p \in {DataPid(f), CtrlPid(f)}, clients_[p] # Null
  PROVE  Announced(f) /\ clients_[p] = f[1]
<1>1. p \in DOMAIN clients_
  BY PidsCovered DEF RoutingInv
<1>2. PICK g \in Feeds : g[1] = clients_[p] /\ p \in {DataPid(g), CtrlPid(g)} /\ Announced(g)
  BY <1>1 DEF RoutingInv, RoutedToOwner
<1>3. g[1] \in alive
  BY <1>2 DEF Announced
<1>4. f = g
  BY <1>2, <1>3, PidsDiffer DEF RoutingInv
<1>5. QED
  BY <1>2, <1>4

\* Who wrote a record and which ids a feed has depends on the clients alone.
LEMMA WritersKept ==
  ASSUME UNCHANGED objectVars
  PROVE  /\ \A f : DataPid(f)' = DataPid(f) /\ CtrlPid(f)' = CtrlPid(f)
         /\ \A r : FromWriter(r)' <=> FromWriter(r)
<1>1. \A f : DataPid(f)' = DataPid(f) /\ CtrlPid(f)' = CtrlPid(f)
  BY DEF DataPid, CtrlPid, objectVars
<1>2. \A r : FromWriter(r)' <=> FromWriter(r)
  BY <1>1 DEF FromWriter, objectVars
<1>3. QED
  BY <1>1, <1>2

\* Writing slots changes nothing the ids rest on.
LEMMA IdsKept ==
  ASSUME TypeOK, RoutingInv, DOMAIN clients_' = DOMAIN clients_,
         UNCHANGED <<objectVars, producer_types_>>
  PROVE  OffsetsDiffer' /\ RangesCovered' /\ PidsMapped'
<1>1. OffsetsDiffer' /\ RangesCovered'
  BY DEF RoutingInv, OffsetsDiffer, RangesCovered, objectVars
<1>2. PidsMapped'
  BY WritersKept DEF RoutingInv, PidsMapped, objectVars
<1>3. QED
  BY <1>1, <1>2

\* A step that leaves the clients and both vectors alone keeps what routing
\* rests on.
LEMMA OwnershipKept ==
  ASSUME TypeOK, RoutingInv, UNCHANGED <<objectVars, clients_, producer_types_>>
  PROVE  /\ OffsetsDiffer' /\ RangesCovered' /\ PidsMapped' /\ RoutedToOwner'
         /\ \A f : Announced(f)' <=> Announced(f)
         /\ \A r : FromWriter(r)' <=> FromWriter(r)
<1>1. UNCHANGED objectVars
  OBVIOUS
<1>2. \A f : Announced(f)' <=> Announced(f)
  BY <1>1, WritersKept DEF Announced, objectVars
<1>3. RoutedToOwner'
  BY <1>1, <1>2, WritersKept DEF RoutingInv, RoutedToOwner
<1>4. QED
  BY <1>1, <1>2, <1>3, IdsKept, WritersKept

\* A step that appends nothing and ends no connection keeps the invariant.
LEMMA SilentStep ==
  ASSUME TypeOK, RoutingInv, DeadIsDown', mux' = mux,
         UNCHANGED <<objectVars, clients_, producer_types_, session>>,
         \A g \in Feeds : opened[g] => opened'[g] /\ conn'[g] = conn[g]
  PROVE  RoutingInv'
<1>1. QueueFromWriters'
  BY OwnershipKept DEF RoutingInv, QueueFromWriters
<1>2. \A g \in Feeds : \A n, i : Ends(g, n, i) => Ends(g, n, i)'
  BY DEF Ends
<1>3. ConnectionsEnd'
  BY <1>2, OwnershipKept DEF RoutingInv, ConnectionsEnd
<1>4. QED
  BY <1>1, <1>3, OwnershipKept DEF RoutingInv

\* So does one that appends a record of its writer, if it ends a connection
\* only with a DISCONNECTED record and announces one only while it is open.
LEMMA AppendStep ==
  ASSUME TypeOK, RoutingInv, DeadIsDown',
         NEW r \in Records, mux' = Append(mux, r), FromWriter(r),
         UNCHANGED <<objectVars, clients_, producer_types_, session>>,
         \A g \in Feeds : opened[g] => \/ opened'[g] /\ conn'[g] = conn[g]
                                       \/ Closes(r, g, conn[g]),
         \A g \in Feeds : \A n : Opens(r, g, n) => opened'[g] /\ conn'[g] = n
  PROVE  RoutingInv'
<1>1. /\ Len(mux) \in Nat /\ Len(mux') = Len(mux) + 1
      /\ \A i \in 1..Len(mux) : mux'[i] = mux[i]
      /\ mux'[Len(mux) + 1] = r
  BY AppendAt DEF TypeOK
<1>2. QueueFromWriters'
  <2>1. ASSUME NEW i \in 1..(Len(mux) + 1) PROVE FromWriter(mux'[i])
    BY <1>1 DEF RoutingInv, QueueFromWriters
  <2>2. QED
    BY <1>1, <2>1, OwnershipKept DEF QueueFromWriters
<1>3. ASSUME NEW g \in Feeds, NEW n, NEW i \in 0..Len(mux), Ends(g, n, i) PROVE Ends(g, n, i)'
  <2>1. CASE opened[g] /\ conn[g] = n
    BY <1>1, <2>1 DEF Ends
  <2>2. ASSUME NEW j \in (i + 1)..Len(mux), Closes(mux[j], g, n) PROVE Ends(g, n, i)'
    <3>1. j \in (i + 1)..Len(mux') /\ mux'[j] = mux[j]
      BY <1>1
    <3>2. QED
      BY <2>2, <3>1 DEF Ends
  <2>3. QED
    BY <1>3, <2>1, <2>2 DEF Ends
<1>4. ASSUME NEW g \in Feeds, NEW n \in 0..MaxConn, NEW i \in 1..(Len(mux) + 1),
             Opens(mux'[i], g, n)
      PROVE Ends(g, n, i)'
  <2>1. CASE i = Len(mux) + 1
    BY <1>1, <1>4, <2>1 DEF Ends
  <2>2. CASE i \in 1..Len(mux)
    <3>1. mux'[i] = mux[i] /\ i \in 0..Len(mux)
      BY <1>1, <2>2
    <3>2. Ends(g, n, i)
      BY <1>4, <2>2, <3>1 DEF RoutingInv, ConnectionsEnd
    <3>3. QED
      BY <1>3, <3>1, <3>2
  <2>3. QED
    BY <1>1, <2>1, <2>2
<1>5. ASSUME NEW g \in Feeds, NEW n \in 0..MaxConn, Announced(g)', session'[g] = n
      PROVE Ends(g, n, 0)'
  <2>1. Announced(g) /\ session[g] = n
    BY <1>5, OwnershipKept
  <2>2. Ends(g, n, 0) /\ 0 \in 0..Len(mux)
    BY <1>1, <2>1 DEF RoutingInv, ConnectionsEnd
  <2>3. QED
    BY <1>3, <2>2
<1>6. ConnectionsEnd'
  BY <1>1, <1>4, <1>5 DEF ConnectionsEnd
<1>7. QED
  BY <1>2, <1>6, OwnershipKept DEF RoutingInv

\* Reading the head of the queue: what was promised of the rest still holds.
LEMMA TailStep ==
  ASSUME TypeOK, RoutingInv, NEW r, Read(r)
  PROVE  /\ r \in Records /\ FromWriter(r) /\ Len(mux) \in Nat \ {0} /\ r = mux[1]
         /\ UNCHANGED objectVars /\ DeadIsDown' /\ QueueFromWriters'
         /\ \A g \in Feeds, n \in 0..MaxConn :
              /\ Ends(g, n, 0) /\ ~Closes(r, g, n) => Ends(g, n, 0)'
              /\ Opens(r, g, n) => Ends(g, n, 0)'
              /\ \A i \in 1..Len(mux') : Opens(mux'[i], g, n) => Ends(g, n, i)'
<1>1. /\ Len(mux) \in Nat \ {0} /\ Len(mux') = Len(mux) - 1
      /\ \A i \in 1..Len(mux') : mux'[i] = mux[i + 1]
      /\ r = mux[1]
  BY TailAt DEF TypeOK, Read
<1>2. r \in Records /\ FromWriter(r)
  BY <1>1, ReadTyped DEF RoutingInv, QueueFromWriters
<1>3. UNCHANGED objectVars /\ DeadIsDown'
  BY DEF Read, RoutingInv, DeadIsDown, socketVars, objectVars
<1>4. QueueFromWriters'
  <2>1. ASSUME NEW i \in 1..Len(mux') PROVE FromWriter(mux'[i])
    BY <1>1 DEF RoutingInv, QueueFromWriters
  <2>2. QED
    BY <1>3, <2>1, WritersKept DEF QueueFromWriters
<1>5. ASSUME NEW g \in Feeds, NEW n, NEW i \in 1..Len(mux), Ends(g, n, i)
      PROVE Ends(g, n, i - 1)'
  <2>1. CASE opened[g] /\ conn[g] = n
    BY <2>1 DEF Ends, Read, socketVars
  <2>2. ASSUME NEW j \in (i + 1)..Len(mux), Closes(mux[j], g, n) PROVE Ends(g, n, i - 1)'
    <3>1. j - 1 \in ((i - 1) + 1)..Len(mux') /\ mux'[j - 1] = mux[j]
      BY <1>1
    <3>2. QED
      BY <2>2, <3>1 DEF Ends
  <2>3. QED
    BY <1>5, <2>1, <2>2 DEF Ends
<1>6. ASSUME NEW g \in Feeds, NEW n, Ends(g, n, 0), ~Closes(r, g, n) PROVE Ends(g, n, 0)'
  <2>1. Ends(g, n, 1)
    BY <1>1, <1>6 DEF Ends
  <2>2. 1 \in 1..Len(mux) /\ 1 - 1 = 0
    BY <1>1
  <2>3. QED
    BY <1>5, <2>1, <2>2
<1>7. ASSUME NEW g \in Feeds, NEW n \in 0..MaxConn, Opens(r, g, n) PROVE Ends(g, n, 0)'
  <2>1. 1 \in 1..Len(mux) /\ 1 - 1 = 0
    BY <1>1
  <2>2. Ends(g, n, 1)
    BY <1>1, <1>7, <2>1 DEF RoutingInv, ConnectionsEnd
  <2>3. QED
    BY <1>5, <2>1, <2>2
<1>8. ASSUME NEW g \in Feeds, NEW n \in 0..MaxConn, NEW i \in 1..Len(mux'), Opens(mux'[i], g, n)
      PROVE Ends(g, n, i)'
  <2>1. i + 1 \in 1..Len(mux) /\ mux'[i] = mux[i + 1] /\ (i + 1) - 1 = i
    BY <1>1
  <2>2. Ends(g, n, i + 1)
    BY <1>8, <2>1 DEF RoutingInv, ConnectionsEnd
  <2>3. QED
    BY <1>5, <2>1, <2>2
<1>9. QED
  BY <1>1, <1>2, <1>3, <1>4, <1>6, <1>7, <1>8

\* A record that changes no slot.
LEMMA QuietRead ==
  ASSUME TypeOK, RoutingInv, NEW r, Read(r), r.what # "DISCONNECTED",
         UNCHANGED <<clients_, session>>
  PROVE  RoutingInv'
<1>1. UNCHANGED <<objectVars, clients_, producer_types_>>
  BY DEF Read
<1>2. ConnectionsEnd'
  BY <1>1, TailStep, OwnershipKept DEF RoutingInv, ConnectionsEnd, Closes
<1>3. QED
  BY <1>1, <1>2, TailStep, OwnershipKept DEF RoutingInv

\* A control record is never skipped: its producer is mapped.
LEMMA CtrlIsMapped ==
  ASSUME TypeOK, RoutingInv, NEW r, r \in Records, FromWriter(r), r.what \in CtrlKinds
  PROVE  IsCtrl(r)
<1> DEFINE f == WriterOf(r)
<1>1. f \in Feeds /\ r.client \in alive /\ f[1] = r.client /\ r.pid = CtrlPid(f)
  BY DEF FromWriter, WriterOf, CtrlKinds, FrameKinds
<1>2. producer_types_[r.pid] = CtrlType(f[2]) /\ f[2] \in Kinds
  BY <1>1, FeedIsPair DEF RoutingInv, PidsMapped
<1>3. r.pid \in DOMAIN producer_types_
  BY <1>1, PidsCovered DEF RoutingInv, TypeOK
<1>4. QED
  BY <1>2, <1>3 DEF IsCtrl, Known

\* Writing the slots of one feed leaves every other feed announced or not, as
\* it was.
LEMMA OthersKept ==
  ASSUME TypeOK, RoutingInv, NEW r, r \in Records, FromWriter(r), IsCtrl(r),
         UNCHANGED objectVars, NEW c, clients_' = SetSlots(r, c)
  PROVE  /\ DOMAIN clients_' = DOMAIN clients_
         /\ \A p \in DOMAIN clients_ :
              clients_'[p] = IF p \in Slots(r) THEN c ELSE clients_[p]
         /\ \A p \in Slots(r) : p \in DOMAIN clients_
         /\ \A g \in Feeds : g # WriterOf(r) /\ g[1] \in alive =>
              /\ DataPid(g) \notin Slots(r) /\ CtrlPid(g) \notin Slots(r)
              /\ Announced(g)' <=> Announced(g)
<1> DEFINE f == WriterOf(r)
<1>1. /\ DOMAIN clients_' = DOMAIN clients_
      /\ \A p \in DOMAIN clients_ : clients_'[p] = IF p \in Slots(r) THEN c ELSE clients_[p]
  BY DEF SetSlots
<1>2. f \in Feeds /\ f[1] \in alive /\ Slots(r) = {CtrlPid(f), DataPid(f)}
  BY CtrlWriter
<1>3. \A p \in Slots(r) : p \in DOMAIN clients_
  BY <1>2, PidsCovered DEF RoutingInv
<1>4. ASSUME NEW g \in Feeds, g # f, g[1] \in alive
      PROVE  /\ DataPid(g) \notin Slots(r) /\ CtrlPid(g) \notin Slots(r)
             /\ Announced(g)' <=> Announced(g)
  <2>1. DataPid(g) \notin Slots(r) /\ CtrlPid(g) \notin Slots(r)
    BY <1>2, <1>4, PidsDiffer DEF RoutingInv
  <2>2. DataPid(g) \in DOMAIN clients_ /\ CtrlPid(g) \in DOMAIN clients_
    BY <1>4, PidsCovered DEF RoutingInv
  <2>3. QED
    BY <1>1, <2>1, <2>2, WritersKept DEF Announced, objectVars
<1>5. QED
  BY <1>1, <1>3, <1>4

\* Reading a CONNECTED record gives its feed the two slots and nobody else's.
LEMMA ConnectedStep ==
  ASSUME TypeOK, RoutingInv, NEW r, HandleConnected(r)
  PROVE  RoutingInv'
<1> DEFINE f == WriterOf(r)
<1>1. /\ Read(r) /\ IsCtrl(r) /\ r.what = "CONNECTED" /\ clients_' = SetSlots(r, r.client)
      /\ session' = [session EXCEPT ![f] = r.conn]
  BY DEF HandleConnected, WriterOf
<1>2. /\ r \in Records /\ FromWriter(r) /\ UNCHANGED <<objectVars, producer_types_>>
      /\ DeadIsDown' /\ QueueFromWriters'
  BY <1>1, TailStep DEF Read
<1>3. /\ f \in Feeds /\ f[1] = r.client /\ r.client \in alive
      /\ Slots(r) = {CtrlPid(f), DataPid(f)}
  BY <1>1, <1>2, CtrlWriter
<1>4. Announced(f)'
  BY <1>1, <1>2, <1>3, OthersKept, WritersKept DEF Announced, objectVars
<1>5. ASSUME NEW g \in Feeds, g # f PROVE Announced(g)' <=> Announced(g)
  BY <1>1, <1>2, <1>5, OthersKept DEF Announced, objectVars
<1>6. RoutedToOwner'
  <2> SUFFICES ASSUME NEW p \in DOMAIN clients_', clients_'[p] # Null
               PROVE \E g \in Feeds : /\ g[1] = clients_'[p]
                                      /\ p \in {DataPid(g), CtrlPid(g)}
                                      /\ Announced(g)'
    BY <1>2, WritersKept DEF RoutedToOwner
  <2>1. CASE p \in Slots(r)
    BY <1>1, <1>2, <1>3, <1>4, <2>1, OthersKept
  <2>2. CASE p \notin Slots(r)
    <3>1. p \in DOMAIN clients_ /\ clients_'[p] = clients_[p]
      BY <1>1, <1>2, <2>2, OthersKept
    <3>2. PICK g \in Feeds : g[1] = clients_[p] /\ p \in {DataPid(g), CtrlPid(g)} /\ Announced(g)
      BY <3>1 DEF RoutingInv, RoutedToOwner
    <3>3. QED
      BY <1>4, <1>5, <3>1, <3>2
  <2>3. QED
    BY <2>1, <2>2
<1>7. ConnectionsEnd'
  <2>1. ASSUME NEW g \in Feeds, NEW n \in 0..MaxConn, Announced(g)', session'[g] = n
        PROVE Ends(g, n, 0)'
    <3>1. CASE g = f
      <4>1. n = r.conn
        BY <1>1, <1>3, <2>1, <3>1 DEF TypeOK
      <4>2. Opens(r, g, n)
        BY <1>1, <3>1, <4>1 DEF Opens
      <4>3. QED
        BY <1>1, <4>2, TailStep
    <3>2. CASE g # f
      <4>1. Announced(g) /\ session[g] = n
        BY <1>1, <1>5, <2>1, <3>2 DEF TypeOK
      <4>2. Ends(g, n, 0) /\ ~Closes(r, g, n)
        BY <1>1, <4>1 DEF RoutingInv, ConnectionsEnd, Closes
      <4>3. QED
        BY <1>1, <4>2, TailStep
    <3>3. QED
      BY <3>1, <3>2
  <2>2. QED
    BY <1>1, <2>1, TailStep DEF ConnectionsEnd
<1>8. DOMAIN clients_' = DOMAIN clients_
  BY <1>1, <1>2, OthersKept
<1>9. QED
  BY <1>2, <1>6, <1>7, <1>8, IdsKept DEF RoutingInv

\* Reading a DISCONNECTED record takes both slots of its feed and no other.
LEMMA DisconnectedStep ==
  ASSUME TypeOK, RoutingInv, "DISCONNECTED" \notin Throwing, NEW r, HandleDisconnected(r)
  PROVE  RoutingInv'
<1> DEFINE f == WriterOf(r)
<1>1. /\ Read(r) /\ IsCtrl(r) /\ r.what = "DISCONNECTED" /\ clients_' = SetSlots(r, Null)
      /\ UNCHANGED session
  BY DEF HandleDisconnected, MayThrow
<1>2. /\ r \in Records /\ FromWriter(r) /\ UNCHANGED <<objectVars, producer_types_>>
      /\ DeadIsDown' /\ QueueFromWriters'
  BY <1>1, TailStep DEF Read
<1>3. /\ f \in Feeds /\ f[1] = r.client /\ r.client \in alive
      /\ Slots(r) = {CtrlPid(f), DataPid(f)}
  BY <1>1, <1>2, CtrlWriter
<1>4. ~Announced(f)'
  <2>1. clients_'[DataPid(f)] = Null /\ DataPid(f)' = DataPid(f)
    BY <1>1, <1>2, <1>3, OthersKept, WritersKept
  <2>2. f[1] # Null
    BY <1>3, FeedIsPair, UserThreadAssumption
  <2>3. QED
    BY <2>1, <2>2 DEF Announced
<1>5. ASSUME NEW g \in Feeds, g # f PROVE Announced(g)' <=> Announced(g)
  BY <1>1, <1>2, <1>5, OthersKept DEF Announced, objectVars
<1>6. RoutedToOwner'
  <2> SUFFICES ASSUME NEW p \in DOMAIN clients_', clients_'[p] # Null
               PROVE \E g \in Feeds : /\ g[1] = clients_'[p]
                                      /\ p \in {DataPid(g), CtrlPid(g)}
                                      /\ Announced(g)'
    BY <1>2, WritersKept DEF RoutedToOwner
  <2>1. p \in DOMAIN clients_ /\ p \notin Slots(r) /\ clients_'[p] = clients_[p]
    BY <1>1, <1>2, OthersKept
  <2>2. PICK g \in Feeds : g[1] = clients_[p] /\ p \in {DataPid(g), CtrlPid(g)} /\ Announced(g)
    BY <2>1 DEF RoutingInv, RoutedToOwner
  <2>3. g # f
    BY <1>3, <2>1, <2>2
  <2>4. QED
    BY <1>5, <2>1, <2>2, <2>3
<1>7. ConnectionsEnd'
  <2>1. ASSUME NEW g \in Feeds, NEW n \in 0..MaxConn, Announced(g)', session'[g] = n
        PROVE Ends(g, n, 0)'
    <3>1. g # f
      BY <1>4, <2>1
    <3>2. Announced(g) /\ session[g] = n
      BY <1>1, <1>5, <2>1, <3>1
    <3>3. Ends(g, n, 0) /\ ~Closes(r, g, n)
      BY <3>1, <3>2 DEF RoutingInv, ConnectionsEnd, Closes
    <3>4. QED
      BY <1>1, <3>3, TailStep
  <2>2. QED
    BY <1>1, <2>1, TailStep DEF ConnectionsEnd
<1>8. DOMAIN clients_' = DOMAIN clients_
  BY <1>1, <1>2, OthersKept
<1>9. QED
  BY <1>2, <1>6, <1>7, <1>8, IdsKept DEF RoutingInv

\* What a client writes about one of its feeds is from its writer.
LEMMA RecordFromWriter ==
  ASSUME NEW f \in Feeds, f[1] \in alive, NEW p, NEW what, NEW q,
         \/ what \in CtrlKinds /\ p = CtrlPid(f)
         \/ what \in FrameKinds /\ p = DataPid(f)
  PROVE  /\ FromWriter(Record(p, what, f, q))
         /\ WriterOf(Record(p, what, f, q)) = f
         /\ Record(p, what, f, q).what = what
         /\ Record(p, what, f, q).conn = conn[f]
<1>1. WriterOf(Record(p, what, f, q)) = f
  BY FeedIsPair DEF Record, WriterOf
<1>2. QED
  BY <1>1 DEF Record, FromWriter

\* What vector::resize leaves: the old elements, and fill after them.
LEMMA ResizedAt ==
  ASSUME NEW v, NEW sz, NEW fill
  PROVE  /\ DOMAIN Resized(v, sz, fill) = DOMAIN v \cup 0..(sz - 1)
         /\ \A p \in DOMAIN v : Resized(v, sz, fill)[p] = v[p]
         /\ \A p \in DOMAIN Resized(v, sz, fill) : p \notin DOMAIN v => Resized(v, sz, fill)[p] = fill
BY DEF Resized

\* A client constructed at a free address with a fresh offset owns no slot yet,
\* and its ids lie inside the vectors; no connection is announced or ended.
LEMMA ConstructStep ==
  ASSUME TypeOK, RoutingInv, NEW c \in Clients, NEW o \in Offsets, Construct(c, o)
  PROVE  RoutingInv' /\ \A g \in Feeds : Announced(g)' <=> Announced(g)
<1>0. _PRODUCER_TYPE_COUNT_ = 4
  BY DEF _PRODUCER_TYPE_COUNT_
<1>1. /\ c \notin alive /\ o \notin used /\ o \in Nat
      /\ alive' = alive \cup {c} /\ used' = used \cup {o}
      /\ offset' = [offset EXCEPT ![c] = o]
      /\ UNCHANGED <<mux, session>>
  BY UserThreadAssumption DEF Construct, historyVars
<1>2. /\ DOMAIN clients_' = DOMAIN clients_ \cup 0..(o + 3)
      /\ \A p \in DOMAIN clients_' :
           clients_'[p] = IF p \in DOMAIN clients_ THEN clients_[p] ELSE Null
  <2>1. clients_' = Resized(clients_, o + _PRODUCER_TYPE_COUNT_, Null)
    BY DEF Construct, addClient
  <2>2. 0..((o + _PRODUCER_TYPE_COUNT_) - 1) = 0..(o + 3)
    BY <1>0, <1>1
  <2>3. clients_' = [p \in DOMAIN clients_ \cup 0..((o + _PRODUCER_TYPE_COUNT_) - 1) |->
                       IF p \in DOMAIN clients_ THEN clients_[p] ELSE Null]
    BY <2>1 DEF Resized
  <2>4. QED
    BY <2>2, <2>3
<1>3. \A p \in DOMAIN clients_' : producer_types_'[p] =
        IF \E k \in Urls[c] : p \in {o + DataType(k), o + CtrlType(k)} THEN p - o
        ELSE IF p \in DOMAIN clients_ THEN producer_types_[p] ELSE _PRODUCER_TYPE_COUNT_
  <2> DEFINE grown == Resized(producer_types_, o + _PRODUCER_TYPE_COUNT_, _PRODUCER_TYPE_COUNT_)
  <2>1. producer_types_' = [p \in DOMAIN grown |->
          IF \E k \in Urls[c] : p \in {o + DataType(k), o + CtrlType(k)}
          THEN p - o ELSE grown[p]]
    BY DEF Construct, mapProducerTypes
  <2>2. DOMAIN producer_types_ = DOMAIN clients_
    BY DEF TypeOK
  <2>3. /\ DOMAIN grown = DOMAIN producer_types_ \cup 0..((o + _PRODUCER_TYPE_COUNT_) - 1)
        /\ \A p \in DOMAIN producer_types_ : grown[p] = producer_types_[p]
        /\ \A p \in DOMAIN grown : p \notin DOMAIN producer_types_ => grown[p] = _PRODUCER_TYPE_COUNT_
    BY ResizedAt
  <2> HIDE DEF grown
  <2>4. DOMAIN grown = DOMAIN clients_'
    BY <1>0, <1>1, <1>2, <2>2, <2>3
  <2> SUFFICES ASSUME NEW p \in DOMAIN clients_'
               PROVE  producer_types_'[p] =
                        IF \E k \in Urls[c] : p \in {o + DataType(k), o + CtrlType(k)} THEN p - o
                        ELSE IF p \in DOMAIN clients_ THEN producer_types_[p]
                        ELSE _PRODUCER_TYPE_COUNT_
    OBVIOUS
  <2>5. grown[p] = IF p \in DOMAIN clients_ THEN producer_types_[p] ELSE _PRODUCER_TYPE_COUNT_
    BY <2>2, <2>3, <2>4
  <2>6. producer_types_'[p] =
          IF \E k \in Urls[c] : p \in {o + DataType(k), o + CtrlType(k)} THEN p - o ELSE grown[p]
    BY <2>1, <2>4
  <2>7. QED
    BY <2>5, <2>6
<1>4. ASSUME NEW u \in used, NEW p \in o..(o + 3) PROVE p \notin u..(u + 3)
  <2>1. u \in Offsets /\ u \in Nat /\ u # o
    BY <1>1, UserThreadAssumption DEF TypeOK
  <2>2. (o < u \/ o >= u + 4) /\ (u < o \/ u >= o + 4)
    BY <1>0, <2>1, UserThreadAssumption
  <2>3. QED
    BY <1>1, <2>1, <2>2
<1>5. ASSUME NEW g \in Feeds, g[1] \in alive
      PROVE  /\ DataPid(g)' = DataPid(g) /\ CtrlPid(g)' = CtrlPid(g)
             /\ DataPid(g) \in DOMAIN clients_ /\ CtrlPid(g) \in DOMAIN clients_
             /\ DataPid(g) \notin o..(o + 3) /\ CtrlPid(g) \notin o..(o + 3)
  <2>1. g[1] # c /\ g[1] \in Clients
    BY <1>1, <1>5, FeedIsPair
  <2>2. offset'[g[1]] = offset[g[1]]
    BY <1>1, <2>1 DEF TypeOK
  <2>3. DataPid(g)' = DataPid(g) /\ CtrlPid(g)' = CtrlPid(g)
    BY <2>2 DEF DataPid, CtrlPid
  <2>4. offset[g[1]] \in used /\ DataPid(g) \in offset[g[1]]..(offset[g[1]] + 3)
        /\ CtrlPid(g) \in offset[g[1]]..(offset[g[1]] + 3)
    BY <1>5, PidRange DEF RoutingInv
  <2>5. QED
    BY <1>4, <1>5, <2>3, <2>4, PidsCovered DEF RoutingInv
<1>6. ASSUME NEW g \in Feeds, g[1] = c
      PROVE  /\ DataPid(g)' = o + DataType(g[2]) /\ CtrlPid(g)' = o + CtrlType(g[2])
             /\ DataPid(g)' \in o..(o + 3) /\ CtrlPid(g)' \in o..(o + 3)
             /\ g[2] \in Urls[c]
             /\ (o + DataType(g[2])) - o = DataType(g[2]) /\ (o + CtrlType(g[2])) - o = CtrlType(g[2])
  <2>1. offset'[g[1]] = o
    BY <1>1, <1>6 DEF TypeOK
  <2>2. DataPid(g)' = o + DataType(g[2]) /\ CtrlPid(g)' = o + CtrlType(g[2])
    BY <2>1 DEF DataPid, CtrlPid
  <2>3. DataType(g[2]) \in 0..1 /\ CtrlType(g[2]) \in 2..3
    BY DEF DataType, CtrlType
  <2>4. g[2] \in Urls[c]
    BY <1>6 DEF Feeds
  <2>5. QED
    BY <1>1, <2>2, <2>3, <2>4
<1>7. ASSUME NEW p \in o..(o + 3) PROVE p \in DOMAIN clients_' /\ clients_'[p] = Null
  <2>1. p \in DOMAIN clients_'
    BY <1>1, <1>2
  <2>2. p \in DOMAIN clients_ => clients_[p] = Null
    <3>1. SUFFICES ASSUME p \in DOMAIN clients_, clients_[p] # Null PROVE FALSE
      OBVIOUS
    <3>2. PICK g \in Feeds : p \in {DataPid(g), CtrlPid(g)} /\ Announced(g)
      BY <3>1 DEF RoutingInv, RoutedToOwner
    <3>3. QED
      BY <1>5, <3>2 DEF Announced
  <2>3. QED
    BY <1>2, <2>1, <2>2
<1>8. ASSUME NEW g \in Feeds PROVE Announced(g)' <=> Announced(g)
  <2>1. CASE g[1] \in alive
    BY <1>1, <1>2, <1>5, <2>1 DEF Announced
  <2>2. CASE g[1] = c
    <3>1. ~Announced(g)
      BY <1>1, <2>2 DEF Announced
    <3>2. clients_'[DataPid(g)'] = Null /\ c # Null
      BY <1>6, <1>7, <2>2, UserThreadAssumption
    <3>3. ~Announced(g)'
      BY <2>2, <3>2 DEF Announced
    <3>4. QED
      BY <3>1, <3>3
  <2>3. CASE g[1] \notin alive /\ g[1] # c
    BY <1>1, <2>3 DEF Announced
  <2>4. QED
    BY <2>1, <2>2, <2>3
<1>9. OffsetsDiffer'
  <2>1. \A d \in alive : d # c /\ d \in Clients /\ offset'[d] = offset[d] /\ offset[d] \in used
    BY <1>1 DEF TypeOK, RoutingInv, OffsetsDiffer
  <2>2. offset'[c] = o
    BY <1>1 DEF TypeOK
  <2>3. QED
    BY <1>1, <2>1, <2>2 DEF RoutingInv, OffsetsDiffer
<1>10. DeadIsDown'
  BY <1>1 DEF RoutingInv, DeadIsDown, Construct, socketVars
<1>11. RangesCovered'
  <2>1. o..(o + 3) \subseteq DOMAIN clients_'
    BY <1>7
  <2>2. \A u \in used : u..(u + 3) \subseteq DOMAIN clients_'
    BY <1>0, <1>2 DEF RoutingInv, RangesCovered
  <2>3. ASSUME NEW u \in used' PROVE u..(u + _PRODUCER_TYPE_COUNT_ - 1) \subseteq DOMAIN clients_'
    <3>1. u \in Nat /\ u + 4 - 1 = u + 3
      BY <1>1, UserThreadAssumption DEF TypeOK
    <3>2. QED
      BY <1>0, <1>1, <2>1, <2>2, <3>1
  <2>4. QED
    BY <2>3 DEF RangesCovered, _PRODUCER_TYPE_COUNT_
<1>12. PidsMapped'
  <2>1. ASSUME NEW g \in Feeds, g[1] \in alive'
        PROVE  /\ producer_types_'[DataPid(g)'] = DataType(g[2])
               /\ producer_types_'[CtrlPid(g)'] = CtrlType(g[2])
    <3>1. CASE g[1] = c
      BY <1>3, <1>6, <1>7, <3>1
    <3>2. CASE g[1] \in alive
      <4>1. /\ producer_types_[DataPid(g)] = DataType(g[2])
            /\ producer_types_[CtrlPid(g)] = CtrlType(g[2])
        BY <3>2 DEF RoutingInv, PidsMapped
      <4>2. \A k : o + DataType(k) \in o..(o + 3) /\ o + CtrlType(k) \in o..(o + 3)
        BY <1>1 DEF DataType, CtrlType
      <4>3. DataPid(g) \in DOMAIN clients_' /\ CtrlPid(g) \in DOMAIN clients_'
        BY <1>2, <1>5, <3>2
      <4>4. QED
        BY <1>3, <1>5, <3>2, <4>1, <4>2, <4>3
    <3>3. QED
      BY <1>1, <2>1, <3>1, <3>2
  <2>2. ASSUME NEW p \in DOMAIN clients_', producer_types_'[p] # 4
        PROVE \E u \in used' : p \in u..(u + 3)
    <3>1. CASE \E k \in Urls[c] : p \in {o + DataType(k), o + CtrlType(k)}
      <4>1. p \in o..(o + 3)
        BY <1>1, <3>1 DEF DataType, CtrlType
      <4>2. QED
        BY <1>1, <4>1
    <3>2. CASE ~(\E k \in Urls[c] : p \in {o + DataType(k), o + CtrlType(k)})
      <4>1. p \in DOMAIN clients_ /\ producer_types_[p] # 4
        BY <1>0, <1>3, <2>2, <3>2
      <4>2. PICK u \in used : p \in u..(u + 4 - 1)
        BY <1>0, <4>1 DEF RoutingInv, PidsMapped
      <4>3. u \in Nat
        BY UserThreadAssumption DEF TypeOK
      <4>4. QED
        BY <1>1, <4>2, <4>3
    <3>3. QED
      BY <3>1, <3>2
  <2>3. \A u \in used' : u + 4 - 1 = u + 3
    BY <1>1, UserThreadAssumption DEF TypeOK
  <2>4. QED
    BY <2>1, <2>2, <2>3 DEF PidsMapped, _PRODUCER_TYPE_COUNT_
<1>13. QueueFromWriters'
  <2>1. ASSUME NEW r, FromWriter(r) PROVE FromWriter(r)'
    BY <1>1, <1>5, <2>1 DEF FromWriter, WriterOf
  <2>2. QED
    BY <1>1, <2>1 DEF RoutingInv, QueueFromWriters
<1>14. ConnectionsEnd'
  <2>1. \A g \in Feeds : \A n, i : Ends(g, n, i)' <=> Ends(g, n, i)
    BY <1>1 DEF Ends, Construct, socketVars
  <2>2. QED
    BY <1>1, <1>8, <2>1 DEF RoutingInv, ConnectionsEnd
<1>15. RoutedToOwner'
  <2> SUFFICES ASSUME NEW p \in DOMAIN clients_', clients_'[p] # Null
               PROVE \E g \in Feeds : /\ g[1] = clients_'[p]
                                      /\ p \in {DataPid(g)', CtrlPid(g)'}
                                      /\ Announced(g)'
    BY DEF RoutedToOwner
  <2>1. p \in DOMAIN clients_ /\ clients_'[p] = clients_[p]
    BY <1>2
  <2>2. PICK g \in Feeds : g[1] = clients_[p] /\ p \in {DataPid(g), CtrlPid(g)} /\ Announced(g)
    BY <2>1 DEF RoutingInv, RoutedToOwner
  <2>3. g[1] \in alive
    BY <2>2 DEF Announced
  <2>4. QED
    BY <1>5, <1>8, <2>1, <2>2, <2>3
<1>16. QED
  BY <1>8, <1>9, <1>10, <1>11, <1>12, <1>13, <1>14, <1>15 DEF RoutingInv

\* A drained client has no connection announced: nothing is left to end one.
LEMMA DrainedIsDown ==
  ASSUME TypeOK, RoutingInv, NEW c \in Clients, Drained(c), NEW g \in Feeds, g[1] = c
  PROVE  ~Announced(g)
<1>1. ~opened[g]
  BY DEF Drained, FeedsOf, RoutingInv, DeadIsDown
<1>2. \A j \in 1..Len(mux) : ~Closes(mux[j], g, session[g])
  <2>1. \A j \in 1..Len(mux) : mux[j].client # c
    BY DEF Drained, TypeOK
  <2>2. \A j \in 1..Len(mux) : WriterOf(mux[j])[1] # g[1]
    BY <2>1 DEF WriterOf
  <2>3. QED
    BY <2>2 DEF Closes
<1>3. ~Ends(g, session[g], 0)
  <2>1. 0 + 1 = 1
    OBVIOUS
  <2>2. QED
    BY <1>1, <1>2, <2>1 DEF Ends
<1>4. session[g] \in 0..MaxConn
  BY DEF TypeOK
<1>5. QED
  BY <1>3, <1>4 DEF RoutingInv, ConnectionsEnd

\* A client destroyed when its feeds are down and drained leaves no slot behind,
\* and had no connection announced.
LEMMA DestroyStep ==
  ASSUME TypeOK, RoutingInv, DrainedTeardown = TRUE, NEW c \in Clients, Destroy(c)
  PROVE  RoutingInv' /\ \A g \in Feeds : Announced(g)' <=> Announced(g)
<1>1. /\ c \in alive /\ Drained(c) /\ alive' = alive \ {c} /\ Detach(FeedsOf(c))
      /\ UNCHANGED <<offset, used, mux, clients_, producer_types_, session>>
  BY DEF Destroy, readerVars, historyVars
<1>2. \A g \in Feeds : /\ g[1] = c => ~opened'[g] /\ status'[g] = "DISCONNECTED"
                       /\ g[1] # c => (opened'[g] <=> opened[g]) /\ status'[g] = status[g]
                       /\ conn'[g] = conn[g]
  BY <1>1 DEF Detach, FeedsOf
<1>3. ASSUME NEW g \in Feeds
      PROVE  /\ DataPid(g)' = DataPid(g) /\ CtrlPid(g)' = CtrlPid(g)
             /\ Announced(g)' <=> Announced(g)
  <2>1. DataPid(g)' = DataPid(g) /\ CtrlPid(g)' = CtrlPid(g)
    BY <1>1 DEF DataPid, CtrlPid
  <2>2. CASE g[1] = c
    BY <1>1, <2>1, <2>2, DrainedIsDown DEF Announced
  <2>3. CASE g[1] # c
    BY <1>1, <2>1, <2>3 DEF Announced
  <2>4. QED
    BY <2>1, <2>2, <2>3
<1>4. OffsetsDiffer' /\ RangesCovered'
  BY <1>1 DEF RoutingInv, OffsetsDiffer, RangesCovered
<1>5. DeadIsDown'
  BY <1>1, <1>2 DEF RoutingInv, DeadIsDown
<1>6. PidsMapped'
  BY <1>1, <1>3 DEF RoutingInv, PidsMapped
<1>7. QueueFromWriters'
  <2>1. ASSUME NEW i \in 1..Len(mux) PROVE FromWriter(mux[i])'
    <3>1. FromWriter(mux[i]) /\ mux[i].client # c
      BY <1>1 DEF RoutingInv, QueueFromWriters, Drained, TypeOK
    <3>2. WriterOf(mux[i]) \in Feeds =>
            /\ DataPid(WriterOf(mux[i]))' = DataPid(WriterOf(mux[i]))
            /\ CtrlPid(WriterOf(mux[i]))' = CtrlPid(WriterOf(mux[i]))
      BY <1>1 DEF DataPid, CtrlPid
    <3>3. QED
      BY <1>1, <3>1, <3>2 DEF FromWriter, WriterOf
  <2>2. QED
    BY <1>1, <2>1 DEF QueueFromWriters
<1>8. ASSUME NEW g \in Feeds, g[1] # c, NEW n, NEW i, Ends(g, n, i) PROVE Ends(g, n, i)'
  BY <1>1, <1>2, <1>8 DEF Ends
<1>9. ConnectionsEnd'
  <2>1. ASSUME NEW g \in Feeds, NEW n \in 0..MaxConn, NEW i \in 1..Len(mux), Opens(mux[i], g, n)
        PROVE Ends(g, n, i)'
    <3>1. g[1] # c
      BY <1>1, <2>1 DEF Opens, WriterOf, Drained, TypeOK
    <3>2. Ends(g, n, i)
      BY <2>1 DEF RoutingInv, ConnectionsEnd
    <3>3. QED
      BY <1>8, <3>1, <3>2
  <2>2. ASSUME NEW g \in Feeds, NEW n \in 0..MaxConn, Announced(g), session[g] = n
        PROVE Ends(g, n, 0)'
    <3>1. g[1] # c
      BY <1>1, <2>2, DrainedIsDown
    <3>2. Ends(g, n, 0)
      BY <2>2 DEF RoutingInv, ConnectionsEnd
    <3>3. QED
      BY <1>8, <3>1, <3>2
  <2>3. QED
    BY <1>1, <1>3, <2>1, <2>2 DEF ConnectionsEnd
<1>10. RoutedToOwner'
  BY <1>1, <1>3 DEF RoutingInv, RoutedToOwner
<1>11. QED
  BY <1>3, <1>4, <1>5, <1>6, <1>7, <1>9, <1>10 DEF RoutingInv

\* Nothing is routed before the first client.
LEMMA RoutingInit ==
  ASSUME Init
  PROVE  RoutingInv
<1>1. /\ alive = {} /\ used = {} /\ mux = <<>> /\ clients_ = <<>>
      /\ \A f \in Feeds : status[f] = "DISCONNECTED" /\ ~opened[f]
  BY DEF Init, SocketInit
<1>2. DOMAIN clients_ = {} /\ 1..Len(mux) = {}
  BY <1>1
<1>3. OffsetsDiffer /\ DeadIsDown /\ RangesCovered /\ PidsMapped /\ RoutedToOwner
  BY <1>1, <1>2 DEF OffsetsDiffer, DeadIsDown, RangesCovered, PidsMapped, RoutedToOwner
<1>4. QueueFromWriters /\ ConnectionsEnd
  BY <1>1, <1>2 DEF QueueFromWriters, ConnectionsEnd, Announced
<1>5. QED
  BY <1>3, <1>4 DEF RoutingInv

\* A handler that writes one record about its own feed keeps the invariant.
LEMMA WriteStep ==
  ASSUME TypeOK, RoutingInv, DeadIsDown', NEW f \in Feeds, status[f] # "DISCONNECTED",
         NEW p, NEW what, NEW q \in NoSeq..MaxSeq,
         \/ what \in CtrlKinds /\ p = CtrlPid(f)
         \/ what \in FrameKinds /\ p = DataPid(f),
         Append1(Record(p, what, f, q)),
         UNCHANGED <<objectVars, readerVars, left, historyVars>>,
         \A g \in Feeds : opened[g] => \/ opened'[g] /\ conn'[g] = conn[g]
                                       \/ g = f /\ what = "DISCONNECTED",
         what = "CONNECTED" => opened'[f] /\ conn'[f] = conn[f]
  PROVE  RoutingInv'
<1> DEFINE r == Record(p, what, f, q)
<1>1. f[1] \in alive
  BY DEF RoutingInv, DeadIsDown
<1>2. FromWriter(r) /\ WriterOf(r) = f /\ r.what = what /\ r.conn = conn[f]
  BY <1>1, RecordFromWriter
<1>3. r \in Records
  BY PidIsNat, RecordTyped DEF TypeOK
<1>4. mux' = Append(mux, r) /\ UNCHANGED <<objectVars, clients_, producer_types_, session>>
  BY DEF Append1, readerVars, historyVars
<1> HIDE DEF r
<1>5. \A g \in Feeds : opened[g] => \/ opened'[g] /\ conn'[g] = conn[g]
                                    \/ Closes(r, g, conn[g])
  BY <1>2 DEF Closes
<1>6. \A g \in Feeds : \A n : Opens(r, g, n) => opened'[g] /\ conn'[g] = n
  BY <1>2 DEF Opens
<1>7. QED
  BY <1>2, <1>3, <1>4, <1>5, <1>6, AppendStep

\* Every step keeps the routing invariant.
LEMMA RoutingStep ==
  ASSUME TypeOK, RoutingInv, DrainedTeardown = TRUE, "DISCONNECTED" \notin Throwing,
         [Next]_vars
  PROVE  RoutingInv'
<1>1. NoSeq \in NoSeq..MaxSeq
  BY SocketAssumption DEF NoSeq
<1>2. ASSUME NEW f \in Feeds, onConnected(f) PROVE RoutingInv'
  <2>1. /\ status[f] = "CONNECTING" /\ DeadIsDown' /\ opened'[f] /\ UNCHANGED conn
        /\ \A g \in Feeds : opened[g] => opened'[g]
    BY <1>2 DEF onConnected, Establish, RoutingInv, DeadIsDown, objectVars, TypeOK, SocketTypeOK
  <2>2. QED
    BY <1>1, <1>2, <2>1, WriteStep DEF onConnected, dispatchData, CtrlKinds
<1>3. ASSUME NEW f \in Feeds, onDisconnected(f) PROVE RoutingInv'
  <2>1. /\ status[f] # "DISCONNECTED" /\ DeadIsDown' /\ UNCHANGED conn
        /\ \A g \in Feeds : opened[g] => opened'[g] \/ g = f
    BY <1>3 DEF onDisconnected, Shut, RoutingInv, DeadIsDown, objectVars, TypeOK, SocketTypeOK
  <2>2. QED
    BY <1>1, <1>3, <2>1, WriteStep DEF onDisconnected, dispatchData, CtrlKinds
<1>4. ASSUME NEW f \in Feeds, onConnectError(f) PROVE RoutingInv'
  <2>1. status[f] # "DISCONNECTED" /\ DeadIsDown' /\ UNCHANGED <<opened, conn>>
    BY <1>4 DEF onConnectError, Abandon, RoutingInv, DeadIsDown, objectVars, TypeOK, SocketTypeOK
  <2>2. CASE status[f] = "CONNECTING"
    BY <1>1, <1>4, <2>1, <2>2, WriteStep DEF onConnectError, dispatchData, CtrlKinds
  <2>3. CASE status[f] # "CONNECTING"
    BY <1>4, <2>1, <2>3, SilentStep DEF onConnectError, readerVars, historyVars
  <2>4. QED
    BY <2>2, <2>3
<1>5. ASSUME NEW f \in Feeds, onSocketError(f) PROVE RoutingInv'
  <2>1. status[f] # "DISCONNECTED" /\ DeadIsDown' /\ UNCHANGED <<opened, conn>>
    BY <1>5 DEF onSocketError, Unnumbered, socketVars, RoutingInv, DeadIsDown, objectVars
  <2>2. QED
    BY <1>1, <1>5, <2>1, WriteStep DEF onSocketError, dispatchData, CtrlKinds
<1>6. ASSUME NEW f \in Feeds, onFrame(f) PROVE RoutingInv'
  <2>1. UNCHANGED <<objectVars, readerVars, left, historyVars>>
    BY <1>6 DEF onFrame
  <2>2. ASSUME opened[f], UNCHANGED <<status, opened, conn>>, NEW what \in FrameKinds,
               NEW q \in NoSeq..MaxSeq, Append1(Record(DataPid(f), what, f, q))
        PROVE RoutingInv'
    <3>1. status[f] # "DISCONNECTED" /\ DeadIsDown' /\ what # "CONNECTED"
      BY <2>1, <2>2 DEF RoutingInv, DeadIsDown, objectVars, FrameKinds
    <3>2. QED
      BY <2>1, <2>2, <3>1, WriteStep
  <2>3. ASSUME Number(f), NEW what \in FrameKinds,
               Append1(Record(DataPid(f), what, f, sent[f] + 1))
        PROVE RoutingInv'
    <3>1. sent[f] + 1 \in NoSeq..MaxSeq
      BY <2>3, SocketAssumption DEF Number, TypeOK, SocketTypeOK, NoSeq
    <3>2. QED
      BY <2>2, <2>3, <3>1 DEF Number
  <2>4. ASSUME Unnumbered(f), Append1(Record(DataPid(f), "error", f, NoSeq))
        PROVE RoutingInv'
    BY <1>1, <2>2, <2>4 DEF Unnumbered, socketVars, FrameKinds
  <2>5. QED
    BY <1>6, <2>3, <2>4 DEF onFrame
<1>7. ASSUME UNCHANGED <<opened, conn, mux, objectVars, clients_, producer_types_, session>>,
             DeadIsDown'
      PROVE RoutingInv'
  BY <1>7, SilentStep
<1>8. ASSUME NEW f \in Feeds, LoseFrame(f) PROVE RoutingInv'
  <2>1. DeadIsDown'
    BY <1>8 DEF LoseFrame, Number, RoutingInv, DeadIsDown, objectVars
  <2>2. QED
    BY <1>7, <1>8, <2>1 DEF LoseFrame, Number, readerVars, historyVars
<1>9. ASSUME NEW c, stop(c) PROVE RoutingInv'
  <2>1. DeadIsDown'
    BY <1>9 DEF stop, Close, FeedsOf, RoutingInv, DeadIsDown, objectVars
  <2>2. QED
    BY <1>7, <1>9, <2>1 DEF stop, Close, readerVars, historyVars
<1>10. ASSUME NEW f \in Feeds, Subscribe(f) PROVE RoutingInv'
  <2>1. ~opened[f]
    BY <1>10 DEF Subscribe, Open, RoutingInv, DeadIsDown
  <2>2. \A g \in Feeds : opened[g] => opened'[g] /\ conn'[g] = conn[g]
    BY <1>10, <2>1 DEF Subscribe, Open, TypeOK, SocketTypeOK
  <2>3. DeadIsDown'
    BY <1>10 DEF Subscribe, Open, RoutingInv, DeadIsDown, objectVars, TypeOK, SocketTypeOK
  <2>4. QED
    BY <1>10, <2>2, <2>3, SilentStep DEF Subscribe, readerVars, historyVars
<1>11. ASSUME UNCHANGED <<socketVars, objectVars, mux, readerVars, historyVars>>
       PROVE RoutingInv'
  <2>1. DeadIsDown'
    BY <1>11 DEF RoutingInv, DeadIsDown, objectVars, socketVars
  <2>2. QED
    BY <1>7, <1>11, <2>1 DEF socketVars, readerVars, historyVars
<1>12. ASSUME NEW p \in ForeignPids, ForeignWrite(p) PROVE RoutingInv'
  <2> DEFINE r == Foreign(p)
  <2>1. r \in Records /\ FromWriter(r) /\ r.what = "foreign"
    BY UserThreadAssumption, SocketAssumption
       DEF Foreign, Records, RecordKinds, Kinds, NoSeq, FromWriter
  <2>2. /\ mux' = Append(mux, r)
        /\ UNCHANGED <<socketVars, objectVars, clients_, producer_types_, session>>
    BY <1>12 DEF ForeignWrite, Append1, readerVars, historyVars
  <2> HIDE DEF r
  <2>3. DeadIsDown'
    BY <2>2 DEF RoutingInv, DeadIsDown, objectVars, socketVars
  <2>4. UNCHANGED <<opened, conn>>
    BY <2>2 DEF socketVars
  <2>5. \A g \in Feeds : \A n : ~Opens(r, g, n)
    BY <2>1 DEF Opens
  <2>6. QED
    BY <2>1, <2>2, <2>3, <2>4, <2>5, AppendStep
<1>13. ASSUME NEW r, SkipRecord(r) PROVE RoutingInv'
  <2>1. Read(r) /\ UNCHANGED <<clients_, session>> /\ ~IsCtrl(r)
    BY <1>13 DEF SkipRecord, historyVars
  <2>2. r \in Records /\ FromWriter(r)
    BY <2>1, TailStep
  <2>3. r.what # "DISCONNECTED"
    BY <2>1, <2>2, CtrlIsMapped DEF CtrlKinds
  <2>4. QED
    BY <2>1, <2>3, QuietRead
<1>14. ASSUME NEW r, HandleError(r) PROVE RoutingInv'
  BY <1>14, QuietRead DEF HandleError
<1>15. ASSUME NEW r, HandleFrame(r) PROVE RoutingInv'
  <2>1. Read(r) /\ UNCHANGED <<clients_, session>> /\ IsFrame(r)
    BY <1>15 DEF HandleFrame
  <2>2. r.what \in FrameKinds
    BY <2>1, TailStep, FrameWriter
  <2>3. QED
    BY <2>1, <2>2, QuietRead DEF FrameKinds
<1>16. CASE processData
  <2>1. CASE NoDataLeft
    BY <1>11, <2>1 DEF NoDataLeft
  <2>2. CASE \E max \in DrainCounts : EnterProcessData(max)
    BY <1>11, <2>2 DEF EnterProcessData
  <2>3. QED
    BY <1>13, <1>14, <1>15, <1>16, <2>1, <2>2, ConnectedStep, DisconnectedStep DEF processData
<1>17. CASE IOThread
  BY <1>2, <1>3, <1>4, <1>5, <1>6, <1>8, <1>17 DEF IOThread
<1>18. CASE UNCHANGED vars
  BY <1>11, <1>18 DEF vars
<1>19. QED
  BY <1>9, <1>10, <1>12, <1>16, <1>17, <1>18, ConstructStep, DestroyStep DEF Next

\* Slots of clients_ belong to living, announced clients, if clients are
\* drained before they are destroyed and no disconnected callback throws.
THEOREM RoutingCorrect ==
  ASSUME DrainedTeardown = TRUE, "DISCONNECTED" \notin Throwing
  PROVE  Spec => []RoutedToOwner
<1>1. Spec => []TypeOK
  BY TypeCorrect
<1>2. Init => RoutingInv
  BY RoutingInit
<1>3. TypeOK /\ RoutingInv /\ [Next]_vars => RoutingInv'
  BY RoutingStep
<1>4. RoutingInv => RoutedToOwner
  BY DEF RoutingInv
<1>5. QED
  BY <1>1, <1>2, <1>3, <1>4, PTL DEF Spec

\* A frame is handled for the feed that wrote it.
LEMMA FrameGoesHome ==
  ASSUME TypeOK, RoutingInv, NEW r, HandleFrame(r), event' # event
  PROVE  event'.feed = <<r.client, r.kind>>
<1>1. Read(r) /\ IsFrame(r)
  BY DEF HandleFrame
<1>2. /\ WriterOf(r) \in Feeds /\ WriterOf(r)[1] = r.client /\ WriterOf(r)[2] = r.kind
      /\ r.client \in alive /\ r.pid = DataPid(WriterOf(r))
      /\ producer_types_[r.pid] = DataType(r.kind)
  BY <1>1, TailStep, FrameWriter
<1>3. clients_[r.pid] # Null
  BY DEF HandleFrame
<1>4. clients_[r.pid] = r.client
  BY <1>2, <1>3, SlotOfFeed
<1>5. r.kind = IF producer_types_[r.pid] = DataType("MD") THEN "MD" ELSE "USER"
  BY <1>2, PidRange DEF RoutingInv
<1>6. event'.feed = <<clients_[r.pid],
                      IF producer_types_[r.pid] = DataType("MD") THEN "MD" ELSE "USER">>
  BY DEF HandleFrame, callback
<1>7. QED
  BY <1>4, <1>5, <1>6

\* No callback names another client or feed than the one that wrote the
\* record, under the same two assumptions.
THEOREM CalledForItsWriterCorrect ==
  ASSUME DrainedTeardown = TRUE, "DISCONNECTED" \notin Throwing
  PROVE  Spec => CalledForItsWriter
<1>1. Spec => []TypeOK
  BY TypeCorrect
<1>2. Init => RoutingInv
  BY RoutingInit
<1>3. TypeOK /\ RoutingInv /\ [Next]_vars => RoutingInv'
  BY RoutingStep
<1>4. TypeOK /\ RoutingInv /\ [Next]_vars
        => [event' # event => event'.feed = <<Head(mux).client, Head(mux).kind>>]_vars
  <2> SUFFICES ASSUME TypeOK, RoutingInv, Next, event' # event
               PROVE event'.feed = <<Head(mux).client, Head(mux).kind>>
    BY DEF vars, historyVars
  <2>1. PICK r \in {Head(mux)} : \/ HandleConnected(r) \/ HandleDisconnected(r)
                                 \/ HandleError(r) \/ HandleFrame(r)
    BY DEF Next, processData, IOThread, NoDataLeft, EnterProcessData, SkipRecord, historyVars,
       ForeignWrite, Construct, Destroy, stop, Subscribe, onConnected, onDisconnected,
       onConnectError, onSocketError, onFrame, LoseFrame
  <2>2. CASE HandleFrame(r)
    BY <2>1, <2>2, FrameGoesHome
  <2>3. CASE HandleConnected(r)
    BY <2>1, <2>3 DEF HandleConnected, callback
  <2>4. CASE HandleDisconnected(r)
    BY <2>1, <2>4 DEF HandleDisconnected, callback
  <2>5. CASE HandleError(r)
    <3>1. callback(<<r.client, r.kind>>, "error", r.conn, FALSE)
      BY <2>5, Zenon DEF HandleError
    <3>2. QED
      BY <3>1 DEF callback
  <2>6. QED
    BY <2>1, <2>2, <2>3, <2>4, <2>5
<1>5. QED
  BY <1>1, <1>2, <1>3, <1>4, PTL DEF Spec, CalledForItsWriter

-----------------------------------------------------------------------------
(* The invariant.  The records of one feed in the queue stand in the order *)
(* of its connections and numbers.  The reader, with the session and the   *)
(* number it knows, stands before all of them, and the socket, with its    *)
(* connection and the number sent last, behind.                            *)

Numbered(r) == r.what \in FrameKinds /\ r.seq # NoSeq

\* r comes before s among the records of a feed.
Before(r, s) ==
  /\ r.conn <= s.conn
  /\ s.what = "CONNECTED" \/ r.what = "DISCONNECTED" => r.conn < s.conn
  /\ Numbered(r) /\ Numbered(s) /\ r.conn = s.conn => r.seq < s.seq

QueueInOrder ==
  \A i, j \in 1..Len(mux) :
    i < j /\ WriterOf(mux[i]) = WriterOf(mux[j]) /\ WriterOf(mux[i]) \in Feeds
      => Before(mux[i], mux[j])

\* r is news to the application.
IsNews(f, r) ==
  /\ session[f] <= r.conn
  /\ r.what = "CONNECTED" => session[f] < r.conn
  /\ Numbered(r) /\ r.conn = session[f] => heard[f] < r.seq

\* The socket has gone on from r.
IsPast(f, r) ==
  /\ r.conn <= conn[f]
  /\ status[f] = "CONNECTING" \/ (opened[f] /\ r.what = "DISCONNECTED") => r.conn < conn[f]
  /\ Numbered(r) /\ r.conn = conn[f] => r.seq <= sent[f]

\* What the application knows is no news to the socket either.
KnownIsPast(f) ==
  /\ session[f] <= conn[f]
  /\ status[f] = "CONNECTING" => session[f] < conn[f]
  /\ session[f] = conn[f] => heard[f] <= sent[f]

\* Connection n of f is announced, or will be before position i is read.
Started(f, n, i) ==
  \/ Announced(f) /\ session[f] = n
  \/ \E j \in 1..(i - 1) : Opens(mux[j], f, n)

\* Records that are written while the connection stands.
InSession == FrameKinds \cup {"DISCONNECTED"}

RecordsAnnounced ==
  \A f \in Feeds :
    /\ \A i \in 1..Len(mux) :
         WriterOf(mux[i]) = f /\ mux[i].what \in InSession => Started(f, mux[i].conn, i)
    /\ opened[f] => Started(f, conn[f], Len(mux) + 1)

\* A frame without a number is an error.
ErrorsOnly == \A i \in 1..Len(mux) : mux[i].what \in FrameKinds \ {"error"} => mux[i].seq # NoSeq

\* The number kept is the last one heard before the first gap.
NumberKept(f) ==
  /\ seq_nums_[f] <= heard[f]
  /\ seq_nums_[f] = NoSeq => heard[f] = NoSeq
  /\ ~Announced(f) => heard[f] = NoSeq

ContractInv ==
  /\ QueueInOrder
  /\ \A f \in Feeds : \A i \in 1..Len(mux) :
       WriterOf(mux[i]) = f => IsNews(f, mux[i]) /\ IsPast(f, mux[i])
  /\ \A f \in Feeds : KnownIsPast(f) /\ NumberKept(f)
  /\ RecordsAnnounced
  /\ ErrorsOnly

-----------------------------------------------------------------------------
(* The head of the queue, and what is left when it has been read.          *)

LEMMA NoSeqIs == NoSeq = -1 /\ MaxSeq \in Nat /\ MaxConn \in Nat
  BY SocketAssumption DEF NoSeq

\* The types of what a record says.
LEMMA FieldsTyped ==
  ASSUME NEW r \in Records
  PROVE  r.conn \in 0..MaxConn /\ r.conn \in Int /\ r.seq \in NoSeq..MaxSeq /\ r.seq \in Int
  BY NoSeqIs DEF Records

\* A connection is announced when something of it is read; one that is
\* announced has ended before the next one's record.
LEMMA HeadOfFeed ==
  ASSUME TypeOK, RoutingInv, ContractInv, mux # <<>>, NEW f \in Feeds, WriterOf(mux[1]) = f
  PROVE  /\ mux[1].what = "CONNECTED" => ~Announced(f)
         /\ mux[1].what \in InSession => Announced(f) /\ session[f] = mux[1].conn
         /\ mux[1].what = "ERROR" /\ Announced(f) => session[f] = mux[1].conn
<1> DEFINE r == mux[1]
<1>1. Len(mux) \in Nat \ {0} /\ 1 \in 1..Len(mux) /\ r \in Records /\ 1..(1 - 1) = {}
  BY TailAt DEF TypeOK
<1>2. /\ session[f] \in 0..MaxConn /\ session[f] \in Int /\ r.conn \in Int
      /\ conn[f] \in 0..MaxConn /\ conn[f] \in Int
  BY <1>1, FieldsTyped, NoSeqIs DEF TypeOK, SocketTypeOK
<1>3. IsNews(f, r) /\ IsPast(f, r)
  BY <1>1 DEF ContractInv
<1>4. ASSUME r.what \in InSession PROVE Announced(f) /\ session[f] = r.conn
  <2>1. Started(f, r.conn, 1)
    BY <1>1, <1>4 DEF ContractInv, RecordsAnnounced
  <2>2. QED
    BY <1>1, <2>1 DEF Started
<1>5. ASSUME Announced(f), r.what \in {"CONNECTED", "ERROR"}
      PROVE  r.what = "ERROR" /\ session[f] = r.conn
  <2>1. Ends(f, session[f], 0)
    BY <1>2, <1>5 DEF RoutingInv, ConnectionsEnd
  <2>2. CASE opened[f] /\ conn[f] = session[f]
    BY <1>2, <1>3, <1>5, <2>2 DEF IsNews, IsPast
  <2>3. ASSUME NEW j \in (0 + 1)..Len(mux), Closes(mux[j], f, session[f])
        PROVE  r.what = "ERROR" /\ session[f] = r.conn
    <3>1. j # 1
      BY <1>5, <2>3 DEF Closes
    <3>2. j \in 1..Len(mux) /\ 1 < j
      BY <1>1, <3>1
    <3>3. Before(r, mux[j]) /\ mux[j].conn = session[f]
      BY <1>1, <2>3, <3>2 DEF ContractInv, QueueInOrder, Closes
    <3>4. QED
      BY <1>2, <1>3, <1>5, <3>3 DEF Before, IsNews
  <2>4. QED
    BY <2>1, <2>2, <2>3 DEF Ends
<1>6. QED
  BY <1>4, <1>5

\* Reading r keeps the invariant if it tells its feed what it should and the
\* others nothing.
LEMMA ContractRead ==
  ASSUME TypeOK, RoutingInv, ContractInv, NEW r, Read(r),
         \A g \in Feeds : g # WriterOf(r) =>
           /\ Announced(g)' <=> Announced(g)
           /\ session'[g] = session[g] /\ heard'[g] = heard[g] /\ seq_nums_'[g] = seq_nums_[g],
         \A g \in Feeds : g = WriterOf(r) =>
           /\ \A s \in Records : Before(r, s) /\ IsNews(g, s) => IsNews(g, s)'
           /\ KnownIsPast(g)' /\ NumberKept(g)'
           /\ r.what = "CONNECTED" => Announced(g)' /\ session'[g] = r.conn
           /\ r.what \notin {"CONNECTED", "DISCONNECTED"} =>
                (Announced(g)' <=> Announced(g)) /\ session'[g] = session[g]
  PROVE  ContractInv'
<1>1. /\ Len(mux) \in Nat \ {0} /\ Len(mux') = Len(mux) - 1 /\ Len(mux') \in Nat
      /\ \A i \in 1..Len(mux') : mux'[i] = mux[i + 1] /\ i + 1 \in 1..Len(mux)
                               /\ mux'[i] \in Records
      /\ r = mux[1] /\ 1 \in 1..Len(mux) /\ r \in Records /\ mux # <<>>
      /\ \A i \in 1..Len(mux') : 1 < i + 1
  <2>1. mux \in Seq(Records) /\ mux # <<>> /\ mux' = Tail(mux) /\ r = Head(mux)
    BY DEF TypeOK, Read
  <2>2. /\ mux' \in Seq(Records) /\ Len(mux) \in Nat \ {0} /\ Len(mux') = Len(mux) - 1
        /\ \A i \in 1..Len(mux') : mux'[i] = mux[i + 1]
        /\ r = mux[1] /\ r \in Records
    BY <2>1, TailAt
  <2>3. \A i \in 1..Len(mux') : mux'[i] \in Records /\ i + 1 \in 1..Len(mux) /\ 1 < i + 1
    BY <2>2
  <2>4. QED
    BY <2>1, <2>2, <2>3
<1>2. UNCHANGED socketVars /\ UNCHANGED <<status, opened, conn, sent>>
  BY DEF Read, socketVars
<1>3. QueueInOrder'
  <2>1. ASSUME NEW i \in 1..Len(mux'), NEW j \in 1..Len(mux'), i < j,
               WriterOf(mux'[i]) = WriterOf(mux'[j]), WriterOf(mux'[i]) \in Feeds
        PROVE  Before(mux'[i], mux'[j])
    <3>1. /\ i + 1 \in 1..Len(mux) /\ j + 1 \in 1..Len(mux) /\ i + 1 < j + 1
          /\ mux'[i] = mux[i + 1] /\ mux'[j] = mux[j + 1]
      BY <1>1, <2>1
    <3>2. QED
      BY <2>1, <3>1 DEF ContractInv, QueueInOrder
  <2>2. QED
    BY <2>1 DEF QueueInOrder, WriterOf, Before, Numbered
<1>4. ErrorsOnly'
  BY <1>1 DEF ContractInv, ErrorsOnly
<1>5. ASSUME NEW g \in Feeds, NEW i \in 1..Len(mux'), WriterOf(mux'[i]) = g
      PROVE  (IsNews(g, mux[i]) /\ IsPast(g, mux[i]))'
  <2>0. PICK s : s = mux'[i]
    OBVIOUS
  <2>1. IsNews(g, s) /\ IsPast(g, s) /\ s \in Records
    BY <1>1, <1>5, <2>0 DEF ContractInv
  <2>2. CASE g = WriterOf(r)
    <3>1. Before(r, s)
      BY <1>1, <1>5, <2>0, <2>2 DEF ContractInv, QueueInOrder
    <3>2. IsNews(g, s) => session'[g] <= s.conn /\ (s.what = "CONNECTED" => session'[g] < s.conn)
                          /\ (Numbered(s) /\ s.conn = session'[g] => heard'[g] < s.seq)
      BY <2>1, <2>2, <3>1 DEF IsNews
    <3>3. QED
      BY <1>2, <2>0, <2>1, <3>2 DEF IsNews, IsPast
  <2>3. CASE g # WriterOf(r)
    BY <1>2, <2>0, <2>1, <2>3 DEF IsNews, IsPast
  <2>4. QED
    BY <2>2, <2>3
<1>6. ASSUME NEW g \in Feeds PROVE KnownIsPast(g)' /\ NumberKept(g)'
  <2>1. CASE g # WriterOf(r)
    BY <1>2, <2>1 DEF ContractInv, KnownIsPast, NumberKept
  <2>2. QED
    BY <2>1
<1>7. ASSUME NEW g \in Feeds, NEW n, NEW i \in 2..(Len(mux) + 1), Started(g, n, i),
             g = WriterOf(r) /\ r.what = "DISCONNECTED" => r.conn < n
      PROVE  Started(g, n, i - 1)'
  <2>1. ASSUME NEW j \in 2..(i - 1), Opens(mux[j], g, n) PROVE Started(g, n, i - 1)'
    <3>1. j - 1 \in 1..((i - 1) - 1) /\ j - 1 \in 1..Len(mux') /\ (j - 1) + 1 = j
      BY <1>1
    <3>2. Opens(mux'[j - 1], g, n)
      BY <1>1, <2>1, <3>1
    <3>3. QED
      BY <3>1, <3>2 DEF Started, Opens, WriterOf
  <2>2. CASE Opens(mux[1], g, n)
    BY <1>1, <2>2 DEF Opens, Started
  <2>3. CASE Announced(g) /\ session[g] = n
    <3>1. CASE g # WriterOf(r)
      BY <2>3, <3>1 DEF Started
    <3>2. CASE g = WriterOf(r)
      <4>1. r.what # "CONNECTED" /\ (r.what = "DISCONNECTED" => session[g] = r.conn)
        BY <1>1, <2>3, <3>2, HeadOfFeed DEF InSession
      <4>2. r.what # "DISCONNECTED"
        BY <1>1, <1>7, <2>3, <3>2, <4>1, FieldsTyped
      <4>3. QED
        BY <2>3, <3>2, <4>1, <4>2 DEF Started
    <3>3. QED
      BY <3>1, <3>2
  <2>4. \A j \in 1..(i - 1) : j = 1 \/ j \in 2..(i - 1)
    BY <1>1
  <2>5. QED
    BY <1>7, <2>1, <2>2, <2>3, <2>4 DEF Started
<1>8. ASSUME NEW g \in Feeds, NEW i \in 1..Len(mux'), WriterOf(mux'[i]) = g,
             mux'[i].what \in InSession
      PROVE  Started(g, mux[i].conn, i)'
  <2>1. i + 1 \in 2..(Len(mux) + 1) /\ (i + 1) - 1 = i /\ i + 1 \in 1..Len(mux)
    BY <1>1
  <2>2. Started(g, mux'[i].conn, i + 1)
    BY <1>1, <1>8, <2>1 DEF ContractInv, RecordsAnnounced
  <2>3. g = WriterOf(r) /\ r.what = "DISCONNECTED" => r.conn < mux'[i].conn
    BY <1>1, <1>8, <2>1 DEF ContractInv, QueueInOrder, Before
  <2>4. QED
    BY <1>7, <2>1, <2>2, <2>3
<1>9. ASSUME NEW g \in Feeds, opened'[g] PROVE Started(g, conn[g], Len(mux) + 1)'
  <2>1. PICK n, m : n = conn[g] /\ m = Len(mux) + 1
    OBVIOUS
  <2>2. m \in 2..(Len(mux) + 1) /\ m - 1 = Len(mux') + 1
    BY <1>1, <2>1
  <2>3. opened[g] /\ Started(g, n, m)
    BY <1>2, <1>9, <2>1 DEF ContractInv, RecordsAnnounced
  <2>4. g = WriterOf(r) /\ r.what = "DISCONNECTED" => r.conn < n
    BY <1>1, <2>1, <2>3 DEF ContractInv, IsPast
  <2>5. Started(g, n, m - 1)'
    BY <1>7, <2>2, <2>3, <2>4
  <2>6. QED
    BY <1>2, <2>1, <2>2, <2>5
<1>10. RecordsAnnounced'
  BY <1>2, <1>8, <1>9 DEF RecordsAnnounced, WriterOf
<1>11. QED
  BY <1>3, <1>4, <1>5, <1>6, <1>10 DEF ContractInv, WriterOf

-----------------------------------------------------------------------------
(* What is written to the queue.                                           *)

\* A step that leaves the queue and what the application knows alone, while
\* the sockets go on.
LEMMA ContractSocket ==
  ASSUME TypeOK, RoutingInv, ContractInv, UNCHANGED <<mux, seq_nums_, session, heard>>,
         \A g \in Feeds : Announced(g)' <=> Announced(g),
         \A g \in Feeds :
           /\ \A s \in Records : WriterOf(s) = g /\ s \in {mux[i] : i \in 1..Len(mux)}
                                  /\ IsPast(g, s) => IsPast(g, s)'
           /\ KnownIsPast(g)'
           /\ opened'[g] => opened[g] /\ conn'[g] = conn[g]
  PROVE  ContractInv'
<1>1. \A i \in 1..Len(mux) : mux[i] \in Records
  BY DEF TypeOK
<1>2. QueueInOrder' /\ ErrorsOnly'
  BY DEF ContractInv, QueueInOrder, ErrorsOnly, Before, Numbered, WriterOf
<1>3. ASSUME NEW g \in Feeds, NEW i \in 1..Len(mux), WriterOf(mux[i]) = g
      PROVE  (IsNews(g, mux[i]) /\ IsPast(g, mux[i]))'
  <2>1. PICK s : s = mux[i] /\ s = mux'[i]
    OBVIOUS
  <2>2. IsNews(g, s) /\ IsPast(g, s) /\ s \in Records
    BY <1>1, <1>3, <2>1 DEF ContractInv
  <2>3. IsPast(g, s)'
    BY <1>3, <2>1, <2>2
  <2>4. IsNews(g, s)'
    BY <2>2 DEF IsNews
  <2>5. QED
    BY <2>1, <2>3, <2>4 DEF IsNews, IsPast
<1>4. ASSUME NEW g \in Feeds, NEW n, NEW i, Started(g, n, i) PROVE Started(g, n, i)'
  BY <1>4 DEF Started, Opens, WriterOf
<1>5. RecordsAnnounced'
  <2>1. ASSUME NEW g \in Feeds, NEW i \in 1..Len(mux), WriterOf(mux[i]) = g,
               mux[i].what \in InSession
        PROVE  Started(g, mux[i].conn, i)'
    <3>1. PICK n : n = mux[i].conn /\ n = mux'[i].conn
      OBVIOUS
    <3>2. Started(g, n, i)'
      BY <1>4, <2>1, <3>1 DEF ContractInv, RecordsAnnounced
    <3>3. QED
      BY <3>1, <3>2
  <2>2. ASSUME NEW g \in Feeds, opened'[g] PROVE Started(g, conn[g], Len(mux) + 1)'
    <3>1. PICK n, m : n = conn[g] /\ n = conn'[g] /\ m = Len(mux) + 1 /\ m = Len(mux') + 1
      BY <2>2
    <3>2. Started(g, n, m)'
      BY <1>4, <2>2, <3>1 DEF ContractInv, RecordsAnnounced
    <3>3. QED
      BY <3>1, <3>2
  <2>3. QED
    BY <2>1, <2>2 DEF RecordsAnnounced, WriterOf
<1>6. \A g \in Feeds : NumberKept(g)'
  BY DEF ContractInv, NumberKept
<1>7. QED
  BY <1>2, <1>3, <1>5, <1>6 DEF ContractInv, WriterOf

\* A record r that f writes; one that is a feed writes it behind all of its own.
LEMMA ContractAppend ==
  ASSUME TypeOK, RoutingInv, ContractInv,
         NEW f, NEW r \in Records, WriterOf(r) = f, mux' = Append(mux, r),
         UNCHANGED <<objectVars, readerVars, historyVars>>,
         f \in Feeds =>
           /\ \A s \in Records : IsPast(f, s) => Before(s, r) /\ IsPast(f, s)'
           /\ IsPast(f, r)' /\ IsNews(f, r) /\ KnownIsPast(f)'
           /\ r.what \in InSession => opened[f] /\ r.conn = conn[f]
           /\ opened'[f] => (opened[f] /\ conn'[f] = conn[f]) \/ Opens(r, f, conn'[f]),
         r.what \in FrameKinds \ {"error"} => r.seq # NoSeq,
         \A g \in Feeds : g # f => /\ status'[g] = status[g] /\ opened'[g] = opened[g]
                                   /\ conn'[g] = conn[g] /\ sent'[g] = sent[g]
  PROVE  ContractInv'
<1>1. /\ Len(mux) \in Nat /\ Len(mux') = Len(mux) + 1
      /\ \A i \in 1..Len(mux) : mux'[i] = mux[i] /\ mux[i] \in Records /\ i < Len(mux) + 1
                                /\ i \in 1..Len(mux')
      /\ mux'[Len(mux) + 1] = r
      /\ \A i \in 1..Len(mux') : i \in 1..Len(mux) \/ i = Len(mux) + 1
  <2>1. /\ Len(mux) \in Nat /\ Len(mux') = Len(mux) + 1
        /\ \A i \in 1..Len(mux) : mux'[i] = mux[i]
        /\ mux'[Len(mux) + 1] = r
    BY AppendAt DEF TypeOK
  <2>2. \A i \in 1..Len(mux) : mux[i] \in Records
    BY DEF TypeOK
  <2>3. QED
    BY <2>1, <2>2
<1>2. /\ UNCHANGED <<clients_, producer_types_, seq_nums_, session, heard>>
      /\ \A g : Announced(g)' <=> Announced(g)
  BY OwnershipKept DEF readerVars, historyVars
<1>3. QueueInOrder'
  <2>1. ASSUME NEW i \in 1..Len(mux'), NEW j \in 1..Len(mux'), i < j,
               WriterOf(mux'[i]) = WriterOf(mux'[j]), WriterOf(mux'[i]) \in Feeds
        PROVE  Before(mux'[i], mux'[j])
    <3>1. i \in 1..Len(mux)
      BY <1>1, <2>1
    <3>2. CASE j \in 1..Len(mux)
      BY <1>1, <2>1, <3>1, <3>2 DEF ContractInv, QueueInOrder
    <3>3. CASE j = Len(mux) + 1
      <4>1. /\ WriterOf(mux[i]) = f /\ f \in Feeds
              /\ mux'[j] = r /\ mux'[i] = mux[i] /\ mux[i] \in Records
        BY <1>1, <2>1, <3>1, <3>3
      <4>2. IsPast(f, mux[i])
        BY <3>1, <4>1 DEF ContractInv
      <4>3. QED
        BY <4>1, <4>2
    <3>4. QED
      BY <1>1, <3>2, <3>3
  <2>2. QED
    BY <2>1 DEF QueueInOrder, WriterOf, Before, Numbered
<1>4. ErrorsOnly'
  BY <1>1 DEF ContractInv, ErrorsOnly
<1>5. ASSUME NEW g \in Feeds, NEW i \in 1..Len(mux'), WriterOf(mux'[i]) = g
      PROVE  (IsNews(g, mux[i]) /\ IsPast(g, mux[i]))'
  <2>1. PICK s : s = mux'[i]
    OBVIOUS
  <2>2. IsNews(g, s) /\ IsPast(g, s)'
    <3>1. CASE i = Len(mux) + 1
      BY <1>1, <1>5, <2>1, <3>1
    <3>2. CASE i \in 1..Len(mux)
      <4>1. IsNews(g, s) /\ IsPast(g, s) /\ s \in Records
        BY <1>1, <1>5, <2>1, <3>2 DEF ContractInv
      <4>2. g = f => IsPast(g, s)'
        BY <4>1
      <4>3. g # f => IsPast(g, s)'
        BY <4>1 DEF IsPast
      <4>4. QED
        BY <4>1, <4>2, <4>3
    <3>3. QED
      BY <1>1, <3>1, <3>2
  <2>3. IsNews(g, s)'
    BY <1>2, <2>2 DEF IsNews
  <2>4. QED
    BY <2>1, <2>2, <2>3 DEF IsNews, IsPast
<1>6. ASSUME NEW g \in Feeds PROVE KnownIsPast(g)' /\ NumberKept(g)'
  <2>1. NumberKept(g)'
    BY <1>2 DEF ContractInv, NumberKept
  <2>2. g # f => KnownIsPast(g)'
    BY <1>2 DEF ContractInv, KnownIsPast
  <2>3. QED
    BY <2>1, <2>2
<1>7. ASSUME NEW g \in Feeds, NEW n, NEW i \in 1..(Len(mux) + 1), Started(g, n, i)
      PROVE  Started(g, n, i)'
  <2>1. \A j \in 1..(i - 1) : Opens(mux[j], g, n) => Opens(mux'[j], g, n)
    <3>1. \A j \in 1..(i - 1) : j \in 1..Len(mux)
      BY <1>1
    <3>2. QED
      BY <1>1, <3>1
  <2>2. QED
    BY <1>2, <1>7, <2>1 DEF Started, Opens, WriterOf
<1>8. ASSUME NEW g \in Feeds, NEW i \in 1..Len(mux'), WriterOf(mux'[i]) = g,
             mux'[i].what \in InSession
      PROVE  Started(g, mux[i].conn, i)'
  <2>1. PICK n : n = mux'[i].conn
    OBVIOUS
  <2>2. i \in 1..(Len(mux) + 1)
    BY <1>1
  <2>3. Started(g, n, i)
    <3>1. CASE i \in 1..Len(mux)
      BY <1>1, <1>8, <2>1, <3>1 DEF ContractInv, RecordsAnnounced
    <3>2. CASE i = Len(mux) + 1
      BY <1>1, <1>8, <2>1, <3>2 DEF ContractInv, RecordsAnnounced
    <3>3. QED
      BY <1>1, <3>1, <3>2
  <2>4. Started(g, n, i)'
    BY <1>7, <2>2, <2>3
  <2>5. QED
    BY <2>1, <2>4
<1>9. ASSUME NEW g \in Feeds, opened'[g] PROVE Started(g, conn[g], Len(mux) + 1)'
  <2>1. PICK n, m : n = conn'[g] /\ m = Len(mux) + 1
    OBVIOUS
  <2>2. CASE opened[g] /\ conn'[g] = conn[g]
    <3>1. Started(g, n, m) /\ m \in 1..(Len(mux) + 1)
      BY <1>1, <2>1, <2>2 DEF ContractInv, RecordsAnnounced
    <3>2. Started(g, n, m)'
      BY <1>7, <3>1
    <3>3. 1..(m - 1) \subseteq 1..((m + 1) - 1) /\ m + 1 = Len(mux') + 1
      BY <1>1, <2>1
    <3>4. Started(g, n, m + 1)'
      BY <3>2, <3>3 DEF Started
    <3>5. QED
      BY <2>1, <3>3, <3>4
  <2>3. CASE g = f /\ Opens(r, f, conn'[f])
    <3>1. m \in 1..((m + 1) - 1) /\ m + 1 = Len(mux') + 1 /\ Opens(mux'[m], g, n)
      BY <1>1, <2>1, <2>3
    <3>2. Started(g, n, m + 1)'
      BY <3>1 DEF Started, Opens, WriterOf
    <3>3. QED
      BY <2>1, <3>1, <3>2
  <2>4. QED
    BY <1>9, <2>2, <2>3
<1>10. RecordsAnnounced'
  BY <1>8, <1>9 DEF RecordsAnnounced, WriterOf
<1>11. QED
  BY <1>3, <1>4, <1>5, <1>6, <1>10 DEF ContractInv, WriterOf

\* An open connection is not being established.
LEMMA OpenIsEstablished ==
  ASSUME TypeOK, ContractInv, NEW f \in Feeds, opened[f]
  PROVE  status[f] # "CONNECTING"
<1>1. SUFFICES ASSUME status[f] = "CONNECTING" PROVE FALSE
  OBVIOUS
<1>2. Started(f, conn[f], Len(mux) + 1)
  BY DEF ContractInv, RecordsAnnounced
<1>3. conn[f] \in Int /\ session[f] < conn[f] /\ session[f] \in Int
  BY <1>1, NoSeqIs DEF TypeOK, SocketTypeOK, ContractInv, KnownIsPast
<1>4. PICK j \in 1..((Len(mux) + 1) - 1) : Opens(mux[j], f, conn[f])
  BY <1>2, <1>3 DEF Started
<1>5. j \in 1..Len(mux)
  BY <1>4 DEF TypeOK
<1>6. mux[j].conn < conn[f] /\ mux[j].conn = conn[f]
  BY <1>1, <1>4, <1>5 DEF ContractInv, IsPast, Opens
<1>7. QED
  BY <1>3, <1>6

\* The handlers of a feed's socket: each record comes behind those of its
\* connection.
LEMMA ContractWrite ==
  ASSUME TypeOK, RoutingInv, ContractInv, NEW f \in Feeds,
         NEW p \in Nat, NEW what \in CtrlKinds \cup FrameKinds, NEW q \in NoSeq..MaxSeq,
         Append1(Record(p, what, f, q)),
         UNCHANGED <<objectVars, readerVars, historyVars, conn>>,
         \/ status[f] = "CONNECTING" /\ what \in {"CONNECTED", "ERROR"}
         \/ opened[f] /\ what \notin {"CONNECTED"},
         status'[f] = "CONNECTING" => opened[f] /\ status'[f] = status[f],
         opened'[f] => opened[f] \/ what = "CONNECTED",
         opened'[f] => what # "DISCONNECTED",
         what \in FrameKinds /\ q # NoSeq => q = sent[f] + 1,
         sent'[f] = IF what \in FrameKinds /\ q # NoSeq THEN q ELSE sent[f],
         what \in FrameKinds \ {"error"} => q # NoSeq,
         \A g \in Feeds : g # f => /\ status'[g] = status[g] /\ opened'[g] = opened[g]
                                   /\ conn'[g] = conn[g] /\ sent'[g] = sent[g]
  PROVE  ContractInv'
<1>0. PICK r : r = Record(p, what, f, q)
  OBVIOUS
<1>1. /\ r \in Records /\ WriterOf(r) = f /\ r.what = what /\ r.conn = conn[f] /\ r.seq = q
      /\ mux' = Append(mux, r)
  <2>1. r \in Records
    BY <1>0, RecordTyped
  <2>2. r.client = f[1] /\ r.kind = f[2] /\ r.what = what /\ r.conn = conn[f] /\ r.seq = q
    BY <1>0 DEF Record
  <2>3. QED
    BY <1>0, <2>1, <2>2, FeedIsPair DEF WriterOf, Append1
<1>2. /\ conn[f] \in Int /\ session[f] \in Int /\ sent[f] \in Int /\ heard[f] \in Int /\ q \in Int
      /\ NoSeq = -1 /\ conn'[f] = conn[f] /\ session'[f] = session[f] /\ heard'[f] = heard[f]
  BY NoSeqIs DEF TypeOK, SocketTypeOK, historyVars
<1>3. KnownIsPast(f)
  BY DEF ContractInv
<1>4. status[f] = "CONNECTING" => ~opened[f]
  BY OpenIsEstablished
<1>5. status'[f] # "CONNECTING"
  BY <1>4
<1>6. ASSUME NEW s \in Records, IsPast(f, s) PROVE Before(s, r) /\ IsPast(f, s)'
  <2>1. s.conn \in Int /\ s.seq \in Int
    BY FieldsTyped
  <2>2. Before(s, r)
    BY <1>1, <1>2, <1>6, <2>1 DEF IsPast, Before, Numbered
  <2>3. IsPast(f, s)'
    BY <1>2, <1>5, <1>6, <2>1 DEF IsPast, Numbered
  <2>4. QED
    BY <2>2, <2>3
<1>7. IsNews(f, r)
  BY <1>1, <1>2, <1>3 DEF IsNews, KnownIsPast, Numbered, FrameKinds
<1>8. IsPast(f, r)'
  BY <1>1, <1>2, <1>5 DEF IsPast, Numbered
<1>9. KnownIsPast(f)'
  BY <1>2, <1>3, <1>5 DEF KnownIsPast
<1>10. r.what \in InSession => opened[f] /\ r.conn = conn[f]
  BY <1>1 DEF InSession, FrameKinds
<1>11. opened'[f] => (opened[f] /\ conn'[f] = conn[f]) \/ Opens(r, f, conn'[f])
  BY <1>1, <1>2 DEF Opens
<1>12. QED
  BY <1>1, <1>6, <1>7, <1>8, <1>9, <1>10, <1>11, ContractAppend

\* What a foreign producer writes is about no feed.
LEMMA ContractForeign ==
  ASSUME TypeOK, RoutingInv, ContractInv, NEW p \in ForeignPids, ForeignWrite(p)
  PROVE  ContractInv'
<1>1. PICK r : r = Foreign(p)
  OBVIOUS
<1>2. r \in Records /\ WriterOf(r) = <<Null, "MD">> /\ r.what = "foreign"
  BY <1>1, UserThreadAssumption, SocketAssumption
     DEF Foreign, Records, RecordKinds, Kinds, NoSeq, WriterOf
<1>3. <<Null, "MD">> \notin Feeds
  BY UserThreadAssumption DEF Feeds
<1>4. /\ mux' = Append(mux, r)
      /\ UNCHANGED <<objectVars, readerVars, historyVars>>
      /\ UNCHANGED <<status, opened, conn, sent>>
  BY <1>1 DEF ForeignWrite, Append1, socketVars
<1>5. QED
  BY <1>2, <1>3, <1>4, ContractAppend DEF FrameKinds

\* The sockets go on without a word: they number frames that are lost, or
\* close, or connect anew.
LEMMA SocketMoves ==
  ASSUME TypeOK, RoutingInv, ContractInv, UNCHANGED <<mux, seq_nums_, session, heard>>,
         \A g \in Feeds : Announced(g)' <=> Announced(g),
         \A g \in Feeds :
           \/ /\ conn'[g] = conn[g]
              /\ sent'[g] \in {sent[g], sent[g] + 1}
              /\ status'[g] = "CONNECTING" => status[g] = "CONNECTING"
              /\ opened'[g] => opened[g]
           \/ conn'[g] = conn[g] + 1 /\ ~opened'[g]
  PROVE  ContractInv'
<1>1. ASSUME NEW g \in Feeds
      PROVE  /\ conn[g] \in Int /\ sent[g] \in Int /\ session[g] \in Int /\ heard[g] \in Int
             /\ session'[g] = session[g] /\ heard'[g] = heard[g] /\ KnownIsPast(g)
  BY NoSeqIs DEF TypeOK, SocketTypeOK, ContractInv
<1>2. ASSUME NEW g \in Feeds, NEW s \in Records, IsPast(g, s) PROVE IsPast(g, s)'
  BY <1>1, <1>2, FieldsTyped DEF IsPast, Numbered
<1>3. ASSUME NEW g \in Feeds
      PROVE  KnownIsPast(g)' /\ (opened'[g] => opened[g] /\ conn'[g] = conn[g])
  BY <1>1, <1>3 DEF KnownIsPast
<1>4. QED
  BY <1>2, <1>3, ContractSocket

-----------------------------------------------------------------------------
(* The refinement.                                                         *)

\* A step that keeps the invariant and the contract.
KeepsBoth == ContractInv' /\ (Contract!Next \/ UNCHANGED Contract!vars)

\* A step the application hears nothing of.
LEMMA ToldNothing ==
  ASSUME \A g \in Feeds : Announced(g)' <=> Announced(g),
         UNCHANGED <<seq_nums_, session, heard, event>>
  PROVE  UNCHANGED Contract!vars
  BY DEF Contract!vars

\* The I/O threads and foreign producers tell the application nothing.
LEMMA WritersKeepContract ==
  ASSUME TypeOK, RoutingInv, ContractInv,
         IOThread \/ \E p \in ForeignPids : ForeignWrite(p)
  PROVE  KeepsBoth
<1>1. UNCHANGED <<objectVars, readerVars, historyVars>>
  BY DEF IOThread, onConnected, onDisconnected, onConnectError, onSocketError, onFrame,
         LoseFrame, ForeignWrite
<1>2. UNCHANGED Contract!vars
  <2>1. UNCHANGED <<clients_, producer_types_, seq_nums_, session, heard, event>>
    BY <1>1 DEF readerVars, historyVars
  <2>2. QED
    BY <1>1, <2>1, OwnershipKept, ToldNothing
<1>3. ASSUME NEW f \in Feeds
      PROVE  /\ DataPid(f) \in Nat /\ CtrlPid(f) \in Nat /\ NoSeq \in NoSeq..MaxSeq
             /\ opened[f] => status[f] # "CONNECTING"
             /\ sent[f] \in NoSeq..MaxSeq /\ NoSeq = -1 /\ MaxSeq \in Nat
             /\ status \in [Feeds -> Statuses] /\ opened \in [Feeds -> BOOLEAN]
             /\ sent \in [Feeds -> NoSeq..MaxSeq]
  <2>1. DataPid(f) \in Nat /\ CtrlPid(f) \in Nat
    BY PidIsNat DEF TypeOK
  <2>2. opened[f] => status[f] # "CONNECTING"
    BY OpenIsEstablished
  <2>3. QED
    BY <2>1, <2>2, NoSeqIs DEF TypeOK, SocketTypeOK
<1>4. ASSUME NEW f \in Feeds, onConnected(f) PROVE ContractInv'
  BY <1>1, <1>3, <1>4, ContractWrite
     DEF onConnected, Establish, dispatchData, CtrlKinds, FrameKinds
<1>5. ASSUME NEW f \in Feeds, onDisconnected(f) PROVE ContractInv'
  BY <1>1, <1>3, <1>5, ContractWrite
     DEF onDisconnected, Shut, dispatchData, CtrlKinds, FrameKinds
<1>6. ASSUME NEW f \in Feeds, onConnectError(f) PROVE ContractInv'
  <2>1. CASE status[f] = "CONNECTING"
    BY <1>1, <1>3, <1>6, <2>1, ContractWrite
       DEF onConnectError, Abandon, dispatchData, CtrlKinds, FrameKinds
  <2>2. CASE status[f] # "CONNECTING"
    BY <1>1, <1>2, <1>3, <1>6, <2>2, OwnershipKept, SocketMoves
       DEF onConnectError, Abandon, readerVars, historyVars
  <2>3. QED
    BY <2>1, <2>2
<1>7. ASSUME NEW f \in Feeds, onSocketError(f) PROVE ContractInv'
  BY <1>1, <1>3, <1>7, ContractWrite
     DEF onSocketError, Unnumbered, socketVars, dispatchData, CtrlKinds, FrameKinds
<1>8. ASSUME NEW f \in Feeds, onFrame(f) PROVE ContractInv'
  <2>1. ASSUME Number(f), NEW what \in FrameKinds,
               Append1(Record(DataPid(f), what, f, sent[f] + 1))
        PROVE  ContractInv'
    <3>1. sent[f] + 1 \in NoSeq..MaxSeq /\ sent[f] + 1 # NoSeq
      BY <1>3, <2>1 DEF Number
    <3>2. QED
      BY <1>1, <1>3, <2>1, <3>1, ContractWrite DEF Number, FrameKinds
  <2>2. ASSUME Unnumbered(f), Append1(Record(DataPid(f), "error", f, NoSeq))
        PROVE  ContractInv'
    BY <1>1, <1>3, <2>2, ContractWrite DEF Unnumbered, socketVars, FrameKinds
  <2>3. QED
    BY <1>8, <2>1, <2>2 DEF onFrame
<1>9. ASSUME NEW f \in Feeds, LoseFrame(f) PROVE ContractInv'
  BY <1>1, <1>3, <1>9, OwnershipKept, SocketMoves DEF LoseFrame, Number, readerVars, historyVars
<1>10. QED
  BY <1>2, <1>4, <1>5, <1>6, <1>7, <1>8, <1>9, ContractForeign DEF IOThread, KeepsBoth

\* So does the user thread while it reads nothing.
LEMMA CallsKeepContract ==
  ASSUME TypeOK, RoutingInv, ContractInv, DrainedTeardown = TRUE,
         \/ NoDataLeft \/ (\E max \in DrainCounts : EnterProcessData(max)) \/ UNCHANGED vars
         \/ \E c \in Clients, o \in Offsets : Construct(c, o)
         \/ \E c \in Clients : Destroy(c) \/ stop(c)
         \/ \E f \in Feeds : Subscribe(f)
  PROVE  KeepsBoth
<1>1. UNCHANGED <<mux, seq_nums_, session, heard, event>>
  BY DEF NoDataLeft, EnterProcessData, vars, Construct, Destroy, stop, Subscribe, readerVars,
         historyVars
<1>2. \A g \in Feeds : Announced(g)' <=> Announced(g)
  <2>1. CASE UNCHANGED <<objectVars, clients_, producer_types_>>
    BY <2>1, OwnershipKept
  <2>2. ASSUME NEW c \in Clients, NEW o \in Offsets, Construct(c, o)
        PROVE  \A g \in Feeds : Announced(g)' <=> Announced(g)
    BY <2>2, ConstructStep
  <2>3. ASSUME NEW c \in Clients, Destroy(c)
        PROVE  \A g \in Feeds : Announced(g)' <=> Announced(g)
    BY <2>3, DestroyStep
  <2>4. QED
    BY <2>1, <2>2, <2>3 DEF NoDataLeft, EnterProcessData, vars, stop, Subscribe, readerVars
<1>3. ASSUME NEW g \in Feeds
      PROVE  \/ /\ conn'[g] = conn[g]
                /\ sent'[g] \in {sent[g], sent[g] + 1}
                /\ status'[g] = "CONNECTING" => status[g] = "CONNECTING"
                /\ opened'[g] => opened[g]
             \/ conn'[g] = conn[g] + 1 /\ ~opened'[g]
  <2>1. CASE UNCHANGED socketVars
    BY <2>1 DEF socketVars
  <2>2. ASSUME NEW c \in Clients, Destroy(c) \/ stop(c)
        PROVE  /\ UNCHANGED <<conn, sent>>
               /\ status'[g] = "CONNECTING" => status[g] = "CONNECTING"
               /\ opened'[g] => opened[g]
    BY <2>2 DEF Destroy, stop, Detach, Close
  <2>3. ASSUME NEW f \in Feeds, Subscribe(f), g = f
        PROVE  conn'[g] = conn[g] + 1 /\ ~opened'[g]
    BY <2>3 DEF Subscribe, Open, RoutingInv, DeadIsDown, TypeOK, SocketTypeOK
  <2>4. ASSUME NEW f \in Feeds, Subscribe(f), g # f
        PROVE  /\ conn'[g] = conn[g] /\ sent'[g] = sent[g]
               /\ status'[g] = status[g] /\ opened'[g] = opened[g]
    BY <2>4 DEF Subscribe, Open, TypeOK, SocketTypeOK
  <2>5. QED
    BY <2>1, <2>2, <2>3, <2>4 DEF NoDataLeft, EnterProcessData, vars, Construct
<1>4. ContractInv'
  BY <1>1, <1>2, <1>3, SocketMoves
<1>5. QED
  BY <1>1, <1>2, <1>4, ToldNothing DEF KeepsBoth

\* A record that changes nothing but the event.
LEMMA ContractQuietRead ==
  ASSUME TypeOK, RoutingInv, ContractInv, NEW r, Read(r),
         r.what \notin {"CONNECTED", "DISCONNECTED"},
         UNCHANGED <<clients_, seq_nums_, session, heard>>
  PROVE  ContractInv' /\ \A g \in Feeds : Announced(g)' <=> Announced(g)
<1>1. \A g \in Feeds : Announced(g)' <=> Announced(g)
  BY OwnershipKept DEF Read
<1>2. UNCHANGED <<status, conn, sent>>
  BY DEF Read, socketVars
<1>3. ASSUME NEW g \in Feeds
      PROVE  /\ \A s \in Records : IsNews(g, s) => IsNews(g, s)'
             /\ KnownIsPast(g)' /\ NumberKept(g)'
  BY <1>1, <1>2 DEF ContractInv, IsNews, KnownIsPast, NumberKept
<1>4. QED
  BY <1>1, <1>3, ContractRead

\* A record is skipped.
LEMMA SkipKeepsContract ==
  ASSUME TypeOK, RoutingInv, ContractInv, NEW r, SkipRecord(r)
  PROVE  KeepsBoth
<1>1. /\ Read(r) /\ r \in Records /\ FromWriter(r) /\ ~IsCtrl(r)
      /\ UNCHANGED <<clients_, seq_nums_, session, heard, event>>
  BY TailStep DEF SkipRecord, historyVars
<1>2. r.what \notin {"CONNECTED", "DISCONNECTED"}
  BY <1>1, CtrlIsMapped DEF CtrlKinds
<1>3. QED
  BY <1>1, <1>2, ContractQuietRead, ToldNothing DEF KeepsBoth

\* What a record that is handled says of its feed.
LEMMA HandledRecord ==
  ASSUME TypeOK, RoutingInv, ContractInv, NEW r, Read(r), IsCtrl(r) \/ IsFrame(r)
  PROVE  /\ r \in Records /\ FromWriter(r) /\ mux # <<>> /\ r = mux[1]
         /\ WriterOf(r) \in Feeds /\ WriterOf(r) = <<r.client, r.kind>>
         /\ WriterOf(r)[1] = r.client /\ r.client \in alive
         /\ IsNews(WriterOf(r), r) /\ IsPast(WriterOf(r), r)
         /\ KnownIsPast(WriterOf(r)) /\ NumberKept(WriterOf(r))
         /\ r.what = "CONNECTED" => ~Announced(WriterOf(r))
         /\ r.what \in InSession => Announced(WriterOf(r)) /\ session[WriterOf(r)] = r.conn
         /\ r.what = "ERROR" /\ Announced(WriterOf(r)) => session[WriterOf(r)] = r.conn
         /\ r.what \in FrameKinds \ {"error"} => r.seq # NoSeq
<1>1. /\ r \in Records /\ FromWriter(r) /\ r = mux[1] /\ Len(mux) \in Nat \ {0}
      /\ mux # <<>> /\ 1 \in 1..Len(mux)
  BY TailStep DEF Read
<1>2. PICK f : f = WriterOf(r)
  OBVIOUS
<1>3. f \in Feeds /\ f[1] = r.client /\ r.client \in alive /\ f = <<r.client, r.kind>>
  BY <1>1, <1>2, CtrlWriter, FrameWriter DEF WriterOf
<1>4. /\ IsNews(f, r) /\ IsPast(f, r) /\ KnownIsPast(f) /\ NumberKept(f)
      /\ r.what \in FrameKinds \ {"error"} => r.seq # NoSeq
  BY <1>1, <1>2, <1>3 DEF ContractInv, ErrorsOnly
<1>5. /\ r.what = "CONNECTED" => ~Announced(f)
      /\ r.what \in InSession => Announced(f) /\ session[f] = r.conn
      /\ r.what = "ERROR" /\ Announced(f) => session[f] = r.conn
  BY <1>1, <1>2, <1>3, HeadOfFeed
<1>6. QED
  BY <1>1, <1>2, <1>3, <1>4, <1>5

\* An error is the error of the connection announced, or goes to nobody.
LEMMA ErrorKeepsContract ==
  ASSUME TypeOK, RoutingInv, ContractInv, NEW r, HandleError(r)
  PROVE  KeepsBoth
<1>1. /\ Read(r) /\ IsCtrl(r) /\ r.what = "ERROR"
      /\ UNCHANGED <<clients_, seq_nums_, session, heard>>
  BY Zenon DEF HandleError
<1>2. ContractInv' /\ \A g \in Feeds : Announced(g)' <=> Announced(g)
  BY <1>1, ContractQuietRead
<1>3. PICK f : f = WriterOf(r)
  OBVIOUS
<1>4. CASE clients_[r.pid] # Null
  <2>1. r.pid = CtrlPid(f) /\ f \in Feeds /\ f[1] \in alive /\ f = <<r.client, r.kind>>
    BY <1>1, <1>3, CtrlWriter, HandledRecord
  <2>2. Announced(f)
    BY <1>4, <2>1, SlotOfFeed
  <2>3. session[f] = r.conn
    BY <1>1, <1>3, <2>2, HandledRecord
  <2>4. callback(<<r.client, r.kind>>, "error", r.conn, FALSE)
    BY <1>4, Zenon DEF HandleError
  <2>5. {g \in Feeds : Announced(g)}' = {g \in Feeds : Announced(g)}
    BY <1>2
  <2>6. Contract!Error(f)
    BY <1>1, <2>1, <2>3, <2>4, <2>5 DEF Contract!Error, Contract!Call, callback
  <2>7. QED
    BY <1>2, <2>1, <2>6 DEF KeepsBoth, Contract!Next
<1>5. CASE clients_[r.pid] = Null
  <2>1. UNCHANGED event
    BY <1>5, Zenon DEF HandleError
  <2>2. QED
    BY <1>1, <1>2, <2>1, ToldNothing DEF KeepsBoth
<1>6. QED
  BY <1>4, <1>5

\* The announcement of a connection: the feed was down, and hears of it
\* before anything else of the connection.
LEMMA ConnectedKeepsContract ==
  ASSUME TypeOK, RoutingInv, ContractInv, NEW r, HandleConnected(r)
  PROVE  KeepsBoth
<1>0. PICK f : f = WriterOf(r) /\ f = <<r.client, r.kind>>
  BY DEF WriterOf
<1>1. /\ Read(r) /\ IsCtrl(r) /\ r.what = "CONNECTED" /\ clients_' = SetSlots(r, r.client)
      /\ session' = [session EXCEPT ![f] = r.conn]
      /\ heard' = [heard EXCEPT ![f] = NoSeq]
      /\ seq_nums_' = seq_nums_
      /\ event' = [feed |-> f, call |-> "connected", session |-> r.conn, gap |-> FALSE]
  BY <1>0 DEF HandleConnected, callback
<1>2. /\ r \in Records /\ FromWriter(r) /\ f \in Feeds /\ f[1] = r.client /\ r.client \in alive
      /\ IsNews(f, r) /\ IsPast(f, r) /\ KnownIsPast(f) /\ NumberKept(f) /\ ~Announced(f)
  BY <1>0, <1>1, HandledRecord
<1>3. UNCHANGED <<objectVars, producer_types_, status, opened, conn, sent>>
  BY <1>1 DEF Read, socketVars
<1>4. Slots(r) = {CtrlPid(f), DataPid(f)}
  BY <1>0, <1>1, <1>2, CtrlWriter
<1>5. Announced(f)'
  BY <1>1, <1>2, <1>3, <1>4, OthersKept, WritersKept DEF Announced, objectVars
<1>6. ASSUME NEW g \in Feeds, g # f PROVE Announced(g)' <=> Announced(g)
  BY <1>0, <1>1, <1>2, <1>3, <1>6, OthersKept DEF Announced, objectVars
<1>7. /\ session'[f] = r.conn /\ heard'[f] = NoSeq /\ seq_nums_'[f] = seq_nums_[f]
      /\ \A g \in Feeds : g # f => session'[g] = session[g] /\ heard'[g] = heard[g]
      /\ session[f] \in Int /\ r.conn \in Nat /\ r.conn \in Int /\ NoSeq = -1
      /\ seq_nums_[f] \in NoSeq..MaxSeq /\ sent[f] \in NoSeq..MaxSeq /\ conn[f] \in Int
      /\ heard[f] \in NoSeq..MaxSeq /\ MaxSeq \in Nat
  BY <1>1, <1>2, FieldsTyped, NoSeqIs DEF TypeOK, SocketTypeOK
<1>8. heard[f] = NoSeq /\ seq_nums_[f] = NoSeq /\ session[f] < r.conn
  BY <1>1, <1>2, <1>7 DEF NumberKept, IsNews
<1>9. ASSUME NEW s \in Records, Before(r, s), IsNews(f, s) PROVE IsNews(f, s)'
  BY <1>1, <1>7, <1>9, FieldsTyped DEF IsNews, Before, Numbered
<1>10. KnownIsPast(f)' /\ NumberKept(f)'
  BY <1>1, <1>2, <1>3, <1>5, <1>7, <1>8 DEF KnownIsPast, NumberKept, IsPast
<1>11. ContractInv'
  BY <1>0, <1>1, <1>5, <1>6, <1>7, <1>9, <1>10, ContractRead
<1>12. Contract!Connected(f)
  <2>1. {g \in Feeds : Announced(g)}' = {g \in Feeds : Announced(g)} \cup {f}
    BY <1>2, <1>5, <1>6
  <2>2. heard' = heard
    BY <1>1, <1>2, <1>8 DEF TypeOK
  <2>3. QED
    BY <1>1, <1>2, <1>7, <1>8, <2>1, <2>2 DEF Contract!Connected, Contract!Call
<1>13. QED
  BY <1>2, <1>11, <1>12 DEF KeepsBoth, Contract!Next

\* The end of a connection: it was announced, and nothing of it comes after.
LEMMA DisconnectedKeepsContract ==
  ASSUME TypeOK, RoutingInv, ContractInv, "DISCONNECTED" \notin Throwing,
         NEW r, HandleDisconnected(r)
  PROVE  KeepsBoth
<1>0. PICK f : f = WriterOf(r) /\ f = <<r.client, r.kind>>
  BY DEF WriterOf
<1>1. /\ Read(r) /\ IsCtrl(r) /\ r.what = "DISCONNECTED" /\ clients_' = SetSlots(r, Null)
      /\ session' = session
      /\ heard' = [heard EXCEPT ![f] = NoSeq]
      /\ seq_nums_' = [seq_nums_ EXCEPT ![f] = NoSeq]
      /\ event' = [feed |-> f, call |-> "disconnected", session |-> r.conn, gap |-> FALSE]
  BY <1>0 DEF HandleDisconnected, MayThrow, callback, resetSequence
<1>2. /\ r \in Records /\ FromWriter(r) /\ f \in Feeds /\ f[1] = r.client /\ r.client \in alive
      /\ KnownIsPast(f) /\ Announced(f) /\ session[f] = r.conn
  BY <1>0, <1>1, HandledRecord DEF InSession
<1>3. UNCHANGED <<objectVars, producer_types_, status, opened, conn, sent>>
  BY <1>1 DEF Read, socketVars
<1>4. ~Announced(f)'
  <2>1. DataPid(f) \in Slots(r)
    BY <1>0, <1>1, <1>2, CtrlWriter
  <2>2. clients_'[DataPid(f)] = Null /\ DataPid(f)' = DataPid(f)
    BY <1>1, <1>2, <1>3, <2>1, OthersKept, WritersKept
  <2>3. f[1] # Null
    BY <1>2, FeedIsPair, UserThreadAssumption
  <2>4. QED
    BY <2>2, <2>3 DEF Announced
<1>5. ASSUME NEW g \in Feeds, g # f PROVE Announced(g)' <=> Announced(g)
  BY <1>0, <1>1, <1>2, <1>3, <1>5, OthersKept DEF Announced, objectVars
<1>6. /\ heard'[f] = NoSeq /\ seq_nums_'[f] = NoSeq
      /\ \A g \in Feeds : g # f => heard'[g] = heard[g] /\ seq_nums_'[g] = seq_nums_[g]
      /\ NoSeq = -1 /\ sent[f] \in NoSeq..MaxSeq /\ MaxSeq \in Nat
  BY <1>1, <1>2, NoSeqIs DEF TypeOK, SocketTypeOK
<1>7. ASSUME NEW s \in Records, Before(r, s), IsNews(f, s) PROVE IsNews(f, s)'
  BY <1>1, <1>6, <1>7, FieldsTyped DEF IsNews, Numbered
<1>8. KnownIsPast(f)' /\ NumberKept(f)'
  BY <1>1, <1>2, <1>3, <1>6 DEF KnownIsPast, NumberKept
<1>9. ContractInv'
  BY <1>0, <1>1, <1>5, <1>6, <1>7, <1>8, ContractRead
<1>10. Contract!Disconnected(f)
  <2>1. {g \in Feeds : Announced(g)}' = {g \in Feeds : Announced(g)} \ {f}
    BY <1>4, <1>5
  <2>2. {g \in Feeds : heard[g] = seq_nums_[g]}' = {g \in Feeds : heard[g] = seq_nums_[g]} \cup {f}
    BY <1>2, <1>6
  <2>3. NoSeq = Contract!NoSeq
    BY DEF NoSeq, Contract!NoSeq
  <2>4. QED
    BY <1>1, <1>2, <2>1, <2>2, <2>3 DEF Contract!Disconnected, Contract!Call
<1>11. QED
  BY <1>2, <1>9, <1>10 DEF KeepsBoth, Contract!Next

\* A frame of the connection announced: the number is news, and the gap
\* reported is the one the contract speaks of.
LEMMA FrameKeepsContract ==
  ASSUME TypeOK, RoutingInv, ContractInv, NEW r, HandleFrame(r)
  PROVE  KeepsBoth
<1>0. PICK f : f = WriterOf(r) /\ f = <<r.client, r.kind>>
  BY DEF WriterOf
<1>1. Read(r) /\ IsFrame(r) /\ UNCHANGED <<clients_, session>>
  BY DEF HandleFrame
<1>2. /\ r \in Records /\ FromWriter(r) /\ f \in Feeds /\ f[1] = r.client /\ r.client \in alive
      /\ IsNews(f, r) /\ IsPast(f, r) /\ KnownIsPast(f) /\ NumberKept(f)
      /\ r.what \in FrameKinds /\ r.pid = DataPid(f) /\ producer_types_[r.pid] = DataType(f[2])
      /\ Announced(f) /\ session[f] = r.conn
      /\ r.what # "error" => r.seq # NoSeq
  BY <1>0, <1>1, HandledRecord, FrameWriter DEF InSession
<1>3. \A g \in Feeds : Announced(g)' <=> Announced(g)
  BY <1>1, OwnershipKept DEF Read
<1>4. {g \in Feeds : Announced(g)}' = {g \in Feeds : Announced(g)}
  BY <1>3
<1>5. CASE clients_[r.pid] = Null \/ r.what = "junk"
  <2>1. UNCHANGED <<seq_nums_, heard, event>>
    BY <1>5 DEF HandleFrame
  <2>2. ContractInv'
    BY <1>1, <1>2, <2>1, ContractQuietRead DEF FrameKinds
  <2>3. QED
    BY <1>1, <1>3, <2>1, <2>2, ToldNothing DEF KeepsBoth
<1>6. CASE ~(clients_[r.pid] = Null \/ r.what = "junk")
  <2>1. f = <<clients_[r.pid], IF producer_types_[r.pid] = DataType("MD") THEN "MD" ELSE "USER">>
    <3>1. clients_[r.pid] = f[1]
      BY <1>2, <1>6, SlotOfFeed
    <3>2. f[2] = IF producer_types_[r.pid] = DataType("MD") THEN "MD" ELSE "USER"
      BY <1>2, PidRange DEF RoutingInv
    <3>3. QED
      BY <1>2, <3>1, <3>2, FeedIsPair
  <2>2. CASE r.seq = NoSeq
    <3>1. callback(f, r.what, r.conn, FALSE) /\ UNCHANGED <<seq_nums_, heard>>
      BY <1>6, <2>1, <2>2 DEF HandleFrame
    <3>2. ContractInv'
      BY <1>1, <1>2, <3>1, ContractQuietRead DEF FrameKinds
    <3>3. Contract!Error(f)
      BY <1>1, <1>2, <1>4, <2>2, <3>1 DEF Contract!Error, Contract!Call, callback
    <3>4. QED
      BY <1>2, <3>2, <3>3 DEF KeepsBoth, Contract!Next
  <2>3. CASE r.seq # NoSeq
    <3>1. /\ seq_nums_' = [seq_nums_ EXCEPT ![f] = IF Follows(f, r.seq) THEN r.seq
                                                  ELSE LastSeq(f, r.seq)]
          /\ callback(f, r.what, r.conn, ~Follows(f, r.seq))
          /\ heard' = [heard EXCEPT ![f] = r.seq]
      BY <1>6, <2>1, <2>3 DEF HandleFrame
    <3>2. /\ heard'[f] = r.seq /\ session'[f] = r.conn
          /\ seq_nums_'[f] = IF Follows(f, r.seq) THEN r.seq ELSE LastSeq(f, r.seq)
          /\ \A g \in Feeds : g # f => heard'[g] = heard[g] /\ seq_nums_'[g] = seq_nums_[g]
          /\ UNCHANGED <<status, conn, sent>>
      BY <1>1, <1>2, <3>1 DEF TypeOK, Read, socketVars
    <3>3. /\ NoSeq = -1 /\ Contract!NoSeq = -1 /\ MaxSeq \in Nat
          /\ r.seq \in NoSeq..MaxSeq /\ r.conn \in Int /\ conn[f] \in Int
          /\ seq_nums_[f] \in NoSeq..MaxSeq /\ heard[f] \in NoSeq..MaxSeq
          /\ sent[f] \in NoSeq..MaxSeq
      BY <1>2, FieldsTyped, NoSeqIs DEF TypeOK, SocketTypeOK, Contract!NoSeq
    <3>4. Numbered(r) /\ heard[f] < r.seq /\ (r.conn = conn[f] => r.seq <= sent[f])
      BY <1>2, <2>3 DEF Numbered, IsNews, IsPast
    <3>5. /\ seq_nums_[f] <= heard[f]
          /\ seq_nums_[f] = NoSeq => heard[f] = NoSeq
      BY <1>2 DEF NumberKept
    <3>6. Follows(f, r.seq) <=> seq_nums_[f] = NoSeq \/ r.seq = seq_nums_[f] + 1
      BY <3>3 DEF Follows, LastSeq
    <3>7. ~Follows(f, r.seq) => seq_nums_'[f] = seq_nums_[f] /\ seq_nums_[f] # NoSeq
      BY <3>2, <3>6 DEF LastSeq
    <3>8. ASSUME NEW s \in Records, Before(r, s), IsNews(f, s) PROVE IsNews(f, s)'
      BY <1>1, <1>2, <3>2, <3>4, <3>8, FieldsTyped DEF IsNews, Before
    <3>9. KnownIsPast(f)' /\ NumberKept(f)'
      BY <1>2, <1>3, <3>2, <3>3, <3>4, <3>5, <3>7, <2>3 DEF KnownIsPast, NumberKept
    <3>10. ContractInv'
      BY <1>0, <1>1, <1>2, <1>3, <3>2, <3>8, <3>9, ContractRead DEF FrameKinds
    <3>11. Follows(f, r.seq) <=> Contract!Continues(f, r.seq)
      <4>1. (f \in {g \in Feeds : heard[g] = seq_nums_[g]}) <=> heard[f] = seq_nums_[f]
        BY <1>2
      <4>2. QED
        BY <3>3, <3>4, <3>5, <3>6, <4>1 DEF Contract!Continues
    <3>12. Follows(f, r.seq) => {g \in Feeds : heard[g] = seq_nums_[g]}'
                                 = {g \in Feeds : heard[g] = seq_nums_[g]}
      <4>1. Follows(f, r.seq) => heard[f] = seq_nums_[f] /\ heard'[f] = seq_nums_'[f]
        BY <3>2, <3>3, <3>4, <3>5, <3>6
      <4>2. QED
        BY <3>2, <4>1
    <3>13. ~Follows(f, r.seq) => {g \in Feeds : heard[g] = seq_nums_[g]}'
                                  = {g \in Feeds : heard[g] = seq_nums_[g]} \ {f}
      <4>1. ~Follows(f, r.seq) => heard'[f] # seq_nums_'[f]
        BY <3>2, <3>3, <3>4, <3>5, <3>7
      <4>2. QED
        BY <3>2, <4>1
    <3>14. Contract!Frame(f, r.what)
      <4>1. /\ f \in {g \in Feeds : Announced(g)}
            /\ heard'[f] \in Nat /\ heard'[f] > heard[f]
            /\ heard' = [heard EXCEPT ![f] = heard'[f]]
        <5>1. r.seq \in Nat /\ r.seq > heard[f]
          BY <2>3, <3>3, <3>4
        <5>2. heard' = [heard EXCEPT ![f] = heard'[f]]
          BY <3>1, <3>2
        <5>3. QED
          BY <1>2, <3>2, <5>1, <5>2
      <4>2. {g \in Feeds : heard[g] = seq_nums_[g]}'
              = IF Contract!Continues(f, heard'[f]) THEN {g \in Feeds : heard[g] = seq_nums_[g]}
                ELSE {g \in Feeds : heard[g] = seq_nums_[g]} \ {f}
        BY <3>2, <3>11, <3>12, <3>13
      <4>3. event' = [feed |-> f, call |-> r.what, session |-> session[f],
                      gap |-> ~Contract!Continues(f, heard'[f])]
        BY <1>2, <3>1, <3>2, <3>11 DEF callback
      <4>4. QED
        BY <1>1, <1>4, <4>1, <4>2, <4>3 DEF Contract!Frame, Contract!Call
    <3>15. r.what \in {"data", "error", "quiet"}
      BY <1>2, <1>6 DEF FrameKinds
    <3>16. QED
      BY <1>2, <3>10, <3>14, <3>15 DEF KeepsBoth, Contract!Next
  <2>4. QED
    BY <2>2, <2>3
<1>7. QED
  BY <1>5, <1>6

LEMMA ContractInit == Init => Contract!Init /\ ContractInv
<1> SUFFICES ASSUME Init PROVE Contract!Init /\ ContractInv
  OBVIOUS
<1>1. /\ alive = {} /\ mux = <<>> /\ 1..Len(mux) = {} /\ event.call = "none"
      /\ session = [f \in Feeds |-> 0] /\ heard = [f \in Feeds |-> NoSeq]
      /\ seq_nums_ = [f \in Feeds |-> NoSeq] /\ NoSeq = -1 /\ Contract!NoSeq = -1
      /\ \A f \in Feeds : /\ status[f] = "DISCONNECTED" /\ ~opened[f] /\ conn[f] = 0
                          /\ sent[f] = NoSeq
  BY DEF Init, SocketInit, NoSeq, Contract!NoSeq
<1>2. \A f \in Feeds : ~Announced(f)
  BY <1>1 DEF Announced
<1>3. QED
  BY <1>1, <1>2 DEF Contract!Init, ContractInv, QueueInOrder, KnownIsPast, NumberKept,
                    RecordsAnnounced, ErrorsOnly

LEMMA ContractStep ==
  ASSUME DrainedTeardown = TRUE, "DISCONNECTED" \notin Throwing,
         TypeOK, RoutingInv, ContractInv, [Next]_vars
  PROVE  KeepsBoth
<1>1. CASE processData
  BY <1>1, CallsKeepContract, SkipKeepsContract, ErrorKeepsContract, ConnectedKeepsContract,
     DisconnectedKeepsContract, FrameKeepsContract DEF processData
<1>2. QED
  BY <1>1, WritersKeepContract, CallsKeepContract DEF Next

\* The user-thread mode keeps the contract, if clients are drained before they
\* are destroyed and no disconnected callback throws: every step of it is a
\* step of FeedContract or tells the application nothing.
THEOREM UserThreadKeepsContract ==
  ASSUME DrainedTeardown = TRUE, "DISCONNECTED" \notin Throwing
  PROVE  Spec => KeepsContract
<1>1. Init => RoutingInv /\ Contract!Init /\ ContractInv
  BY RoutingInit, ContractInit
<1>2. TypeOK /\ RoutingInv /\ ContractInv /\ [Next]_vars
        => RoutingInv' /\ ContractInv' /\ [Contract!Next]_(Contract!vars)
  BY RoutingStep, ContractStep DEF KeepsBoth
<1>3. QED
  BY <1>1, <1>2, TypeCorrect, PTL DEF Spec, KeepsContract, Contract!Spec

\* The first frame of a connection is never reported as a gap, whatever its
\* number and however many clients had the address before: what CHANGELOG.md
\* says holds of clients that are drained before they are destroyed, if no
\* disconnected callback throws.
THEOREM FirstFrameAcceptedCorrect ==
  ASSUME DrainedTeardown = TRUE, "DISCONNECTED" \notin Throwing
  PROVE  Spec => FirstFrameAccepted
<1>1. Init => RoutingInv /\ ContractInv
  BY RoutingInit, ContractInit
<1>2. TypeOK /\ RoutingInv /\ ContractInv /\ [Next]_vars => RoutingInv' /\ ContractInv'
  BY RoutingStep, ContractStep DEF KeepsBoth
<1>3. TypeOK /\ ContractInv /\ [Next]_vars
        => [\A f \in Feeds : heard[f] = NoSeq /\ heard'[f] # NoSeq => ~event'.gap]_vars
  <2> SUFFICES ASSUME TypeOK, ContractInv, Next, NEW f \in Feeds,
                      heard[f] = NoSeq, heard'[f] # NoSeq
               PROVE  ~event'.gap
    BY DEF vars
  <2>1. heard' # heard
    OBVIOUS
  <2>2. CASE UNCHANGED historyVars
    BY <2>1, <2>2 DEF historyVars
  <2>3. ASSUME NEW r, HandleConnected(r) \/ HandleDisconnected(r) PROVE FALSE
    <3>1. PICK g : heard' = [heard EXCEPT ![g] = NoSeq]
      BY <2>3 DEF HandleConnected, HandleDisconnected
    <3>2. heard'[f] = NoSeq
      BY <3>1 DEF TypeOK
    <3> QED BY <3>2
  <2>4. ASSUME NEW r, HandleError(r) PROVE FALSE
    BY <2>1, <2>4 DEF HandleError
  <2>5. ASSUME NEW r, HandleFrame(r) PROVE ~event'.gap
    <3>1. PICK g : /\ callback(g, r.what, r.conn, ~Follows(g, r.seq))
                   /\ heard' = [heard EXCEPT ![g] = r.seq]
      BY <2>1, <2>5, Zenon DEF HandleFrame
    <3>2. g = f
      BY <3>1 DEF TypeOK
    <3>3. r \in Records
      BY <2>5, ReadTyped DEF HandleFrame
    <3>4. r.seq \in Int
      BY <3>3, FieldsTyped
    <3>5. seq_nums_[f] = NoSeq
      <4>1. seq_nums_[f] \in NoSeq..MaxSeq /\ seq_nums_[f] <= NoSeq
        BY DEF TypeOK, ContractInv, NumberKept
      <4> QED BY <4>1, NoSeqIs
    <3>6. Follows(f, r.seq)
      BY <3>4, <3>5 DEF Follows, LastSeq
    <3> QED BY <3>1, <3>2, <3>6 DEF callback
  <2> QED
    BY <2>2, <2>3, <2>4, <2>5 DEF Next, processData, IOThread, NoDataLeft, EnterProcessData,
       SkipRecord, ForeignWrite, Construct, Destroy, stop, Subscribe, onConnected, onDisconnected,
       onConnectError, onSocketError, onFrame, LoseFrame
<1> QED
  BY <1>1, <1>2, <1>3, TypeCorrect, PTL DEF Spec, FirstFrameAccepted

=============================================================================
