-------------------------- MODULE DirectFeedProofs --------------------------
(***************************************************************************)
(* Proofs about DirectFeed, for every set of clients, every choice of      *)
(* feeds and every bound.                                                  *)
(***************************************************************************)
EXTENDS DirectFeed, TLAPS

\* A feed is a client and a kind.
LEMMA FeedIsPair == ASSUME NEW f \in Feeds PROVE f \in Clients \X Kinds
  BY DEF Feeds

\* The feeds of a client are those whose first component it is.
LEMMA FeedsOfClient == ASSUME NEW c, NEW f \in Feeds PROVE f \in FeedsOf(c) <=> f[1] = c
  BY DEF FeedsOf

\* Whatever the I/O thread reports of a feed has the type of a callback.
LEMMA CallTyped ==
  ASSUME NEW f \in Feeds, NEW n \in 0..MaxConn, NEW gap \in BOOLEAN,
         NEW call \in {"connected", "disconnected", "error", "data", "quiet"}
  PROVE  [feed |-> f, call |-> call, session |-> n, gap |-> gap] \in Calls
  BY FeedIsPair DEF Calls

\* Every variable of the I/O-thread mode keeps its type.
THEOREM TypeCorrect == Spec => []TypeOK
<1> USE SocketAssumption DEF TypeOK, SocketTypeOK, Statuses, NoSeq
<1>1. Init => TypeOK
  BY DEF Init, SocketInit, Calls, Kinds
<1>2. TypeOK /\ [Next]_vars => TypeOK'
  <2> SUFFICES ASSUME TypeOK, [Next]_vars PROVE TypeOK'
    OBVIOUS
  <2>1. ASSUME NEW c \in Clients, Construct(c) PROVE TypeOK'
    BY <2>1 DEF Construct, socketVars
  <2>2. ASSUME NEW c \in Clients, Destroy(c) PROVE TypeOK'
    <3>1. opened' \in [Feeds -> BOOLEAN]
      BY <2>2 DEF Destroy, Detach
    <3>2. status' \in [Feeds -> Statuses]
      BY <2>2 DEF Destroy, Detach
    <3>3. last_seq_num_' \in [Feeds -> NoSeq..MaxSeq] /\ heard' \in [Feeds -> NoSeq..MaxSeq]
      BY <2>2 DEF Destroy
    <3>4. QED
      BY <2>2, <3>1, <3>2, <3>3 DEF Destroy, Detach
  <2>3. ASSUME NEW c \in Clients, stop(c) PROVE TypeOK'
    BY <2>3 DEF stop, Close, FeedsOf
  <2>4. ASSUME NEW f \in Feeds, Subscribe(f) PROVE TypeOK'
    BY <2>4 DEF Subscribe, Open
  <2>5. ASSUME NEW f \in Feeds, onConnected(f) PROVE TypeOK'
    <3>1. event' \in Calls
      BY <2>5, CallTyped, conn[f] \in 0..MaxConn DEF onConnected, callback
    <3>2. SocketTypeOK'
      BY <2>5 DEF onConnected, Establish
    <3>3. QED
      BY <2>5, <3>1, <3>2 DEF onConnected, Establish
  <2>6. ASSUME NEW f \in Feeds, onDisconnected(f) PROVE TypeOK'
    <3>1. event' \in Calls
      BY <2>6, CallTyped, conn[f] \in 0..MaxConn DEF onDisconnected, callback
    <3>2. SocketTypeOK'
      BY <2>6 DEF onDisconnected, Shut
    <3>3. QED
      BY <2>6, <3>1, <3>2 DEF onDisconnected, Shut, resetSequence
  <2>7. ASSUME NEW f \in Feeds, onConnectError(f) PROVE TypeOK'
    <3>1. event' \in Calls
      <4>1. CASE status[f] = "CONNECTING"
        BY <2>7, <4>1, CallTyped DEF onConnectError, callback
      <4>2. CASE status[f] # "CONNECTING"
        BY <2>7, <4>2 DEF onConnectError
      <4>3. QED
        BY <4>1, <4>2
    <3>2. SocketTypeOK'
      BY <2>7 DEF onConnectError, Abandon
    <3>3. QED
      BY <2>7, <3>1, <3>2 DEF onConnectError
  <2>8. ASSUME NEW f \in Feeds, onError(f) PROVE TypeOK'
    BY <2>8, CallTyped DEF onError, Unnumbered, callback, socketVars
  <2>9. ASSUME NEW f \in Feeds, onFrame(f) PROVE TypeOK'
    <3> DEFINE q == sent[f] + 1
               ok == Accepts(last_seq_num_[f], q)
    <3>1. q \in NoSeq..MaxSeq /\ conn[f] \in 0..MaxConn /\ ok \in BOOLEAN
      BY <2>9 DEF onFrame, Number, Accepts
    <3>2. event' \in Calls
      <4>1. PICK call \in {"data", "error", "quiet"} : callback(f, call, conn[f], ~ok)
        BY <2>9 DEF onFrame
      <4>2. QED
        BY <3>1, <4>1, CallTyped DEF callback
    <3>3. SocketTypeOK'
      BY <2>9, <3>1 DEF onFrame, Number
    <3>4. QED
      BY <2>9, <3>1, <3>2, <3>3 DEF onFrame, Number
  <2>10. ASSUME NEW f \in Feeds, LoseFrame(f) PROVE TypeOK'
    BY <2>10 DEF LoseFrame, Number
  <2>11. CASE UNCHANGED vars
    BY <2>11 DEF vars, socketVars
  <2>12. QED
    BY <2>1, <2>2, <2>3, <2>4, <2>5, <2>6, <2>7, <2>8, <2>9, <2>10, <2>11 DEF Next
<1>3. QED
  BY <1>1, <1>2, PTL DEF Spec

\* A frame is judged by the numbers of its own connection only: the inductive
\* invariant ties the handler's number to the connection the socket is on.  A
\* disconnected callback that throws would leave the number of the old one.
THEOREM SequenceCorrect ==
  ASSUME "DISCONNECTED" \notin Throwing
  PROVE  Spec => []SequenceFollowsConnection
<1> USE SocketAssumption
    DEF TypeOK, SocketTypeOK, Statuses, NoSeq,
        SequenceFollowsConnection, TracksConnection, AnnouncesConnection, DownIsClosed
<1>1. Init => SequenceFollowsConnection
  BY DEF Init, SocketInit
<1>2. TypeOK /\ SequenceFollowsConnection /\ [Next]_vars => SequenceFollowsConnection'
  <2> SUFFICES ASSUME TypeOK, SequenceFollowsConnection, [Next]_vars
               PROVE SequenceFollowsConnection'
    OBVIOUS
  <2>1. ASSUME NEW c \in Clients, Construct(c) PROVE SequenceFollowsConnection'
    BY <2>1 DEF Construct, socketVars
  <2>2. ASSUME NEW c \in Clients, Destroy(c) PROVE SequenceFollowsConnection'
    <3> SUFFICES ASSUME NEW f \in Feeds
                 PROVE (TracksConnection(f) /\ AnnouncesConnection(f) /\ DownIsClosed(f))'
      OBVIOUS
    <3>1. CASE f[1] = c
      BY <2>2, <3>1, FeedsOfClient DEF Destroy, Detach
    <3>2. CASE f[1] # c
      BY <2>2, <3>2, FeedsOfClient DEF Destroy, Detach
    <3>3. QED
      BY <3>1, <3>2
  <2>3. ASSUME NEW c \in Clients, stop(c) PROVE SequenceFollowsConnection'
    BY <2>3 DEF stop, Close, FeedsOf
  <2>4. ASSUME NEW f \in Feeds, Subscribe(f) PROVE SequenceFollowsConnection'
    BY <2>4 DEF Subscribe, Open
  <2>5. ASSUME NEW f \in Feeds, onConnected(f) PROVE SequenceFollowsConnection'
    BY <2>5 DEF onConnected, Establish
  <2>6. ASSUME NEW f \in Feeds, onDisconnected(f) PROVE SequenceFollowsConnection'
    <3>1. last_seq_num_' = resetSequence(f)
      BY <2>6 DEF onDisconnected, MayThrow
    <3> QED BY <2>6, <3>1 DEF onDisconnected, Shut, resetSequence
  <2>7. ASSUME NEW f \in Feeds, onConnectError(f) PROVE SequenceFollowsConnection'
    BY <2>7 DEF onConnectError, Abandon
  <2>8. ASSUME NEW f \in Feeds, onError(f) PROVE SequenceFollowsConnection'
    BY <2>8 DEF onError, Unnumbered, socketVars
  <2>9. ASSUME NEW f \in Feeds, onFrame(f) PROVE SequenceFollowsConnection'
    BY <2>9 DEF onFrame, Number, Accepts
  <2>10. ASSUME NEW f \in Feeds, LoseFrame(f) PROVE SequenceFollowsConnection'
    BY <2>10 DEF LoseFrame, Number
  <2>11. CASE UNCHANGED vars
    BY <2>11 DEF vars, socketVars
  <2>12. QED
    BY <2>1, <2>2, <2>3, <2>4, <2>5, <2>6, <2>7, <2>8, <2>9, <2>10, <2>11 DEF Next
<1>3. QED
  BY <1>1, <1>2, TypeCorrect, PTL DEF Spec

\* The I/O-thread mode keeps the contract: every step of it is a step of
\* FeedContract or leaves alone everything the application is told.
THEOREM DirectKeepsContract ==
  ASSUME "DISCONNECTED" \notin Throwing
  PROVE  Spec => KeepsContract
<1> USE SocketAssumption
    DEF TypeOK, SocketTypeOK, Statuses, NoSeq, Contract!NoSeq,
        SequenceFollowsConnection, TracksConnection, AnnouncesConnection, DownIsClosed
<1>1. Init => Contract!Init
  BY DEF Init, SocketInit, Contract!Init
<1>2. TypeOK /\ SequenceFollowsConnection /\ [Next]_vars => [Contract!Next]_(Contract!vars)
  <2> SUFFICES ASSUME TypeOK, SequenceFollowsConnection, [Next]_vars
               PROVE Contract!Next \/ UNCHANGED Contract!vars
    OBVIOUS
  <2>1. ASSUME NEW c \in Clients, Construct(c) PROVE UNCHANGED Contract!vars
    BY <2>1 DEF Construct, socketVars, Contract!vars
  <2>2. ASSUME NEW c \in Clients, Destroy(c)
        PROVE Contract!Destroyed(FeedsOf(c))
    <3>1. \A f \in Feeds : f \in FeedsOf(c) <=> f[1] = c
      BY FeedsOfClient
    <3>2. QED
      BY <2>2, <3>1 DEF Destroy, Detach, Contract!Destroyed, FeedsOf
  <2>3. ASSUME NEW c \in Clients, stop(c) PROVE UNCHANGED Contract!vars
    BY <2>3 DEF stop, Close, Contract!vars
  <2>4. ASSUME NEW f \in Feeds, Subscribe(f) PROVE UNCHANGED Contract!vars
    BY <2>4 DEF Subscribe, Open, Contract!vars
  <2>5. ASSUME NEW f \in Feeds, onConnected(f) PROVE Contract!Connected(f)
    BY <2>5 DEF onConnected, Establish, callback, Contract!Connected, Contract!Call
  <2>6. ASSUME NEW f \in Feeds, onDisconnected(f) PROVE Contract!Disconnected(f)
    <3>1. last_seq_num_' = resetSequence(f)
      BY <2>6 DEF onDisconnected, MayThrow
    <3> QED BY <2>6, <3>1 DEF onDisconnected, Shut, resetSequence, callback,
                              Contract!Disconnected, Contract!Call
  <2>7. ASSUME NEW f \in Feeds, onConnectError(f)
        PROVE Contract!Error(f) \/ UNCHANGED Contract!vars
    <3>1. CASE status[f] = "CONNECTING"
      BY <2>7, <3>1 DEF onConnectError, Abandon, callback, Contract!Error, Contract!Call
    <3>2. CASE status[f] # "CONNECTING"
      BY <2>7, <3>2 DEF onConnectError, Abandon, Contract!vars
    <3>3. QED
      BY <3>1, <3>2
  <2>8. ASSUME NEW f \in Feeds, onError(f) PROVE Contract!Error(f)
    BY <2>8 DEF onError, Unnumbered, socketVars, callback, Contract!Error, Contract!Call
  <2>9. ASSUME NEW f \in Feeds, onFrame(f)
        PROVE \E call \in {"data", "error", "quiet"} : Contract!Frame(f, call)
    <3> DEFINE q == sent[f] + 1
               ok == Accepts(last_seq_num_[f], q)
    <3>1. PICK call \in {"data", "error", "quiet"} : callback(f, call, conn[f], ~ok)
      BY <2>9 DEF onFrame
    <3>2. heard' = [heard EXCEPT ![f] = q] /\ q \in Nat /\ q > heard[f]
      BY <2>9 DEF onFrame, Number
    <3>3. ok <=> Contract!Continues(f, q)
      <4> HIDE DEF q
      <4>1. last_seq_num_[f] \in NoSeq..MaxSeq /\ heard[f] \in NoSeq..MaxSeq
        OBVIOUS
      <4>2. ok <=> last_seq_num_[f] = NoSeq \/ q = last_seq_num_[f] + 1
        BY <4>1 DEF Accepts
      <4>3. (f \in {g \in Feeds : heard[g] = last_seq_num_[g]}) <=> heard[f] = last_seq_num_[f]
        OBVIOUS
      <4>4. QED
        BY <3>2, <4>1, <4>2, <4>3 DEF Contract!Continues
    <3>4. last_seq_num_' = [last_seq_num_ EXCEPT ![f] = IF ok THEN q ELSE @]
      BY <2>9 DEF onFrame
    <3>5. ok => {g \in Feeds : heard[g] = last_seq_num_[g]}'
                = {g \in Feeds : heard[g] = last_seq_num_[g]}
      BY <3>2, <3>3, <3>4 DEF Contract!Continues
    <3>6. ~ok => {g \in Feeds : heard[g] = last_seq_num_[g]}'
                 = {g \in Feeds : heard[g] = last_seq_num_[g]} \ {f}
      BY <3>2, <3>4
    <3>7. Contract!Frame(f, call)
      BY <2>9, <3>1, <3>2, <3>3, <3>5, <3>6
      DEF onFrame, Number, callback, Contract!Frame, Contract!Call
    <3>8. QED
      BY <3>1, <3>7
  <2>10. ASSUME NEW f \in Feeds, LoseFrame(f) PROVE UNCHANGED Contract!vars
    BY <2>10 DEF LoseFrame, Number, Contract!vars
  <2>11. CASE UNCHANGED vars
    BY <2>11 DEF vars, socketVars, Contract!vars
  <2>12. QED
    <3>1. \A c \in Clients : FeedsOf(c) \in SUBSET Feeds
      BY DEF FeedsOf
    <3>2. QED
      BY <2>1, <2>2, <2>3, <2>4, <2>5, <2>6, <2>7, <2>8, <2>9, <2>10, <2>11, <3>1
      DEF Next, Contract!Next
<1>3. QED
  BY <1>1, <1>2, TypeCorrect, SequenceCorrect, PTL DEF Spec, KeepsContract, Contract!Spec

=============================================================================
