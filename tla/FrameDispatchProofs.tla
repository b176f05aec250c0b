------------------------- MODULE FrameDispatchProofs -------------------------
(***************************************************************************)
(* FrameDispatch keeps its types, calls back once and in order, loses of   *)
(* each frame only what that frame costs itself, and goes on reporting a   *)
(* gap until it heals: for any channels, numbers and bounds.               *)
(***************************************************************************)
EXTENDS FrameDispatch, TLAPS

Frames == Garbled \cup Errors \cup Messages
Callbacks == [frame : Nat, event : Nat, threw : BOOLEAN, missing : Int]

-----------------------------------------------------------------------------
(* Types.                                                                  *)

\* The events of a frame.
LEMMA EventsShape ==
  ASSUME NEW s \in Frames
  PROVE  /\ s.events \in Seq(EventKinds)
         /\ Len(s.events) \in Nat /\ Len(s.events) <= MaxEvents
         /\ DOMAIN s.events = 1..Len(s.events)
<1>1. s.events \in Events \cup {<<>>}
  BY DEF Frames, Garbled, Errors, Messages
<1>2. ASSUME NEW m \in 0..MaxEvents, s.events \in [1..m -> EventKinds]
      PROVE  s.events \in Seq(EventKinds) /\ Len(s.events) = m
  BY <1>2, FrameAssumption
<1>3. CASE s.events = <<>>
  BY <1>3, FrameAssumption
<1> QED BY <1>1, <1>2, <1>3, FrameAssumption DEF Events

LEMMA EventsCounted ==
  ASSUME NEW s \in Frames
  PROVE  \A e \in DOMAIN s.events : e \in Nat \ {0} /\ s.events[e] \in EventKinds
BY EventsShape, FrameAssumption

\* The last frame as the handler finds it.
LEMMA FrameShape ==
  ASSUME frames \in Seq(Frames), frames # <<>>
  PROVE  /\ Len(frames) \in Nat \ {0} /\ f = frames[Len(frames)] /\ f \in Frames
         /\ f.what \in {"garbled", "error", "bad error", "message"}
         /\ f.what # "message" => f.channel = "" /\ f.events = <<>> /\ f.num = NoNumber
<1>1. Len(frames) \in Nat \ {0} /\ f = frames[Len(frames)] /\ f \in Frames
  BY DEF f
<1> QED BY <1>1 DEF Frames, Garbled, Errors, Messages

TypeInv ==
  /\ TypeOK
  /\ Len(frames) <= MaxFrames
  /\ pc # "idle" => frames # <<>>

LEMMA TypeInit == Init => TypeInv
  BY FrameAssumption DEF Init, TypeInv, TypeOK, Feeds

\* A callback recorded for the last frame has its type.
LEMMA CallTyped ==
  ASSUME TypeInv, frames # <<>>, NEW e \in 0..(MaxEvents + 1), NEW throws \in BOOLEAN,
         NEW missing \in Int, Call(e, throws, missing)
  PROVE  called' \in Seq([frame : 1..MaxFrames, event : 0..MaxEvents + 1, threw : BOOLEAN, missing : Int])
<1>1. Len(frames) \in 1..MaxFrames
  BY FrameAssumption DEF TypeInv, TypeOK
<1> QED BY <1>1 DEF TypeInv, TypeOK, Call

LEMMA TypeNext == TypeInv /\ [Next]_vars => TypeInv'
<1> SUFFICES ASSUME TypeInv, [Next]_vars PROVE TypeInv'
  OBVIOUS
<1>t. TypeOK /\ Len(frames) <= MaxFrames /\ (pc # "idle" => frames # <<>>)
  BY DEF TypeInv
<1>f. frames \in Seq(Frames) /\ Len(frames) \in Nat
  BY <1>t DEF TypeOK, Frames
<1>0. 0 \in 0..(MaxEvents + 1) /\ 1 \in 0..(MaxEvents + 1)
  BY FrameAssumption
<1>1. ASSUME NEW frame \in Frames, Receive(frame) PROVE TypeInv'
  <2>1. frames' \in Seq(Frames) /\ frames' # <<>> /\ Len(frames') <= MaxFrames
    BY <1>1, <1>f, FrameAssumption DEF Receive
  <2>2. pc' \in {"idle", "sequence"} /\ event = 0
    BY <1>1, <1>t DEF Receive, TypeOK
  <2> QED BY <1>1, <1>t, <2>1, <2>2 DEF Receive, TypeInv, TypeOK, Frames
<1>2. ASSUME NEW throws \in BOOLEAN, CheckSequenceNumber(throws) PROVE TypeInv'
  <2>1. /\ pc = "sequence" /\ frames # <<>> /\ UNCHANGED frames /\ event = 0
        /\ pc' \in {"idle", "type"} /\ event' = 0
    BY <1>2, <1>t DEF CheckSequenceNumber, Abandon, Done, TypeOK
  <2>2. f.feed \in Feeds
    BY <1>f, <2>1, FrameShape DEF Frames, Garbled, Errors, Messages
  <2>3. last' \in [Feeds -> {-1} \cup Numbers]
    BY <1>2, <1>t DEF CheckSequenceNumber, TypeOK
  <2>4. last[f.feed] + 1 \in Int
    <3>1. last[f.feed] \in {-1} \cup Numbers
      BY <1>t, <2>2 DEF TypeOK
    <3>2. CASE last[f.feed] = -1
      BY <3>2
    <3>3. CASE last[f.feed] \in Numbers
      <4>1. last[f.feed] \in Nat
        BY <3>3, FrameAssumption
      <4> QED BY <4>1
    <3> QED BY <3>1, <3>2, <3>3
  <2>5. called' \in Seq([frame : 1..MaxFrames, event : 0..MaxEvents + 1, threw : BOOLEAN, missing : Int])
    <3>1. CASE UNCHANGED called
      BY <3>1, <1>t DEF TypeOK
    <3>2. CASE Call(0, throws, last[f.feed] + 1)
      BY <3>2, <2>1, <2>4, <1>0, CallTyped
    <3> QED BY <3>1, <3>2, <1>2 DEF CheckSequenceNumber
  <2> QED BY <1>t, <2>1, <2>3, <2>5 DEF TypeInv, TypeOK
<1>3. ASSUME NEW throws \in BOOLEAN, Route(throws) PROVE TypeInv'
  <2>1. /\ pc = "type" /\ frames # <<>> /\ UNCHANGED <<frames, last>>
        /\ \/ pc' \in {"idle", "dead"} /\ event' = 0
           \/ pc' = "events" /\ event' = 1
    BY <1>3, <1>t DEF Route, Abandon, Done, Die
  <2>2. called' \in Seq([frame : 1..MaxFrames, event : 0..MaxEvents + 1, threw : BOOLEAN, missing : Int])
    <3>1. CASE UNCHANGED called
      BY <3>1, <1>t DEF TypeOK
    <3>2. CASE Call(1, throws, NoNumber)
      <4>1. NoNumber \in Int
        BY DEF NoNumber
      <4> QED BY <3>2, <4>1, <2>1, <1>0, CallTyped
    <3> QED BY <3>1, <3>2, <1>3 DEF Route
  <2>3. 1 \in 1..(Len(f.events) + 1) /\ f' = f
    <3>1. f' = f
      BY <2>1 DEF f
    <3>2. Len(f.events) \in Nat
      BY <1>f, <2>1, FrameShape, EventsShape
    <3> QED BY <3>1, <3>2
  <2> QED BY <1>t, <2>1, <2>2, <2>3 DEF TypeInv, TypeOK
<1>4. ASSUME NEW throws \in BOOLEAN, HandleEvent(throws) PROVE TypeInv'
  <2>1. /\ pc = "events" /\ frames # <<>> /\ UNCHANGED <<frames, last>>
        /\ event \in DOMAIN f.events
        /\ \/ pc' \in {"idle", "dead"} /\ event' = 0
           \/ pc' = "events" /\ event' = event + 1
    BY <1>4, <1>t DEF HandleEvent, Abandon, Done, Die, NextEvent
  <2>2. /\ DOMAIN f.events = 1..Len(f.events) /\ Len(f.events) \in Nat /\ Len(f.events) <= MaxEvents
        /\ f' = f
    BY <1>f, <2>1, FrameShape, EventsShape DEF f
  <2>3. event + 1 \in 1..(Len(f.events) + 1) /\ event \in 0..(MaxEvents + 1)
    BY <2>1, <2>2, FrameAssumption
  <2>4. called' \in Seq([frame : 1..MaxFrames, event : 0..MaxEvents + 1, threw : BOOLEAN, missing : Int])
    <3>1. CASE UNCHANGED called
      BY <3>1, <1>t DEF TypeOK
    <3>2. CASE Call(event, throws, NoNumber)
      <4>1. NoNumber \in Int
        BY DEF NoNumber
      <4> QED BY <3>2, <4>1, <2>1, <2>3, CallTyped
    <3> QED BY <3>1, <3>2, <1>4 DEF HandleEvent
  <2> QED BY <1>t, <2>1, <2>2, <2>3, <2>4 DEF TypeInv, TypeOK
<1>5. CASE EndEvents
  BY <1>5, <1>t DEF EndEvents, Done, TypeInv, TypeOK
<1>6. CASE UNCHANGED vars
  BY <1>6, <1>t DEF vars, TypeInv, TypeOK, f
<1> QED BY <1>1, <1>2, <1>3, <1>4, <1>5, <1>6 DEF Next, Frames

\* Every variable has its type, however many frames and events there are; the
\* loop over the events never looks behind their end.
THEOREM TypeCorrect == Spec => []TypeOK
<1>1. TypeInv => TypeOK
  BY DEF TypeInv
<1> QED BY TypeInit, TypeNext, <1>1, PTL DEF Spec

-----------------------------------------------------------------------------
(* Callbacks once and in order.                                            *)

\* What is already called is for earlier frames, or for the part of the last
\* frame that the handler has left behind.
Behind ==
  \A k \in DOMAIN called :
    /\ called[k].frame <= Len(frames)
    /\ called[k].frame = Len(frames) =>
         /\ pc # "sequence"
         /\ pc = "type" => called[k].event = 0
         /\ pc = "events" => called[k].event < event

\* The types the order of the callbacks rests on.
CallTypes ==
  /\ pc \in {"idle", "sequence", "type", "events", "dead"}
  /\ event \in Nat
  /\ pc = "events" => event > 0
  /\ pc # "idle" => frames # <<>>
  /\ frames \in Seq(Frames)
  /\ called \in Seq(Callbacks)
  /\ last \in [Feeds -> Int]

OrderInv == CallTypes /\ Behind /\ OnceInOrder

\* The fields of a callback recorded.
LEMMA CalledTypes ==
  ASSUME NEW s \in Seq(Callbacks)
  PROVE  \A k \in DOMAIN s : s[k].frame \in Nat /\ s[k].event \in Nat
<1> TAKE k \in DOMAIN s
<1>1. s[k] \in Callbacks
  OBVIOUS
<1> QED BY <1>1 DEF Callbacks

LEMMA OrderInit == Init => OrderInv
  BY DEF Init, OrderInv, CallTypes, Behind, OnceInOrder, Feeds

\* A frame arrives: everything called is behind it.
LEMMA ReceiveKeeps ==
  ASSUME OrderInv, NEW frame \in Frames, Receive(frame)
  PROVE  OrderInv'
<1>1. CallTypes'
  BY DEF OrderInv, CallTypes, Receive
<1>2. Len(frames') = Len(frames) + 1 /\ Len(frames) \in Nat /\ called' = called
  BY DEF OrderInv, CallTypes, Receive
<1>3. \A k \in DOMAIN called : called[k].frame \in Nat /\ called[k].event \in Nat
  BY CalledTypes DEF OrderInv, CallTypes
<1>4. Behind'
  <2>1. \A k \in DOMAIN called : called[k].frame <= Len(frames)
    BY DEF OrderInv, Behind
  <2> QED BY <2>1, <1>2, <1>3 DEF Behind
<1>5. OnceInOrder'
  BY DEF OrderInv, OnceInOrder, Receive
<1> QED BY <1>1, <1>4, <1>5 DEF OrderInv

\* A callback for the last frame, behind nothing called before, keeps the order.
LEMMA CallKeeps ==
  ASSUME OrderInv, NEW e \in Nat, NEW throws \in BOOLEAN, NEW missing \in Int,
         Call(e, throws, missing), UNCHANGED frames, frames # <<>>,
         \A k \in DOMAIN called : called[k].frame = Len(frames) => called[k].event < e
  PROVE  /\ OnceInOrder'
         /\ called' \in Seq(Callbacks)
         /\ \A k \in DOMAIN called' :
              /\ called'[k].frame <= Len(frames)
              /\ called'[k].frame = Len(frames) => called'[k].event <= e
<1> DEFINE c == [frame |-> Len(frames), event |-> e, threw |-> throws, missing |-> missing]
<1>1. /\ Len(called') = Len(called) + 1
      /\ Len(called) \in Nat
      /\ Len(frames) \in Nat
      /\ DOMAIN called = 1..Len(called)
      /\ DOMAIN called' = 1..(Len(called) + 1)
      /\ called'[Len(called) + 1] = c
      /\ \A k \in DOMAIN called : called'[k] = called[k]
      /\ called' \in Seq(Callbacks)
  BY DEF Call, OrderInv, CallTypes, Callbacks
<1>2. \A k \in DOMAIN called :
        called[k].frame \in Nat /\ called[k].event \in Nat /\ called[k].frame <= Len(frames)
  BY CalledTypes DEF OrderInv, CallTypes, Behind
<1> HIDE DEF c
<1>3. c.frame = Len(frames) /\ c.event = e
  BY DEF c
<1>4. OnceInOrder'
  <2> SUFFICES ASSUME NEW j \in DOMAIN called', NEW k \in DOMAIN called', j < k
               PROVE  \/ called'[j].frame < called'[k].frame
                      \/ called'[j].frame = called'[k].frame /\ called'[j].event < called'[k].event
    BY DEF OnceInOrder
  <2>1. j \in DOMAIN called
    BY <1>1
  <2>2. CASE k \in DOMAIN called
    BY <2>1, <2>2, <1>1 DEF OrderInv, OnceInOrder
  <2>3. CASE k = Len(called) + 1
    BY <2>1, <2>3, <1>1, <1>2, <1>3
  <2> QED BY <2>2, <2>3, <1>1
<1>5. \A k \in DOMAIN called' :
        /\ called'[k].frame <= Len(frames)
        /\ called'[k].frame = Len(frames) => called'[k].event <= e
  <2> SUFFICES ASSUME NEW k \in DOMAIN called'
               PROVE  /\ called'[k].frame <= Len(frames)
                      /\ called'[k].frame = Len(frames) => called'[k].event <= e
    OBVIOUS
  <2>1. CASE k \in DOMAIN called
    BY <2>1, <1>1, <1>2
  <2>2. CASE k = Len(called) + 1
    BY <2>2, <1>1, <1>3
  <2> QED BY <2>1, <2>2, <1>1
<1> QED BY <1>1, <1>4, <1>5

\* One step of the handler, or a frame that arrives.
LEMMA OrderNext == OrderInv /\ [Next]_vars => OrderInv'
<1> SUFFICES ASSUME OrderInv, [Next]_vars PROVE OrderInv'
  OBVIOUS
<1>t. CallTypes /\ Behind /\ OnceInOrder
  BY DEF OrderInv
<1>f. frames # <<>> => f \in Frames
  BY <1>t DEF CallTypes, f
<1>1. ASSUME NEW frame \in Frames, Receive(frame) PROVE OrderInv'
  BY <1>1, ReceiveKeeps
<1>2. ASSUME NEW throws \in BOOLEAN, CheckSequenceNumber(throws) PROVE OrderInv'
  <2>1. /\ pc = "sequence" /\ frames # <<>> /\ UNCHANGED frames
        /\ \A k \in DOMAIN called : called[k].frame # Len(frames)
    BY <1>2, <1>t DEF CheckSequenceNumber, CallTypes, Behind
  <2>2. last[f.feed] \in Int
    BY <2>1, <1>f, <1>t DEF CallTypes, Frames, Garbled, Errors, Messages
  <2>3. CASE UNCHANGED called
    <3>1. pc' \in {"idle", "type"} /\ event' \in Nat
      BY <1>2, <1>t DEF CheckSequenceNumber, CallTypes, Abandon, Done
    <3>2. last' \in [Feeds -> Int]
      BY <1>2, <1>t, FrameAssumption DEF CheckSequenceNumber, CallTypes
    <3> QED BY <2>1, <2>3, <3>1, <3>2, <1>t DEF OrderInv, CallTypes, Behind, OnceInOrder
  <2>4. CASE ~UNCHANGED called
    <3>1. /\ Call(0, throws, last[f.feed] + 1) /\ UNCHANGED last
          /\ pc' \in {"idle", "type"} /\ event' \in Nat
      BY <1>2, <2>4, <1>t DEF CheckSequenceNumber, CallTypes, Abandon, Done
    <3>2. /\ OnceInOrder'
          /\ called' \in Seq(Callbacks)
          /\ \A k \in DOMAIN called' :
               /\ called'[k].frame <= Len(frames)
               /\ called'[k].frame = Len(frames) => called'[k].event <= 0
      <4> DEFINE missing == last[f.feed] + 1
      <4>1. missing \in Int /\ Call(0, throws, missing)
        BY <2>2, <3>1
      <4>2. \A k \in DOMAIN called : called[k].frame = Len(frames) => called[k].event < 0
        BY <2>1
      <4> HIDE DEF missing
      <4> QED BY <2>1, <4>1, <4>2, CallKeeps
    <3>3. CallTypes'
      BY <3>1, <3>2, <2>1, <1>t DEF CallTypes
    <3>4. \A k \in DOMAIN called' : called'[k].event \in Nat
      BY <3>2, CalledTypes
    <3> QED BY <2>1, <3>1, <3>2, <3>3, <3>4 DEF OrderInv, Behind
  <2> QED BY <2>3, <2>4
<1>3. ASSUME NEW throws \in BOOLEAN, Route(throws) PROVE OrderInv'
  <2>1. pc = "type" /\ frames # <<>> /\ UNCHANGED <<frames, last>>
    BY <1>3, <1>t DEF Route, CallTypes
  <2>2. CASE UNCHANGED called
    <3>1. /\ pc' \in {"idle", "events", "dead"} /\ event' \in Nat
          /\ pc' = "events" => event' = 1
      BY <1>3, <1>t DEF Route, Abandon, Done, Die
    <3> QED BY <2>1, <2>2, <3>1, <1>t DEF OrderInv, CallTypes, Behind, OnceInOrder
  <2>3. CASE ~UNCHANGED called
    <3>1. Call(1, throws, NoNumber) /\ pc' = "idle" /\ event' = 0
      BY <1>3, <2>3 DEF Route, Done
    <3>2. \A k \in DOMAIN called : called[k].frame = Len(frames) => called[k].event < 1
      BY <2>1, <1>t DEF Behind
    <3>3. NoNumber \in Int
      BY DEF NoNumber
    <3>4. /\ OnceInOrder'
          /\ called' \in Seq(Callbacks)
          /\ \A k \in DOMAIN called' : called'[k].frame <= Len(frames)
      BY <2>1, <3>1, <3>2, <3>3, CallKeeps
    <3> QED BY <2>1, <3>1, <3>4, <1>t DEF OrderInv, CallTypes, Behind
  <2> QED BY <2>2, <2>3
<1>4. ASSUME NEW throws \in BOOLEAN, HandleEvent(throws) PROVE OrderInv'
  <2>1. /\ pc = "events" /\ frames # <<>> /\ UNCHANGED <<frames, last>> /\ event \in Nat
        /\ \A k \in DOMAIN called : called[k].frame = Len(frames) => called[k].event < event
    BY <1>4, <1>t DEF HandleEvent, CallTypes, Behind
  <2>2. \/ pc' \in {"idle", "dead"} /\ event' = 0
        \/ pc' = "events" /\ event' = event + 1
    BY <1>4, <2>1 DEF HandleEvent, Abandon, Done, Die, NextEvent
  <2>3. CASE UNCHANGED called
    <3>1. \A k \in DOMAIN called : called[k].event \in Nat
      BY <1>t, CalledTypes DEF CallTypes
    <3> QED BY <2>1, <2>2, <2>3, <3>1, <1>t DEF OrderInv, CallTypes, Behind, OnceInOrder
  <2>4. CASE ~UNCHANGED called
    <3>1. Call(event, throws, NoNumber)
      BY <1>4, <2>4 DEF HandleEvent
    <3>2. NoNumber \in Int
      BY DEF NoNumber
    <3>3. /\ OnceInOrder'
          /\ called' \in Seq(Callbacks)
          /\ \A k \in DOMAIN called' :
               /\ called'[k].frame <= Len(frames)
               /\ called'[k].frame = Len(frames) => called'[k].event <= event
      BY <2>1, <3>1, <3>2, CallKeeps
    <3>4. CallTypes'
      BY <2>1, <2>2, <3>3, <1>t DEF CallTypes
    <3>5. \A k \in DOMAIN called' : called'[k].event \in Nat
      BY <3>3, CalledTypes
    <3> QED BY <2>1, <2>2, <3>3, <3>4, <3>5 DEF OrderInv, Behind
  <2> QED BY <2>3, <2>4
<1>5. CASE EndEvents
  BY <1>5, <1>t DEF EndEvents, Done, OrderInv, CallTypes, Behind, OnceInOrder
<1>6. CASE UNCHANGED vars
  BY <1>6, <1>t DEF vars, OrderInv, CallTypes, Behind, OnceInOrder
<1> QED BY <1>1, <1>2, <1>3, <1>4, <1>5, <1>6 DEF Next, Frames

\* Callbacks come in the order of the frames and of the events in them, and none
\* comes twice, whatever throws.
THEOREM OnceInOrderCorrect == Spec => []OnceInOrder
<1>1. OrderInv => OnceInOrder
  BY DEF OrderInv
<1> QED BY OrderInit, OrderNext, <1>1, PTL DEF Spec

-----------------------------------------------------------------------------
(* A gap stays one.                                                        *)

\* Frames whose number has been looked at.
Checked == IF pc = "sequence" THEN Len(frames) - 1 ELSE Len(frames)

\* The number callback k waits for is not among the frames up to n.
Waits(k, n) ==
  \A h \in called[k].frame..n :
    frames[h].feed = frames[called[k].frame].feed => frames[h].num # called[k].missing

\* While a gap waits, the number kept is the one before the one it waits for,
\* and so every number of the feed was reported.
GapHolds(k) ==
  /\ called[k].frame \in 1..Checked
  /\ called[k].missing > 0
  /\ Waits(k, Checked) => last[frames[called[k].frame].feed] = called[k].missing - 1
  /\ \A i \in (called[k].frame + 1)..Checked :
       /\ frames[i].feed = frames[called[k].frame].feed
       /\ frames[i].num \in Numbers
       /\ Waits(k, i)
       => \E m \in DOMAIN called : called[m].frame = i /\ called[m].event = 0

GapInv == \A k \in DOMAIN called : called[k].event = 0 => GapHolds(k)

\* The fields of a frame.
LEMMA FrameTypes ==
  ASSUME NEW s \in Seq(Frames), NEW i \in 1..Len(s)
  PROVE  s[i].feed \in Feeds /\ s[i].num \in Numbers \cup {NoNumber, BadNumber}
<1>1. s[i] \in Frames
  OBVIOUS
<1> QED BY <1>1 DEF Frames, Garbled, Errors, Messages

\* A step that looks at no number and reports no gap.
LEMMA GapQuiet ==
  ASSUME CallTypes, CallTypes', GapInv, UNCHANGED <<frames, last>>, Checked' = Checked,
         \A k \in DOMAIN called : k \in DOMAIN called' /\ called'[k] = called[k],
         \A k \in DOMAIN called' : k \in DOMAIN called \/ called'[k].event # 0
  PROVE  GapInv'
<1> SUFFICES ASSUME NEW k \in DOMAIN called', called'[k].event = 0
             PROVE  GapHolds(k)'
  BY DEF GapInv
<1>1. k \in DOMAIN called /\ called'[k] = called[k] /\ GapHolds(k)
  BY DEF GapInv
<1>2. \A n : Waits(k, n)' <=> Waits(k, n)
  BY <1>1 DEF Waits
<1> QED BY <1>1, <1>2 DEF GapHolds

\* A frame arrives.
LEMMA GapReceive ==
  ASSUME CallTypes, CallTypes', GapInv, NEW frame \in Frames, Receive(frame)
  PROVE  GapInv'
<1> SUFFICES ASSUME NEW k \in DOMAIN called, called[k].event = 0
             PROVE  GapHolds(k)'
  BY DEF GapInv, Receive
<1>1. GapHolds(k) /\ UNCHANGED <<called, last>> /\ pc = "idle"
  BY DEF GapInv, Receive
<1>2. /\ Len(frames) \in Nat /\ Len(frames') = Len(frames) + 1
      /\ \A i \in 1..Len(frames) : frames'[i] = frames[i]
      /\ frames'[Len(frames')] = frame
  BY DEF CallTypes, Receive
<1>3. called[k].frame \in 1..Len(frames) /\ Checked = Len(frames)
  BY <1>1 DEF GapHolds, Checked
<1>4. \A n \in 1..Len(frames) : Waits(k, n)' <=> Waits(k, n)
  BY <1>1, <1>2, <1>3 DEF Waits
<1>5. CASE Checked' = Len(frames)
  BY <1>1, <1>2, <1>3, <1>4, <1>5 DEF GapHolds
<1>6. CASE Checked' # Len(frames)
  <2>1. frame.what = "garbled" /\ Checked' = Len(frames')
    <3>1. pc' # "sequence"
      BY <1>6, <1>2 DEF Checked
    <3> QED BY <3>1, <1>2 DEF Receive, Checked
  <2>2. frame.num \notin Numbers
    <3>1. frame.num = NoNumber
      BY <2>1 DEF Frames, Garbled, Errors, Messages
    <3> QED BY <3>1, FrameAssumption DEF NoNumber
  <2>3. PICK n \in Nat : n = Len(frames')
    BY <1>2
  <2>4. Waits(k, n)' => Waits(k, Len(frames))
    BY <1>1, <1>2, <1>3, <2>3 DEF Waits
  <2>5. Waits(k, Checked)' <=> Waits(k, n)'
    BY <2>1, <2>3
  <2> QED BY <1>1, <1>2, <1>3, <1>4, <2>1, <2>2, <2>3, <2>4, <2>5 DEF GapHolds
<1> QED BY <1>5, <1>6

\* The number of a frame is looked at: it heals a gap, or shows it again, or is
\* no number of a gap's feed.
LEMMA GapCheck ==
  ASSUME CallTypes, CallTypes', GapInv, NEW throws \in BOOLEAN, CheckSequenceNumber(throws)
  PROVE  GapInv'
<1> DEFINE n == Len(frames)
<1>1. /\ pc = "sequence" /\ pc' \in {"idle", "type"} /\ UNCHANGED frames
      /\ n \in Nat \ {0} /\ Checked = n - 1 /\ Checked' = n
  BY DEF CheckSequenceNumber, Abandon, Done, CallTypes, Checked
<1>2. f = frames[n] /\ f.feed \in Feeds /\ f.num \in Numbers \cup {NoNumber, BadNumber}
  BY <1>1, FrameTypes DEF CallTypes, f
<1>3. /\ NoNumber \notin Numbers /\ BadNumber \notin Numbers /\ Numbers \subseteq Nat
      /\ NoNumber < 0 /\ BadNumber < 0 /\ NoNumber \in Int /\ BadNumber \in Int
  BY FrameAssumption DEF NoNumber, BadNumber
<1>4. last[f.feed] \in Int
  BY <1>2 DEF CallTypes
<1>5. /\ \A k \in DOMAIN called : called[k].frame \in Nat /\ called[k].missing \in Int
      /\ \A k \in DOMAIN called : k \in DOMAIN called' /\ called'[k] = called[k]
  <2>1. \A k \in DOMAIN called : called[k] \in Callbacks
    BY DEF CallTypes
  <2>2. Len(called) \in Nat /\ DOMAIN called = 1..Len(called)
    BY DEF CallTypes
  <2>3. \A k \in DOMAIN called : k \in DOMAIN called' /\ called'[k] = called[k]
    BY <2>2 DEF CheckSequenceNumber, Call, CallTypes
  <2> QED BY <2>1, <2>3 DEF Callbacks
<1> HIDE DEF n
<1>6. ASSUME NEW k \in DOMAIN called, called[k].event = 0
      PROVE  /\ GapHolds(k) /\ called[k].frame \in 1..(n - 1)
             /\ \A i \in 1..n : Waits(k, i)' <=> Waits(k, i)
             /\ Waits(k, n) => Waits(k, n - 1)
             /\ Waits(k, n) /\ f.feed = frames[called[k].frame].feed => f.num # called[k].missing
  BY <1>1, <1>2, <1>5, <1>6 DEF GapInv, GapHolds, Waits
<1>7. CASE f.num \notin Numbers
  <2>1. UNCHANGED <<last, called>>
    BY <1>7, <1>2 DEF CheckSequenceNumber
  <2> SUFFICES ASSUME NEW k \in DOMAIN called, called[k].event = 0
               PROVE  GapHolds(k)'
    BY <2>1 DEF GapInv
  <2> QED BY <1>1, <1>2, <1>6, <1>7, <2>1 DEF GapHolds
<1>8. CASE f.num \in Numbers /\ Follows(f.num, last[f.feed])
  <2>1. /\ UNCHANGED called
        /\ last' = [last EXCEPT ![f.feed] = f.num]
    BY <1>8, <1>3 DEF CheckSequenceNumber
  <2> SUFFICES ASSUME NEW k \in DOMAIN called, called[k].event = 0
               PROVE  GapHolds(k)'
    BY <2>1 DEF GapInv
  <2>2. CASE f.feed = frames[called[k].frame].feed
    <3>1. ~Waits(k, n)
      BY <1>1, <1>3, <1>4, <1>5, <1>6, <1>8, <2>2 DEF GapHolds, Follows
    <3> QED BY <1>1, <1>6, <2>1, <3>1 DEF GapHolds
  <2>3. CASE f.feed # frames[called[k].frame].feed
    <3>1. last'[frames[called[k].frame].feed] = last[frames[called[k].frame].feed]
      BY <2>1, <2>3 DEF CallTypes
    <3> QED BY <1>1, <1>2, <1>6, <2>1, <2>3, <3>1 DEF GapHolds
  <2> QED BY <2>2, <2>3
<1>9. CASE f.num \in Numbers /\ ~Follows(f.num, last[f.feed])
  <2>1. Call(0, throws, last[f.feed] + 1) /\ UNCHANGED last
    BY <1>9, <1>3 DEF CheckSequenceNumber
  <2>2. last[f.feed] >= 0
    BY <1>9, <1>4 DEF Follows
  <2> DEFINE new == Len(called) + 1
  <2>3. /\ DOMAIN called' = DOMAIN called \cup {new}
        /\ new \in DOMAIN called'
        /\ called'[new].frame = n /\ called'[new].event = 0
        /\ called'[new].missing = last[f.feed] + 1
    BY <2>1 DEF Call, CallTypes, n
  <2> HIDE DEF new
  <2> SUFFICES ASSUME NEW k \in DOMAIN called', called'[k].event = 0
               PROVE  GapHolds(k)'
    BY DEF GapInv
  <2>4. CASE k = new
    BY <1>1, <1>2, <1>4, <2>1, <2>2, <2>3, <2>4 DEF GapHolds
  <2>5. CASE k \in DOMAIN called
    <3>1. called'[k] = called[k] /\ called[k].event = 0
      BY <1>5, <2>5
    <3>2. \A i \in (called[k].frame + 1)..n :
            /\ frames[i].feed = frames[called[k].frame].feed
            /\ frames[i].num \in Numbers
            /\ Waits(k, i)
            => \E m \in DOMAIN called' : called'[m].frame = i /\ called'[m].event = 0
      <4> TAKE i \in (called[k].frame + 1)..n
      <4>1. CASE i = n
        BY <4>1, <2>3
      <4>2. CASE i # n
        BY <4>2, <1>1, <1>5, <1>6, <2>5, <3>1 DEF GapHolds
      <4> QED BY <4>1, <4>2
    <3> QED BY <1>1, <1>5, <1>6, <2>1, <2>5, <3>1, <3>2 DEF GapHolds
  <2> QED BY <2>3, <2>4, <2>5
<1> QED BY <1>7, <1>8, <1>9

LEMMA GapNext == CallTypes /\ CallTypes' /\ GapInv /\ [Next]_vars => GapInv'
<1> SUFFICES ASSUME CallTypes, CallTypes', GapInv, [Next]_vars PROVE GapInv'
  OBVIOUS
<1>1. ASSUME NEW frame \in Frames, Receive(frame) PROVE GapInv'
  BY <1>1, GapReceive
<1>2. ASSUME NEW throws \in BOOLEAN, CheckSequenceNumber(throws) PROVE GapInv'
  BY <1>2, GapCheck
<1>3. ASSUME NEW e \in Nat \ {0}, NEW throws \in BOOLEAN, NEW missing,
             Call(e, throws, missing) \/ UNCHANGED called,
             UNCHANGED <<frames, last>>, pc # "sequence", pc' # "sequence"
      PROVE  GapInv'
  <2>1. Checked' = Checked
    BY <1>3 DEF Checked
  <2>2. /\ \A k \in DOMAIN called : k \in DOMAIN called' /\ called'[k] = called[k]
        /\ \A k \in DOMAIN called' : k \in DOMAIN called \/ called'[k].event # 0
    BY <1>3 DEF Call, CallTypes
  <2> QED BY <1>3, <2>1, <2>2, GapQuiet
<1>4. ASSUME NEW throws \in BOOLEAN, Route(throws) PROVE GapInv'
  <2>1. Call(1, throws, NoNumber) \/ UNCHANGED called
    BY <1>4 DEF Route
  <2> QED BY <1>4, <2>1, <1>3 DEF Route, Abandon, Done, Die
<1>5. ASSUME NEW throws \in BOOLEAN, HandleEvent(throws) PROVE GapInv'
  <2>1. event \in Nat \ {0} /\ (Call(event, throws, NoNumber) \/ UNCHANGED called)
    BY <1>5 DEF HandleEvent, CallTypes
  <2> QED BY <1>5, <2>1, <1>3 DEF HandleEvent, Abandon, Done, Die, NextEvent
<1>6. CASE EndEvents \/ UNCHANGED vars
  BY <1>6, GapQuiet DEF EndEvents, Done, vars, Checked
<1> QED BY <1>1, <1>2, <1>4, <1>5, <1>6 DEF Next, Frames

LEMMA TypesHold == Spec => []CallTypes
<1>1. OrderInv => CallTypes
  BY DEF OrderInv
<1> QED BY OrderInit, OrderNext, <1>1, PTL DEF Spec

\* After a gap every number of the feed is reported as a gap again until the
\* missing one arrives, for any numbers and any frames lost.
THEOREM GapIsStickyCorrect == Spec => []GapIsSticky
<1>1. Init => GapInv
  BY DEF Init, GapInv
<1>2. CallTypes /\ GapInv => GapIsSticky
  <2> SUFFICES ASSUME CallTypes, GapInv,
                      NEW k \in DOMAIN called, NEW i \in (called[k].frame + 1)..Len(frames),
                      called[k].event = 0, frames[i].feed = frames[called[k].frame].feed,
                      frames[i].num \in Numbers, Finished(i), Waits(k, i)
               PROVE  \E m \in Calls(i) : called[m].event = 0
    BY DEF GapIsSticky, Waits
  <2>1. called[k].frame \in Nat /\ Len(frames) \in Nat
    BY CalledTypes DEF CallTypes
  <2>2. i \in (called[k].frame + 1)..Checked
    BY <2>1 DEF Finished, Checked
  <2> QED BY <2>2 DEF GapInv, GapHolds, Calls
<1> QED BY <1>1, <1>2, GapNext, TypesHold, PTL DEF Spec

-----------------------------------------------------------------------------
(* A frame costs only itself.                                              *)

Handed == {"snapshot", "update"}

CalledFor(i, e) == \E k \in DOMAIN called : called[k].frame = i /\ called[k].event = e

\* A finished frame has lost only what its own contents or callbacks cost it.
Accounted(i) ==
  frames[i].channel \in WithEvents(frames[i].feed) =>
    \A e \in DOMAIN frames[i].events :
      frames[i].events[e] \in Handed => Excused(i, e) \/ CalledFor(i, e)

\* While the events of a frame are handed on, those behind have been.
OwnInv ==
  /\ \A i \in DOMAIN frames : Finished(i) => Accounted(i)
  /\ pc \in {"sequence", "type", "events"} => f.what # "garbled"
  /\ pc = "events" /\ f.num # NoNumber =>
       \A e \in DOMAIN f.events : e < event /\ f.events[e] \in Handed => CalledFor(Len(frames), e)
  /\ pc = "dead" => LacksField(Len(frames))

\* What excuses a frame goes on excusing it while callbacks are added.
LEMMA Monotone ==
  ASSUME CallTypes, UNCHANGED frames,
         \A k \in DOMAIN called : k \in DOMAIN called' /\ called'[k] = called[k],
         NEW i
  PROVE  /\ Accounted(i) => Accounted(i)'
         /\ \A e : CalledFor(i, e) => CalledFor(i, e)'
<1>1. \A e : CalledFor(i, e) => CalledFor(i, e)'
  BY DEF CalledFor
<1>2. \A e : Excused(i, e) => Excused(i, e)'
  BY DEF Excused, Calls
<1> QED BY <1>1, <1>2 DEF Accounted

\* A callback recorded is added to the others.
LEMMA CallAdds ==
  ASSUME CallTypes, NEW e, NEW throws, NEW missing,
         Call(e, throws, missing) \/ UNCHANGED called
  PROVE  \A k \in DOMAIN called : k \in DOMAIN called' /\ called'[k] = called[k]
<1>1. CASE UNCHANGED called
  BY <1>1
<1>2. CASE Call(e, throws, missing)
  BY <1>2 DEF CallTypes, Call
<1> QED BY <1>1, <1>2

LEMMA CallAdded ==
  ASSUME CallTypes, NEW e, NEW throws, NEW missing, Call(e, throws, missing)
  PROVE  \E k \in DOMAIN called' :
           called'[k].frame = Len(frames) /\ called'[k].event = e /\ called'[k].threw = throws
<1>1. /\ Len(called) + 1 \in DOMAIN called'
      /\ called'[Len(called) + 1] = [frame |-> Len(frames), event |-> e, threw |-> throws,
                                     missing |-> missing]
  BY DEF CallTypes, Call
<1> QED BY <1>1

\* The handler's steps: the frames are the same, the last may be finished by it.
LEMMA OwnStep ==
  ASSUME CallTypes, OwnInv, UNCHANGED frames, pc # "idle",
         \A k \in DOMAIN called : k \in DOMAIN called' /\ called'[k] = called[k],
         pc' = "idle" => Accounted(Len(frames))'
  PROVE  \A i \in DOMAIN frames : Finished(i)' => Accounted(i)'
<1> TAKE i \in DOMAIN frames
<1>1. Len(frames) \in Nat /\ i \in 1..Len(frames)
  BY DEF CallTypes
<1>2. CASE i = Len(frames)
  BY <1>2, <1>1 DEF Finished
<1>3. CASE i # Len(frames)
  <2>1. Accounted(i)
    BY <1>1, <1>3 DEF OwnInv, Finished
  <2> QED BY <2>1, Monotone
<1> QED BY <1>2, <1>3

LEMMA OwnNext == TypeOK /\ CallTypes /\ OwnInv /\ [Next]_vars => OwnInv'
<1> SUFFICES ASSUME TypeOK, CallTypes, OwnInv, [Next]_vars PROVE OwnInv'
  OBVIOUS
<1>f. /\ frames \in Seq(Frames)
      /\ pc # "idle" => frames # <<>>
  BY DEF CallTypes
<1> DEFINE n == Len(frames)
<1>1. ASSUME NEW frame \in Frames, Receive(frame) PROVE OwnInv'
  <2>1. /\ n \in Nat /\ Len(frames') = n + 1 /\ DOMAIN frames = 1..n /\ DOMAIN frames' = 1..(n + 1)
        /\ \A i \in 1..n : frames'[i] = frames[i]
        /\ frames'[n + 1] = frame /\ f' = frame
        /\ UNCHANGED called /\ pc = "idle"
        /\ pc' = IF frame.what = "garbled" THEN "idle" ELSE "sequence"
    BY <1>1 DEF Receive, CallTypes, f
  <2>2. \A i \in 1..n : Accounted(i)'
    <3> TAKE i \in 1..n
    <3>1. Accounted(i)
      BY <2>1 DEF OwnInv, Finished
    <3> QED BY <3>1, <2>1 DEF Accounted, CalledFor, Excused, Calls
  <2>3. CASE frame.what = "garbled"
    <3>1. frame.events = <<>>
      BY <2>3 DEF Frames, Garbled, Errors, Messages
    <3>2. PICK m \in Nat : m = n + 1
      BY <2>1
    <3>3. Accounted(m)'
      BY <2>1, <3>1, <3>2 DEF Accounted
    <3> QED BY <2>1, <2>2, <2>3, <3>2, <3>3 DEF OwnInv
  <2>4. CASE frame.what # "garbled"
    <3>1. \A i \in 1..(n + 1) : Finished(i)' => i \in 1..n
      BY <2>1, <2>4 DEF Finished
    <3> QED BY <2>1, <2>2, <2>4, <3>1 DEF OwnInv
  <2> QED BY <2>3, <2>4
<1>2. ASSUME NEW throws \in BOOLEAN, CheckSequenceNumber(throws) PROVE OwnInv'
  <2>1. /\ pc = "sequence" /\ UNCHANGED frames /\ pc' \in {"idle", "type"}
        /\ Call(0, throws, last[f.feed] + 1) \/ UNCHANGED called
    BY <1>2 DEF CheckSequenceNumber, Abandon, Done
  <2>2. \A k \in DOMAIN called : k \in DOMAIN called' /\ called'[k] = called[k]
    BY <2>1, CallAdds
  <2>3. ASSUME pc' = "idle" PROVE Accounted(n)'
    <3>1. \/ f.num = BadNumber
          \/ Call(0, throws, last[f.feed] + 1) /\ throws
      BY <1>2, <2>3 DEF CheckSequenceNumber, Abandon, Done
    <3>2. \A e \in DOMAIN f.events : e \in Nat \ {0}
      BY <1>f, FrameShape, EventsCounted, <2>1
    <3>3. CASE f.num = BadNumber
      BY <2>1, <3>3 DEF Accounted, Excused, f
    <3>4. CASE Call(0, throws, last[f.feed] + 1) /\ throws
      <4>1. PICK k \in DOMAIN called' :
              called'[k].frame = n /\ called'[k].event = 0 /\ called'[k].threw = throws
        <5>1. Call(0, throws, last[f.feed] + 1)
          BY <3>4
        <5> QED BY <5>1, CallAdded
      <4>2. \A e \in DOMAIN f.events : Excused(n, e)'
        <5>1. called'[k].threw
          BY <3>4, <4>1
        <5>2. k \in Calls(n)'
          BY <2>1, <4>1 DEF Calls
        <5>3. \A e \in DOMAIN f.events : called'[k].event < e
          BY <3>2, <4>1
        <5> QED BY <5>1, <5>2, <5>3 DEF Excused
      <4> QED BY <2>1, <4>2 DEF Accounted, f
    <3> QED BY <3>1, <3>3, <3>4
  <2>4. \A i \in DOMAIN frames : Finished(i)' => Accounted(i)'
    BY <2>1, <2>2, <2>3, OwnStep
  <2> QED BY <2>1, <2>4 DEF OwnInv, f
<1>n. f.num = NoNumber /\ UNCHANGED frames => Accounted(n)' /\ LacksField(Len(frames))'
  BY DEF Accounted, Excused, LacksField, f
<1>3. ASSUME NEW throws \in BOOLEAN, Route(throws) PROVE OwnInv'
  <2>1. /\ pc = "type" /\ UNCHANGED frames /\ pc' \in {"idle", "events", "dead"}
        /\ Call(1, throws, NoNumber) \/ UNCHANGED called
    BY <1>3 DEF Route, Abandon, Done, Die
  <2>2. \A k \in DOMAIN called : k \in DOMAIN called' /\ called'[k] = called[k]
    BY <2>1, CallAdds
  <2>3. ASSUME pc' = "idle" PROVE Accounted(n)'
    <3>1. \/ f.what # "message" \/ f.channel \notin WithEvents(f.feed)
          \/ f.num = NoNumber
      BY <1>3, <2>3 DEF Route
    <3>2. CASE f.num = NoNumber
      BY <1>n, <2>1, <3>2
    <3>3. CASE f.num # NoNumber
      <4>1. f.events = <<>> \/ f.channel \notin WithEvents(f.feed)
        BY <3>1, <3>3, <2>1, <1>f, FrameShape
      <4> QED BY <2>1, <4>1 DEF Accounted, f
    <3> QED BY <3>2, <3>3
  <2>4. \A i \in DOMAIN frames : Finished(i)' => Accounted(i)'
    BY <2>1, <2>2, <2>3, OwnStep
  <2>5. ASSUME pc' = "events" PROVE event' = 1
    BY <1>3, <2>5 DEF Route, Abandon, Done, Die
  <2>6. \A e \in DOMAIN f.events : e \in Nat \ {0}
    BY <1>f, FrameShape, EventsCounted, <2>1
  <2>7. ASSUME pc' = "dead" PROVE LacksField(Len(frames))'
    <3>1. f.num = NoNumber
      BY <1>3, <2>7 DEF Route, Abandon, Done, Die
    <3> QED BY <1>n, <2>1, <3>1
  <2> QED BY <2>1, <2>4, <2>5, <2>6, <2>7 DEF OwnInv, f
<1>4. ASSUME NEW throws \in BOOLEAN, HandleEvent(throws) PROVE OwnInv'
  <2>1. /\ pc = "events" /\ UNCHANGED frames /\ event \in Nat /\ event \in DOMAIN f.events
        /\ Call(event, throws, NoNumber) \/ UNCHANGED called
        /\ pc' \in {"idle", "events", "dead"}
        /\ pc' = "events" => event' = event + 1
    BY <1>4 DEF HandleEvent, CallTypes, Abandon, Done, Die, NextEvent
  <2>2. \A k \in DOMAIN called : k \in DOMAIN called' /\ called'[k] = called[k]
    BY <2>1, CallAdds
  <2>3. \A e \in DOMAIN f.events : e \in Nat \ {0}
    BY <1>f, FrameShape, EventsCounted, <2>1
  <2>4. f.num # NoNumber => Kind = f.events[event]
    BY DEF Kind, LacksNumberHere
  <2> DEFINE ok == f.events[event] \in Handed
  <2>5. ASSUME f.num # NoNumber
        PROVE  \A e \in DOMAIN f.events : e <= event /\ f.events[e] \in Handed => CalledFor(n, e)'
    <3>1. \A e \in DOMAIN f.events :
            e < event /\ f.events[e] \in Handed => CalledFor(n, e)'
      BY <2>1, <2>2, <2>5, Monotone DEF OwnInv
    <3>2. ASSUME NEW e, e = event, ok PROVE CalledFor(n, e)'
      <4>1. Call(event, throws, NoNumber)
        BY <1>4, <2>4, <2>5, <3>2 DEF HandleEvent, Handed
      <4>2. \E k \in DOMAIN called' : called'[k].frame = n /\ called'[k].event = event
        BY <4>1, CallAdded
      <4> QED BY <2>1, <3>2, <4>2 DEF CalledFor
    <3> TAKE e \in DOMAIN f.events
    <3>3. e < event \/ e = event \/ e > event
      BY <2>1, <2>3
    <3> QED BY <2>1, <2>3, <3>1, <3>2, <3>3
  <2>6. ASSUME pc' = "idle", f.num # NoNumber PROVE Accounted(n)'
    <3>1. \/ Call(event, throws, NoNumber) /\ throws
          \/ f.events[event] \in {"malformed", "missing"}
          \/ f.events[event] = "unknown" /\ f.channel \notin {"l2_data", "market_trades"}
      BY <1>4, <2>1, <2>4, <2>6 DEF HandleEvent, NextEvent, Die, SkipsUnknown
    <3>2. \A e \in DOMAIN f.events : e > event => Excused(n, e)'
      <4>1. CASE Call(event, throws, NoNumber) /\ throws
        <5>1. PICK k \in DOMAIN called' :
                called'[k].frame = n /\ called'[k].event = event /\ called'[k].threw = throws
          <6>1. Call(event, throws, NoNumber)
            BY <4>1
          <6> QED BY <6>1, CallAdded
        <5> QED BY <2>1, <2>3, <4>1, <5>1 DEF Excused, Calls
      <4>2. CASE \/ f.events[event] \in {"malformed", "missing"}
                 \/ f.events[event] = "unknown" /\ f.channel \notin {"l2_data", "market_trades"}
        <5>1. \A e \in DOMAIN f.events : e > event => event \in 1..(e - 1)
          BY <2>1, <2>3
        <5> QED BY <2>1, <4>2, <5>1 DEF Excused, f
      <4> QED BY <3>1, <4>1, <4>2
    <3>3. \A e \in DOMAIN f.events : e <= event \/ e > event
      BY <2>1, <2>3
    <3> QED BY <2>1, <2>5, <2>6, <3>2, <3>3 DEF Accounted, f
  <2>7. pc' = "idle" => Accounted(n)'
    BY <1>n, <2>1, <2>6
  <2>8. \A i \in DOMAIN frames : Finished(i)' => Accounted(i)'
    BY <2>1, <2>2, <2>7, OwnStep
  <2>9. \A e \in DOMAIN f.events : e < event + 1 => e <= event
    BY <2>1, <2>3
  <2>10. ASSUME pc' = "dead" PROVE LacksField(Len(frames))'
    <3>1. f.num = NoNumber \/ f.events[event] = "missing"
      BY <1>4, <2>4, <2>10 DEF HandleEvent, Abandon, Done, NextEvent
    <3>2. CASE f.events[event] = "missing"
      BY <2>1, <3>2 DEF LacksField, f
    <3> QED BY <1>n, <2>1, <3>1, <3>2
  <2> HIDE DEF ok, n
  <2>11. f' = f /\ f.what # "garbled" /\ Len(frames') = n
    BY <2>1 DEF OwnInv, f, n
  <2> QED BY <2>1, <2>5, <2>8, <2>9, <2>10, <2>11 DEF OwnInv, n
<1>5. CASE EndEvents
  <2>1. /\ pc = "events" /\ UNCHANGED <<frames, called>> /\ pc' = "idle"
        /\ event \in Nat \ {0} /\ event \notin DOMAIN f.events
    BY <1>5 DEF EndEvents, Done, CallTypes
  <2>2. \A e \in DOMAIN f.events : e < event
    <3>1. DOMAIN f.events = 1..Len(f.events) /\ Len(f.events) \in Nat
      BY <2>1, <1>f, FrameShape, EventsShape, FrameAssumption
    <3>2. event \in 1..(Len(f.events) + 1)
      BY <2>1 DEF TypeOK
    <3> QED BY <2>1, <3>1, <3>2
  <2>3. Accounted(n)'
    <3>1. CASE f.num = NoNumber
      BY <1>n, <2>1, <3>1
    <3>2. CASE f.num # NoNumber
      <4>1. \A e \in DOMAIN f.events : f.events[e] \in Handed => CalledFor(n, e)'
        BY <2>1, <2>2, <3>2, Monotone DEF OwnInv
      <4> QED BY <2>1, <4>1 DEF Accounted, f
    <3> QED BY <3>1, <3>2
  <2>4. \A i \in DOMAIN frames : Finished(i)' => Accounted(i)'
    BY <2>1, <2>3, OwnStep
  <2> QED BY <2>1, <2>4 DEF OwnInv
<1>6. CASE UNCHANGED vars
  <2> QED BY <1>6 DEF vars, OwnInv, Finished, Accounted, CalledFor, Excused, Calls, f, LacksField
<1> QED BY <1>1, <1>2, <1>3, <1>4, <1>5, <1>6 DEF Next, Frames

\* No frame is lost to what another one was or to what another one's callbacks
\* did, and the process to nothing but a field read that is not there, whatever
\* the frames and however many.
THEOREM OnlyOwnEventsLostCorrect == Spec => []OnlyOwnEventsLost
<1>1. Init => OwnInv
  BY DEF Init, OwnInv
<1>2. CallTypes /\ OwnInv => OnlyOwnEventsLost
  BY DEF CallTypes, OwnInv, Accounted, CalledFor, Calls, OnlyOwnEventsLost, Handed
<1> QED BY <1>1, <1>2, OwnNext, TypesHold, TypeCorrect, PTL DEF Spec

=============================================================================
