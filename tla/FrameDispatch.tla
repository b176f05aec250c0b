---------------------------- MODULE FrameDispatch ----------------------------
(***************************************************************************)
(* DataHandler: what one raw frame becomes.  The frame is parsed, its      *)
(* number checked, an error reported, or its channel's events handed one   *)
(* by one to the user's callbacks.  One try block surrounds the frame: the *)
(* first exception, the user's own included, ends the work on it.  A field *)
(* that the handlers read with operator[] of a const json and that is not  *)
(* there raises no exception: it is an assertion in a debug build and      *)
(* undefined in a release build, and may cost the process.                 *)
(*                                                                         *)
(* UserThreadFeed and DirectFeed take a frame for one indivisible step;    *)
(* this module opens that step.                                            *)
(***************************************************************************)
EXTENDS Integers, SequencesExt

CONSTANTS
  Channels,   \* channels of the frames that arrive
  Numbers,    \* sequence numbers of the frames that arrive
  MaxEvents,  \* bound: events of all the frames together
  MaxFrames,  \* bound: frames that arrive
  MaxTotal    \* bound: frames and events together

ASSUME FrameAssumption ==
  /\ Numbers \subseteq Nat
  /\ MaxEvents \in Nat
  /\ MaxFrames \in Nat
  /\ MaxTotal \in Nat

Feeds == {"MD", "USER"}

\* The channels whose events a handler hands on.
WithEvents(feed) ==
  IF feed = "MD"
  THEN {"l2_data", "ticker", "ticker_batch", "market_trades", "candles", "status"}
  ELSE {"user"}

NoNumber == -1     \* no sequence_num field
BadNumber == -2    \* a sequence_num that is not a number

\* "malformed": a field the handler or the callback's arguments need has another
\* type, or is missing where it is read with at(): this throws before the
\* callback.  "missing": one that is read with operator[] is not there: the
\* event's type or list or the frame's timestamp; a message without "events" is
\* one whose first event is like that.
EventKinds == {"snapshot", "update", "unknown", "malformed", "missing"}

Events == UNION {[1..n -> EventKinds] : n \in 0..MaxEvents}

\* The exchange's frames: an error carries neither number, channel nor events;
\* a message may lack its number, and arrives on the socket its channel was
\* subscribed on.
Garbled == [what : {"garbled"}, feed : Feeds, num : {NoNumber}, channel : {""}, events : {<<>>}]
Errors  == [what : {"error", "bad error"}, feed : Feeds, num : {NoNumber}, channel : {""},
            events : {<<>>}]
Messages == {m \in [what : {"message"}, feed : Feeds, num : Numbers \cup {BadNumber, NoNumber},
                    channel : Channels, events : Events] :
              m.channel = "user" <=> m.feed = "USER"}

VARIABLES
  frames,   \* every frame handed to the handler
  pc,       \* "idle", the part of the handler the last frame is in, or "dead"
            \* when the process has ended
  event,    \* the event the loop has reached
  last,     \* last_md_seq_num_, last_user_seq_num_
  called    \* every callback: the frame and event it is for, and how it ended

vars == <<frames, pc, event, last, called>>

f == frames[Len(frames)]

EventsSoFar == FoldLeft(LAMBDA n, frame : n + Len(frame.events), 0, frames)

-----------------------------------------------------------------------------

\* Event 0 stands for the gap callback; missing is the number it waits for.
Call(e, throws, missing) ==
  called' = Append(called, [frame |-> Len(frames), event |-> e, threw |-> throws,
                            missing |-> missing])

Done == pc' = "idle" /\ event' = 0

\* Mistake: the handler starts the events again after an exception.
AbandonRestarted ==
  IF f.events # <<>> /\ event = 1 THEN UNCHANGED <<pc, event>> ELSE Done

\* The catch block: the exception is logged and the frame forgotten.
Abandon == Done

\* A failed assertion, or a read through the end of a map that the system stops.
Die == pc' = "dead" /\ event' = 0

\* A frame reaches processMarketData or processUserData.
Receive(frame) ==
  /\ pc = "idle"
  /\ Len(frames) < MaxFrames
  /\ LET events == EventsSoFar + Len(frame.events)
     IN events <= MaxEvents /\ Len(frames) + 1 + events <= MaxTotal
  /\ frames' = Append(frames, frame)
  /\ pc' = IF frame.what = "garbled" THEN "idle" ELSE "sequence"
  /\ UNCHANGED <<event, last, called>>

\* Mistake: any later number is accepted.
FollowsNewer(num, seq) == seq < 0 \/ num > seq

Follows(num, seq) == seq < 0 \/ num = seq + 1

\* checkMarketDataSequenceNumber, checkUserDataSequenceNumber.  Their result is
\* ignored: a frame after a gap is handled like any other.
CheckSequenceNumber(throws) ==
  /\ pc = "sequence"
  /\ CASE f.num = NoNumber -> pc' = "type" /\ UNCHANGED <<event, last, called>>
       [] f.num = BadNumber -> Abandon /\ UNCHANGED <<last, called>>
       [] f.num \in Numbers /\ Follows(f.num, last[f.feed]) ->
            /\ last' = [last EXCEPT ![f.feed] = f.num]
            /\ pc' = "type"
            /\ UNCHANGED <<event, called>>
       [] OTHER ->
            /\ Call(0, throws, last[f.feed] + 1)
            /\ IF throws THEN Abandon ELSE pc' = "type" /\ UNCHANGED event
            /\ UNCHANGED last
  /\ UNCHANGED frames

\* The channels whose handlers read the number before the loop, with operator[].
ReadsNumberFirst == {"l2_data", "ticker", "ticker_batch", "market_trades"}

\* The error test, the choice by channel and the entry into its handler.  A
\* number read that is not there is a rubbish one, an exception or the end.
Route(throws) ==
  /\ pc = "type"
  /\ CASE f.what = "error" -> Call(1, throws, NoNumber) /\ Done
       [] f.what = "message" /\ f.channel \in WithEvents(f.feed) ->
            /\ \/ pc' = "events" /\ event' = 1
               \/ /\ f.num = NoNumber /\ f.channel \in ReadsNumberFirst
                  /\ Abandon \/ Die
            /\ UNCHANGED called
       [] OTHER -> Done /\ UNCHANGED called
  /\ UNCHANGED <<frames, last>>

\* Mistake: a strict handler everywhere.
SkipsUnknownNowhere(channel) == FALSE

\* An event of a type the handler does not know is logged and skipped, where
\* the log call reads the event's type.  The others read the frame's type,
\* which is null, and throw if the log level has the call read it at all.
SkipsUnknown(channel) == channel \in {"l2_data", "market_trades"}

\* Mistake: the loop advances twice.
NextEventTwice == event' = event + 2 /\ UNCHANGED pc

NextEvent == event' = event + 1 /\ UNCHANGED pc

\* The handlers of candles, status and user read the frame's number at each event
\* of a known type, the last of them with at().
LacksNumberHere ==
  /\ f.num = NoNumber
  /\ f.channel \notin ReadsNumberFirst
  /\ f.events[event] \notin {"unknown", "missing"}

\* What the event the loop has reached comes to.
Kind ==
  IF LacksNumberHere THEN IF f.channel = "user" THEN "malformed" ELSE "missing"
  ELSE f.events[event]

\* One turn of the loop over j["events"].  A field read that is not there may
\* pass for any value, throw, or end the process.
HandleEvent(throws) ==
  /\ pc = "events"
  /\ event \in DOMAIN f.events
  /\ \/ /\ Kind \in {"snapshot", "update", "missing"}
        /\ Call(event, throws, NoNumber)
        /\ IF throws THEN Abandon ELSE NextEvent
     \/ /\ Kind \in {"unknown", "missing"}
        /\ NextEvent
        /\ UNCHANGED called
     \/ /\ \/ Kind \in {"malformed", "missing"}
           \/ Kind = "unknown" /\ ~SkipsUnknown(f.channel)
        /\ Abandon
        /\ UNCHANGED called
     \/ /\ Kind = "missing"
        /\ Die
        /\ UNCHANGED called
  /\ UNCHANGED <<frames, last>>

EndEvents ==
  /\ pc = "events"
  /\ event \notin DOMAIN f.events
  /\ Done
  /\ UNCHANGED <<frames, last, called>>

-----------------------------------------------------------------------------

Init ==
  /\ frames = <<>>
  /\ pc = "idle"
  /\ event = 0
  /\ last = [feed \in Feeds |-> -1]
  /\ called = <<>>

Next ==
  \/ \E frame \in Garbled \cup Errors \cup Messages : Receive(frame)
  \/ \E throws \in BOOLEAN :
       CheckSequenceNumber(throws) \/ Route(throws) \/ HandleEvent(throws)
  \/ EndEvents

Spec == Init /\ [][Next]_vars

-----------------------------------------------------------------------------
(* Properties.                                                             *)

TypeOK ==
  /\ frames \in Seq(Garbled \cup Errors \cup Messages)
  /\ pc \in {"idle", "sequence", "type", "events", "dead"}
  /\ event \in IF pc = "events" THEN 1..(Len(f.events) + 1) ELSE {0}
  /\ last \in [Feeds -> {-1} \cup Numbers]
  /\ called \in Seq([frame : 1..MaxFrames, event : 0..MaxEvents + 1, threw : BOOLEAN, missing : Int])

\* Callbacks come in the order of the frames and, in a frame, gap first and
\* then the events in their order; none comes twice, whatever throws.
OnceInOrder ==
  \A j, k \in DOMAIN called :
    j < k => \/ called[j].frame < called[k].frame
             \/ called[j].frame = called[k].frame /\ called[j].event < called[k].event

Finished(i) == i < Len(frames) \/ pc = "idle"

Calls(i) == {k \in DOMAIN called : called[k].frame = i}

\* A field of frame i is not there where operator[] reads it.
LacksField(i) ==
  \/ frames[i].num = NoNumber
  \/ \E d \in DOMAIN frames[i].events : frames[i].events[d] = "missing"

\* What may keep event e of frame i from its callback: only the frame's own
\* number, its own callbacks, and its own events before e.  Events of a type
\* unknown cost the rest of the frame in every channel but two.
Excused(i, e) ==
  \/ frames[i].num \in {BadNumber, NoNumber}
  \/ \E k \in Calls(i) : called[k].threw /\ called[k].event < e
  \/ \E d \in 1..(e - 1) :
       \/ frames[i].events[d] \in {"malformed", "missing"}
       \/ frames[i].events[d] = "unknown" /\ frames[i].channel \notin {"l2_data", "market_trades"}

\* As long as the process lives no frame is lost to what another one was or to
\* what another one's callbacks did, and a gap does not cost the frame that
\* shows it.  The process, and with it every later frame, is lost to nothing but
\* a frame that lacks a field: no wrong type, unknown event or throwing callback
\* ends it.
OnlyOwnEventsLost ==
  /\ \A i \in DOMAIN frames :
       Finished(i) /\ frames[i].channel \in WithEvents(frames[i].feed) =>
         \A e \in DOMAIN frames[i].events :
           frames[i].events[e] \in {"snapshot", "update"} =>
             Excused(i, e) \/ \E k \in Calls(i) : called[k].event = e
  /\ pc = "dead" => frames # <<>> /\ LacksField(Len(frames))

\* After a gap every frame of the feed is reported as a gap again, until the
\* very number that is missing arrives: a late frame heals it, a newer one does
\* not.
GapIsSticky ==
  \A k \in DOMAIN called : \A i \in (called[k].frame + 1)..Len(frames) :
    /\ called[k].event = 0
    /\ frames[i].feed = frames[called[k].frame].feed
    /\ frames[i].num \in Numbers
    /\ Finished(i)
    /\ \A h \in called[k].frame..i :
         frames[h].feed = frames[i].feed => frames[h].num # called[k].missing
    => \E m \in Calls(i) : called[m].event = 0

=============================================================================
