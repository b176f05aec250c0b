----------------------------- MODULE DataLogger -----------------------------
(***************************************************************************)
(* The data logger of a WebSocketClient: logData starts a thread that      *)
(* reads the client's multiplexer with a cursor of its own, from the first *)
(* record on, and writes the raw frames of the client's two data producers *)
(* to a file.  The destructor takes the sockets away, clears logger_run_,  *)
(* and joins the thread, which drains what is left.                        *)
(*                                                                         *)
(* The load of logger_run_ is relaxed and is done once per iteration: the  *)
(* thread may act on TRUE for a while after the store.                     *)
(***************************************************************************)
EXTENDS Integers, Sequences

CONSTANTS
  OwnData,     \* md_data_producer_id_ and user_data_producer_id_
  OwnCtrl,     \* ids of the client's control producers
  Others,      \* ids of the other producers of the multiplexer
  MaxRecords   \* bound: records written to the multiplexer

ASSUME LoggerAssumption ==
  /\ OwnData \cap (OwnCtrl \cup Others) = {}
  /\ MaxRecords \in Nat

Pids == OwnData \cup OwnCtrl \cup Others

VARIABLES
  mux,          \* producer id of every record written, in order
  attached,     \* the client's sockets can still run callbacks
  logger_run_,
  log_cursor_,  \* records the logger has read
  data_log_,    \* positions in mux of the records in the file, in order
  thread,       \* logger_thread_: "none", "loop", "drain", "ended"
  destructor    \* "no", "detached", "joining", "returned"

vars == <<mux, attached, logger_run_, log_cursor_, data_log_, thread, destructor>>

-----------------------------------------------------------------------------

\* A producer commits a record.  The client's own producers are written by its
\* sockets' callbacks, and by nobody once the sockets are gone.
Write(p) ==
  /\ Len(mux) < MaxRecords
  /\ p \in OwnData \cup OwnCtrl => attached
  /\ mux' = Append(mux, p)
  /\ UNCHANGED <<attached, logger_run_, log_cursor_, data_log_, thread, destructor>>

\* logData: nothing but a message in the log if the file does not open.  It
\* is called once: a second call would assign to a joinable thread.
logData(opens) ==
  /\ destructor = "no"
  /\ thread = "none"
  /\ IF opens
     THEN logger_run_' = TRUE /\ thread' = "loop"
     ELSE UNCHANGED <<logger_run_, thread>>
  /\ UNCHANGED <<mux, attached, log_cursor_, data_log_, destructor>>

\* Mistake: control records are written too.
LoggedAll(p) == p \in OwnData \cup OwnCtrl

Logged(p) == p \in OwnData

\* Mistake: the cursor is advanced by the read and by the loop.
ReadRecordTwice ==
  /\ log_cursor_ < Len(mux)
  /\ log_cursor_' = log_cursor_ + 2
  /\ data_log_' = IF Logged(mux[log_cursor_ + 1])
                  THEN Append(data_log_, log_cursor_ + 1) ELSE data_log_
  /\ UNCHANGED <<mux, attached, logger_run_, thread, destructor>>

\* mux_.read and the write to the file.
ReadRecord ==
  /\ log_cursor_ < Len(mux)
  /\ log_cursor_' = log_cursor_ + 1
  /\ data_log_' = IF Logged(mux[log_cursor_ + 1])
                  THEN Append(data_log_, log_cursor_ + 1) ELSE data_log_
  /\ UNCHANGED <<mux, attached, logger_run_, thread, destructor>>

\* The first loop; on an empty read the thread yields and tries again.
Loop == thread = "loop" /\ ReadRecord

\* Mistake: the thread ends with the loop.
SeeStopUndrained ==
  /\ thread = "loop"
  /\ ~logger_run_
  /\ thread' = "ended"
  /\ UNCHANGED <<mux, attached, logger_run_, log_cursor_, data_log_, destructor>>

SeeStop ==
  /\ thread = "loop"
  /\ ~logger_run_
  /\ thread' = "drain"
  /\ UNCHANGED <<mux, attached, logger_run_, log_cursor_, data_log_, destructor>>

\* The second loop, left at the first empty read.
Drain == thread = "drain" /\ ReadRecord

EndDrain ==
  /\ thread = "drain"
  /\ log_cursor_ = Len(mux)
  /\ thread' = "ended"
  /\ UNCHANGED <<mux, attached, logger_run_, log_cursor_, data_log_, destructor>>

\* Mistake: the sockets stay attached.
DetachSocketsForgotten ==
  /\ destructor = "no"
  /\ destructor' = "detached"
  /\ UNCHANGED <<mux, attached, logger_run_, log_cursor_, data_log_, thread>>

\* ~WebSocketClient, first part: both sockets are detached and reset.
DetachSockets ==
  /\ destructor = "no"
  /\ attached' = FALSE
  /\ destructor' = "detached"
  /\ UNCHANGED <<mux, logger_run_, log_cursor_, data_log_, thread>>

\* Mistake: the flag is not cleared.
StopLoggerForgotten ==
  /\ destructor = "detached"
  /\ destructor' = "joining"
  /\ UNCHANGED <<mux, attached, logger_run_, log_cursor_, data_log_, thread>>

\* Second part: the flag is cleared.
StopLogger ==
  /\ destructor = "detached"
  /\ logger_run_' = FALSE
  /\ destructor' = "joining"
  /\ UNCHANGED <<mux, attached, log_cursor_, data_log_, thread>>

\* Third part: join, if there is a thread.
Join ==
  /\ destructor = "joining"
  /\ thread \in {"none", "ended"}
  /\ destructor' = "returned"
  /\ UNCHANGED <<mux, attached, logger_run_, log_cursor_, data_log_, thread>>

-----------------------------------------------------------------------------

Init ==
  /\ mux = <<>>
  /\ attached = TRUE
  /\ logger_run_ = FALSE
  /\ log_cursor_ = 0
  /\ data_log_ = <<>>
  /\ thread = "none"
  /\ destructor = "no"

Logger == Loop \/ SeeStop \/ Drain \/ EndDrain

Destructor == StopLogger \/ Join

Next ==
  \/ \E p \in Pids : Write(p)
  \/ \E opens \in BOOLEAN : logData(opens)
  \/ Logger
  \/ DetachSockets
  \/ Destructor

Spec == Init /\ [][Next]_vars

\* Both threads are scheduled, and a store becomes visible.  A loop that goes
\* on reading does not put the load of logger_run_ off for ever.
FairSpec ==
  /\ Spec
  /\ WF_vars(Logger)
  /\ WF_vars(SeeStop)
  /\ WF_vars(Destructor)

-----------------------------------------------------------------------------
(* Properties.                                                             *)

TypeOK ==
  /\ mux \in Seq(Pids)
  /\ attached \in BOOLEAN
  /\ logger_run_ \in BOOLEAN
  /\ log_cursor_ \in 0..Len(mux)
  /\ data_log_ \in Seq(Nat)
  /\ thread \in {"none", "loop", "drain", "ended"}
  /\ destructor \in {"no", "detached", "joining", "returned"}

InFile(i) == \E j \in 1..Len(data_log_) : data_log_[j] = i

\* The file holds exactly the data frames read so far, each once and in the
\* order of the multiplexer: no control record, no other client's frame.
FileIsFaithful ==
  /\ \A j, k \in 1..Len(data_log_) : j < k => data_log_[j] < data_log_[k]
  /\ \A i \in 1..Len(mux) : InFile(i) <=> (i <= log_cursor_ /\ mux[i] \in OwnData)

\* When the destructor returns, every data frame of the client is in the file,
\* those from before logData included, if the logger ran at all: sockets
\* first, then the flag, then the drain.
CompleteAtJoin ==
  destructor = "returned" /\ thread = "ended" =>
    \A i \in 1..Len(mux) : mux[i] \in OwnData => InFile(i)

\* The destructor returns.  With other producers on the multiplexer the drain
\* ends only because MaxRecords bounds them: see README.md.
DestructorReturns == destructor = "detached" ~> destructor = "returned"

=============================================================================
