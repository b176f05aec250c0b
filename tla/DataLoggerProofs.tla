-------------------------- MODULE DataLoggerProofs --------------------------
(***************************************************************************)
(* Proofs about DataLogger, for every set of producers and every bound.    *)
(***************************************************************************)
EXTENDS DataLogger, TLAPS

\* Where the destructor has got to when the thread has seen the flag.
StopOrder ==
  /\ destructor # "no" => ~attached
  /\ thread = "loop" => logger_run_ \/ destructor \in {"joining", "returned"}
  /\ thread \in {"drain", "ended"} => destructor \in {"joining", "returned"}
  /\ thread = "ended" => \A i \in 1..Len(mux) : mux[i] \in OwnData => i <= log_cursor_

\* Only records that were read are in the file.
FileIsRead == \A j \in 1..Len(data_log_) : data_log_[j] \in 1..log_cursor_

LoggerInv == TypeOK /\ FileIsFaithful /\ FileIsRead /\ StopOrder

\* g is f, a file of d increasing positions up to c, with c + 1 added.
Grows(f, g, d, c) ==
  /\ d \in Nat /\ c \in Nat
  /\ g[d + 1] = c + 1
  /\ \A j \in 1..d : g[j] = f[j] /\ f[j] \in 1..c
  /\ \A j, k \in 1..d : j < k => f[j] < f[k]

\* A file that grows so stays within what was read, in order, and gains the
\* position added and no other.
LEMMA Grown ==
  ASSUME NEW f, NEW g, NEW d, NEW c, Grows(f, g, d, c)
  PROVE  /\ \A j \in 1..(d + 1) : g[j] \in 1..(c + 1)
         /\ \A j, k \in 1..(d + 1) : j < k => g[j] < g[k]
         /\ \A i : (\E j \in 1..(d + 1) : g[j] = i)
                     <=> ((\E j \in 1..d : f[j] = i) \/ i = c + 1)
<1> USE DEF Grows
<1>1. \A j \in 1..(d + 1) : j \in 1..d \/ j = d + 1
  OBVIOUS
<1>2. \A j \in 1..d : g[j] \in 1..c /\ g[j] = f[j] /\ j \in 1..(d + 1)
  OBVIOUS
<1>3. \A j \in 1..(d + 1) : g[j] \in 1..(c + 1)
  BY <1>1, <1>2
<1>4. ASSUME NEW j \in 1..(d + 1), NEW k \in 1..(d + 1), j < k
      PROVE  g[j] < g[k]
  <2>1. j \in 1..d
    BY <1>4
  <2>2. CASE k = d + 1
    BY <1>2, <2>1, <2>2
  <2>3. CASE k \in 1..d
    <3>1. f[j] < f[k]
      BY <1>4, <2>1, <2>3
    <3>2. QED
      BY <1>2, <2>1, <2>3, <3>1
  <2>4. QED
    BY <1>1, <2>2, <2>3
<1>5. ASSUME NEW i
      PROVE  (\E j \in 1..(d + 1) : g[j] = i)
               <=> ((\E j \in 1..d : f[j] = i) \/ i = c + 1)
  <2>1. d + 1 \in 1..(d + 1)
    OBVIOUS
  <2>2. QED
    BY <1>1, <1>2, <2>1
<1>6. QED
  BY <1>3, <1>4, <1>5

\* What one read does to the file.
LEMMA ReadStep ==
  ASSUME TypeOK, FileIsFaithful, FileIsRead, ReadRecord
  PROVE  TypeOK' /\ FileIsFaithful' /\ FileIsRead'
<1>1. /\ mux \in Seq(Pids) /\ data_log_ \in Seq(Nat) /\ Len(data_log_) \in Nat
      /\ Len(mux) \in Nat /\ log_cursor_ \in Nat /\ log_cursor_ + 1 \in 1..Len(mux)
      /\ log_cursor_' = log_cursor_ + 1 /\ mux' = mux
  BY DEF TypeOK, ReadRecord
<1>2. CASE mux[log_cursor_ + 1] \notin OwnData
  <2>1. data_log_' = data_log_
    BY <1>2 DEF ReadRecord, Logged
  <2>2. TypeOK'
    BY <1>1, <2>1 DEF TypeOK, ReadRecord
  <2>3. FileIsRead'
    BY <1>1, <2>1 DEF FileIsRead
  <2>4. FileIsFaithful'
    BY <1>1, <1>2, <2>1 DEF FileIsFaithful, InFile
  <2>5. QED
    BY <2>2, <2>3, <2>4
<1>3. CASE mux[log_cursor_ + 1] \in OwnData
  <2>1. /\ data_log_' \in Seq(Nat) /\ Len(data_log_') = Len(data_log_) + 1
        /\ data_log_'[Len(data_log_) + 1] = log_cursor_ + 1
        /\ \A j \in 1..Len(data_log_) : data_log_'[j] = data_log_[j]
    BY <1>1, <1>3 DEF ReadRecord, Logged
  <2>2. TypeOK'
    BY <1>1, <2>1 DEF TypeOK, ReadRecord
  <2>3. /\ \A j \in 1..Len(data_log_) : data_log_[j] \in 1..log_cursor_
        /\ \A j, k \in 1..Len(data_log_) : j < k => data_log_[j] < data_log_[k]
    BY DEF FileIsRead, FileIsFaithful
  <2>4. /\ \A j \in 1..(Len(data_log_) + 1) : data_log_'[j] \in 1..(log_cursor_ + 1)
        /\ \A j, k \in 1..(Len(data_log_) + 1) : j < k => data_log_'[j] < data_log_'[k]
        /\ \A i : (\E j \in 1..(Len(data_log_) + 1) : data_log_'[j] = i)
                    <=> ((\E j \in 1..Len(data_log_) : data_log_[j] = i)
                           \/ i = log_cursor_ + 1)
    <3>1. PICK g, f, d, c : g = data_log_' /\ f = data_log_ /\ d = Len(data_log_) /\ c = log_cursor_
      OBVIOUS
    <3>2. Grows(f, g, d, c)
      BY <1>1, <2>1, <2>3, <3>1 DEF Grows
    <3>3. /\ \A j \in 1..(d + 1) : g[j] \in 1..(c + 1)
          /\ \A j, k \in 1..(d + 1) : j < k => g[j] < g[k]
          /\ \A i : (\E j \in 1..(d + 1) : g[j] = i)
                      <=> ((\E j \in 1..d : f[j] = i) \/ i = c + 1)
      BY <3>2, Grown
    <3>4. QED
      BY <3>1, <3>3
  <2>5. FileIsRead'
    BY <1>1, <2>1, <2>4 DEF FileIsRead
  <2>6. \A i : InFile(i)' <=> (InFile(i) \/ i = log_cursor_ + 1)
    BY <2>1, <2>4 DEF InFile
  <2>7. ASSUME NEW i \in 1..Len(mux)
        PROVE  InFile(i)' <=> (i <= log_cursor_ + 1 /\ mux[i] \in OwnData)
    <3>1. InFile(i) <=> (i <= log_cursor_ /\ mux[i] \in OwnData)
      BY DEF FileIsFaithful
    <3>2. i <= log_cursor_ + 1 <=> (i <= log_cursor_ \/ i = log_cursor_ + 1)
      BY <1>1
    <3>3. QED
      BY <1>3, <2>6, <3>1, <3>2
  <2>8. FileIsFaithful'
    <3>1. \A j, k \in 1..Len(data_log_') : j < k => data_log_'[j] < data_log_'[k]
      BY <2>1, <2>4
    <3>2. \A i \in 1..Len(mux') : InFile(i)' <=> (i <= log_cursor_' /\ mux'[i] \in OwnData)
      BY <1>1, <2>7
    <3>3. QED
      BY <3>1, <3>2 DEF FileIsFaithful
  <2>9. QED
    BY <2>2, <2>5, <2>8
<1>4. QED
  BY <1>2, <1>3

\* The invariant holds throughout.
LEMMA LoggerInvHolds == Spec => []LoggerInv
<1>1. Init => LoggerInv
  <2> SUFFICES ASSUME Init PROVE LoggerInv
    OBVIOUS
  <2>1. /\ mux = <<>> /\ data_log_ = <<>> /\ Len(mux) = 0 /\ Len(data_log_) = 0
        /\ 1..0 = {}
    BY DEF Init
  <2>2. mux \in Seq(Pids) /\ data_log_ \in Seq(Nat) /\ log_cursor_ \in 0..Len(mux)
    <3>1. mux \in Seq(Pids) /\ data_log_ \in Seq(Nat)
      BY DEF Init
    <3>2. log_cursor_ = 0
      BY DEF Init
    <3>3. QED
      BY <2>1, <3>1, <3>2
  <2>3. TypeOK /\ StopOrder
    BY <2>2 DEF Init, TypeOK, StopOrder
  <2>4. FileIsFaithful /\ FileIsRead
    BY <2>1 DEF FileIsFaithful, FileIsRead
  <2>5. QED
    BY <2>3, <2>4 DEF LoggerInv
<1>2. LoggerInv /\ [Next]_vars => LoggerInv'
  <2> SUFFICES ASSUME LoggerInv, [Next]_vars PROVE LoggerInv'
    OBVIOUS
  <2>1. ASSUME NEW p \in Pids, Write(p) PROVE LoggerInv'
    <3>1. /\ mux \in Seq(Pids) /\ mux' \in Seq(Pids) /\ Len(mux) \in Nat
          /\ Len(mux') = Len(mux) + 1 /\ mux'[Len(mux) + 1] = p
          /\ \A i \in 1..Len(mux) : mux'[i] = mux[i]
          /\ UNCHANGED <<attached, logger_run_, log_cursor_, data_log_, thread, destructor>>
          /\ p \in OwnData => attached
      BY <2>1 DEF LoggerInv, TypeOK, Write
    <3>2. TypeOK' /\ FileIsRead'
      BY <3>1 DEF LoggerInv, TypeOK, FileIsRead
    <3>3. ~InFile(Len(mux) + 1)
      BY <3>1 DEF LoggerInv, TypeOK, FileIsRead, InFile
    <3>4. FileIsFaithful'
      <4>1. \A j, k \in 1..Len(data_log_') : j < k => data_log_'[j] < data_log_'[k]
        BY <3>1 DEF LoggerInv, FileIsFaithful
      <4>2. ASSUME NEW i \in 1..Len(mux')
            PROVE  InFile(i)' <=> (i <= log_cursor_' /\ mux'[i] \in OwnData)
        <5>1. InFile(i)' <=> InFile(i)
          BY <3>1 DEF InFile
        <5>2. CASE i \in 1..Len(mux)
          BY <3>1, <5>1, <5>2 DEF LoggerInv, FileIsFaithful
        <5>3. CASE i = Len(mux) + 1
          BY <3>1, <3>3, <5>1, <5>3 DEF LoggerInv, TypeOK
        <5>4. QED
          BY <3>1, <5>2, <5>3
      <4>3. QED
        BY <4>1, <4>2 DEF FileIsFaithful
    <3>5. StopOrder'
      BY <3>1 DEF LoggerInv, StopOrder
    <3>6. QED
      BY <3>2, <3>4, <3>5 DEF LoggerInv
  <2>2. ASSUME NEW opens \in BOOLEAN, logData(opens) PROVE LoggerInv'
    BY <2>2 DEF logData, LoggerInv, TypeOK, FileIsFaithful, FileIsRead, StopOrder, InFile
  <2>3. ASSUME ReadRecord PROVE LoggerInv'
    <3>1. TypeOK' /\ FileIsFaithful' /\ FileIsRead'
      BY <2>3, ReadStep DEF LoggerInv
    <3>2. StopOrder'
      BY <2>3 DEF ReadRecord, LoggerInv, TypeOK, StopOrder
    <3>3. QED
      BY <3>1, <3>2 DEF LoggerInv
  <2>4. CASE SeeStop
    BY <2>4 DEF SeeStop, LoggerInv, TypeOK, FileIsFaithful, FileIsRead, StopOrder, InFile
  <2>5. CASE EndDrain
    BY <2>5 DEF EndDrain, LoggerInv, TypeOK, FileIsFaithful, FileIsRead, StopOrder, InFile
  <2>6. CASE DetachSockets
    BY <2>6 DEF DetachSockets, LoggerInv, TypeOK, FileIsFaithful, FileIsRead, StopOrder, InFile
  <2>7. CASE StopLogger
    BY <2>7 DEF StopLogger, LoggerInv, TypeOK, FileIsFaithful, FileIsRead, StopOrder, InFile
  <2>8. CASE Join
    BY <2>8 DEF Join, LoggerInv, TypeOK, FileIsFaithful, FileIsRead, StopOrder, InFile
  <2>9. CASE UNCHANGED vars
    BY <2>9 DEF vars, LoggerInv, TypeOK, FileIsFaithful, FileIsRead, StopOrder, InFile
  <2>10. QED
    BY <2>1, <2>2, <2>3, <2>4, <2>5, <2>6, <2>7, <2>8, <2>9
       DEF Next, Logger, Loop, Drain, Destructor
<1>3. QED
  BY <1>1, <1>2, PTL DEF Spec

\* Every variable has its type; the logger never reads past what was written,
\* however many records there are and whoever writes them.
THEOREM TypeCorrect == Spec => []TypeOK
<1>1. LoggerInv => TypeOK
  BY DEF LoggerInv
<1>2. QED
  BY <1>1, LoggerInvHolds, PTL

\* The file holds exactly the client's data frames that were read, in order,
\* whatever else is on the multiplexer.
THEOREM FileCorrect == Spec => []FileIsFaithful
<1>1. LoggerInv => FileIsFaithful
  BY DEF LoggerInv
<1>2. QED
  BY <1>1, LoggerInvHolds, PTL

\* No data frame of the client is missing when the destructor has joined the
\* logger, whatever else is on the multiplexer.
THEOREM JoinCorrect == Spec => []CompleteAtJoin
<1>1. LoggerInv => CompleteAtJoin
  BY DEF LoggerInv, CompleteAtJoin, FileIsFaithful, StopOrder
<1>2. QED
  BY <1>1, LoggerInvHolds, PTL

=============================================================================
