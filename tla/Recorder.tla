------------------------------ MODULE Recorder ------------------------------
(***************************************************************************)
(* The request recorder (pkg/recorder/recorder.go). Any number of          *)
(* goroutines call Write; a background goroutine (drain) moves records     *)
(* from a bounded channel to memory and to a file; Close, which may be     *)
(* called more than once, shuts writers out, closes the channel and waits  *)
(* for drain. The caller that closed the recorder then reads Records.      *)
(***************************************************************************)
EXTENDS Integers, Sequences, FiniteSets

CONSTANTS
  Writers,     \* goroutines that each write one record, named after its writer
  Closers,     \* goroutines that call Close
  Capacity     \* of the channel (8192 in the code)

ASSUME CapacityAssumption == Capacity \in Nat \ {0}

VARIABLES
  wpc,         \* where each Write is
  cpc,         \* where each Close is
  once,        \* closeOnce: "new", "running" or "done"
  closed,      \* the closed flag
  chClosed,    \* the channel is closed
  ch,          \* the channel's buffer
  hand,        \* the record drain has received and not yet stored, as a set
  records,     \* the records kept in memory
  file,        \* the lines of the file
  done,        \* drain has returned
  reports      \* what Records returned to callers that had closed the recorder

recorderVars == <<wpc, cpc, once, closed, chClosed, ch, hand, records, file, done, reports>>

WritePhases == {"start", "locked", "send", "ok", "rejected"}
ClosePhases == {"start", "lock", "drain", "wait", "returned"}

Elements(s) == {s[n] : n \in 1..Len(s)}
Readers == {w \in Writers : wpc[w] \in {"locked", "send"}}    \* hold writeMu.RLock
Accepted == {w \in Writers : wpc[w] = "ok"}

-----------------------------------------------------------------------------
(* Write.                                                                  *)

\* writeMu.RLock: a waiting Lock keeps new readers out.
RLock(w) ==
  /\ wpc[w] = "start"
  /\ \A c \in Closers : cpc[c] # "lock"
  /\ wpc' = [wpc EXCEPT ![w] = "locked"]
  /\ UNCHANGED <<cpc, once, closed, chClosed, ch, hand, records, file, done, reports>>

\* ErrClosed once the recorder is closed; the deferred RUnlock runs.
CheckClosed(w) ==
  /\ wpc[w] = "locked"
  /\ wpc' = [wpc EXCEPT ![w] = IF closed THEN "rejected" ELSE "send"]
  /\ UNCHANGED <<cpc, once, closed, chClosed, ch, hand, records, file, done, reports>>

\* The send blocks, with the read lock held, while the buffer is full.
SendRecord(w) ==
  /\ wpc[w] = "send"
  /\ Len(ch) < Capacity
  /\ ch' = Append(ch, w)
  /\ wpc' = [wpc EXCEPT ![w] = "ok"]
  /\ UNCHANGED <<cpc, once, closed, chClosed, hand, records, file, done, reports>>

-----------------------------------------------------------------------------
(* Close.                                                                  *)

\* closeOnce.Do: the first caller runs the body and asks for the write lock.
Close(c) ==
  /\ cpc[c] = "start"
  /\ IF once = "new"
     THEN once' = "running" /\ cpc' = [cpc EXCEPT ![c] = "lock"]
     ELSE once' = once /\ cpc' = [cpc EXCEPT ![c] = "wait"]
  /\ UNCHANGED <<wpc, closed, chClosed, ch, hand, records, file, done, reports>>

\* Mutant: close the channel without excluding the writers.
CloseUnlocked(c) ==
  /\ cpc[c] = "lock"
  /\ closed' = TRUE
  /\ chClosed' = TRUE
  /\ cpc' = [cpc EXCEPT ![c] = "drain"]
  /\ UNCHANGED <<wpc, once, ch, hand, records, file, done, reports>>

\* With the write lock: set the flag, close the channel, unlock.
Lock(c) ==
  /\ cpc[c] = "lock"
  /\ Readers = {}
  /\ closed' = TRUE
  /\ chClosed' = TRUE
  /\ cpc' = [cpc EXCEPT ![c] = "drain"]
  /\ UNCHANGED <<wpc, once, ch, hand, records, file, done, reports>>

\* <-r.done, then close the file.
CloseReturns(c) ==
  /\ cpc[c] = "drain"
  /\ done
  /\ once' = "done"
  /\ cpc' = [cpc EXCEPT ![c] = "returned"]
  /\ UNCHANGED <<wpc, closed, chClosed, ch, hand, records, file, done, reports>>

\* A later caller of Close waits for the first.
OnceDone(c) ==
  /\ cpc[c] = "wait"
  /\ once = "done"
  /\ cpc' = [cpc EXCEPT ![c] = "returned"]
  /\ UNCHANGED <<wpc, once, closed, chClosed, ch, hand, records, file, done, reports>>

\* runScenario reads Records after Close.
Records(c) ==
  /\ cpc[c] = "returned"
  /\ reports' = reports \cup {Elements(records)}
  /\ UNCHANGED <<wpc, cpc, once, closed, chClosed, ch, hand, records, file, done>>

-----------------------------------------------------------------------------
(* drain.                                                                  *)

\* Mutant: drain takes the read lock for every record it moves.
ReceiveLocked ==
  /\ ~done
  /\ \A c \in Closers : cpc[c] # "lock"
  /\ hand = {} /\ ch # <<>>
  /\ hand' = {Head(ch)}
  /\ ch' = Tail(ch)
  /\ UNCHANGED <<wpc, cpc, once, closed, chClosed, records, file, done, reports>>

Receive ==
  /\ ~done
  /\ hand = {} /\ ch # <<>>
  /\ hand' = {Head(ch)}
  /\ ch' = Tail(ch)
  /\ UNCHANGED <<wpc, cpc, once, closed, chClosed, records, file, done, reports>>

\* Append to records; the outcome of the file write is ignored.
Store ==
  /\ \E r \in hand :
       /\ records' = Append(records, r)
       /\ file' = Append(file, r) \/ UNCHANGED file
  /\ hand' = {}
  /\ UNCHANGED <<wpc, cpc, once, closed, chClosed, ch, done, reports>>

\* Mutant: stop as soon as the channel is closed.
StopAtClose ==
  /\ ~done
  /\ hand = {} /\ chClosed
  /\ done' = TRUE
  /\ UNCHANGED <<wpc, cpc, once, closed, chClosed, ch, hand, records, file, reports>>

\* The range over a closed channel ends when its buffer is empty.
Stop ==
  /\ ~done
  /\ hand = {} /\ ch = <<>> /\ chClosed
  /\ done' = TRUE
  /\ UNCHANGED <<wpc, cpc, once, closed, chClosed, ch, hand, records, file, reports>>

-----------------------------------------------------------------------------
RecorderInit ==
  /\ wpc = [w \in Writers |-> "start"]
  /\ cpc = [c \in Closers |-> "start"]
  /\ once = "new"
  /\ closed = FALSE /\ chClosed = FALSE
  /\ ch = <<>> /\ hand = {}
  /\ records = <<>> /\ file = <<>>
  /\ done = FALSE
  /\ reports = {}

Drain == Receive \/ Store \/ Stop
WriteStep(w) == RLock(w) \/ CheckClosed(w) \/ SendRecord(w)
CloseStep(c) == Close(c) \/ Lock(c) \/ CloseReturns(c) \/ OnceDone(c)

RecorderNext ==
  \/ \E w \in Writers : WriteStep(w)
  \/ \E c \in Closers : CloseStep(c) \/ Records(c)
  \/ Drain

RecorderSpec == RecorderInit /\ [][RecorderNext]_recorderVars

\* Go schedules every runnable goroutine; a goroutine that waits for the lock or
\* for room in the channel proceeds when it can.
RecorderFairness ==
  /\ WF_recorderVars(Drain)
  /\ \A w \in Writers : WF_recorderVars(WriteStep(w))
  /\ \A c \in Closers : WF_recorderVars(CloseStep(c))

FairRecorderSpec == RecorderSpec /\ RecorderFairness

-----------------------------------------------------------------------------
(* Properties.                                                             *)

\* Every variable keeps its type; the buffer never exceeds its capacity (47-57).
RecorderTypeOK ==
  /\ wpc \in [Writers -> WritePhases]
  /\ cpc \in [Closers -> ClosePhases]
  /\ once \in {"new", "running", "done"}
  /\ closed \in BOOLEAN /\ chClosed \in BOOLEAN /\ done \in BOOLEAN
  /\ ch \in Seq(Writers) /\ Len(ch) <= Capacity
  /\ hand \subseteq Writers
  /\ records \in Seq(Writers) /\ file \in Seq(Writers)
  /\ reports \subseteq SUBSET Writers

\* No writer is about to send on a closed channel, which would panic (102-115,
\* 128-133).
NoSendOnClosed == \A w \in Writers : wpc[w] = "send" => ~chClosed

\* When a Close returns, whichever caller's, every record whose Write returned
\* nil is in memory, and none whose Write was refused (90-100, 124-141).
AcceptedKept ==
  (\E c \in Closers : cpc[c] = "returned") => Elements(records) = Accepted

\* Writers blocked on a full channel, a Close that waits for them and writers
\* shut out by that Close never wait for one another in a circle.
AllReturn ==
  <>( /\ \A w \in Writers : wpc[w] \in {"ok", "rejected"}
      /\ \A c \in Closers : cpc[c] = "returned")

\* The recorder implements RecordLog: a record is accepted when Write returns
\* nil, the log is sealed when the flag is set, and Records reads all of it.
Log == INSTANCE RecordLog WITH Items <- Writers, log <- Accepted, sealed <- closed
LogSpec == Log!Spec
=============================================================================
