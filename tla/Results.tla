------------------------------ MODULE Results ------------------------------
(***************************************************************************)
(* What a run of several workers leaves behind and what is made of it. The *)
(* workers of an evaluation (cmd/nyann-bench/eval.go) each ask the         *)
(* questions of their partition of the dataset and append a line per       *)
(* answer to requests_<id>.jsonl; a worker that ends writes                *)
(* timestamps_<id>.json and only then closes its recorder (runScenario).   *)
(* The control API may be asked for a report at any time (mcp_report.go):  *)
(* it lists the files, intersects the workers' measurement windows and     *)
(* adds up the requests inside. "nyann-bench analyze" does the same from   *)
(* the same files (pkg/analysis).                                          *)
(*                                                                         *)
(* The pool of streams is StreamPool's: it sends exactly max_requests      *)
(* conversations when nothing stops it, and cuts what is in flight when it *)
(* stops. The channel, the lock and the writer are Recorder's.             *)
(***************************************************************************)
EXTENDS LoadDivision, FiniteSets, Sequences

CONSTANTS
  NumWorkers,       \* --workers
  Evaluations,      \* what is run: the answers the server has for the questions of
                    \* the dataset, in order, each "correct", "wrong" or "error";
                    \* --concurrency; and a bound, the workers that may be killed
  ReportLimits,     \* Options.MaxReportRecords, one of them
  MaxSamples,       \* Options.MaxLatencySamples
  MaxTime           \* bound: the clock

Workers == 0..(NumWorkers - 1)

ASSUME ResultsAssumption ==
  /\ {NumWorkers, MaxTime} \subseteq Nat \ {0}
  /\ {MaxSamples} \cup ReportLimits \subseteq Nat
  /\ \A e \in Evaluations :
       /\ e.answers # << >> /\ e.answers \in Seq({"correct", "wrong", "error"})
       /\ {e.concurrency, e.kills} \subseteq Nat

VARIABLES
  dataset,     \* the dataset evaluated
  concurrency, \* and how many questions at a time
  now,         \* the clock the workers share
  phase,       \* where each worker's runScenario is
  idx,         \* the conversations each worker's dataset has handed out
  window,      \* each worker's measurement: when it started and ended
  whole,       \* the worker's stage ended because its questions were used up
  inflight,    \* requests waiting for their answer
  queued,      \* records in each recorder's channel
  file,        \* records in each requests_<id>.jsonl
  stamps,      \* each timestamps_<id>.json: "absent", "torn" or "written"
  kills,       \* workers that may still be killed
  report       \* the report

workerVars == <<phase, idx, window, whole, inflight, queued, file, stamps, kills>>
config == <<dataset, concurrency>>
vars == <<config, now, workerVars, report>>

Items == 0..(Len(dataset) - 1)

-----------------------------------------------------------------------------
(* The dataset.                                                            *)

\* Mutant: the workers' slices are all of the smaller size.
PartitionUneven(w) == LET size == DivideConcurrency(Len(dataset), NumWorkers, w) IN
  (w * size)..(w * size + size - 1)

\* Contiguous slices of the shuffled items; every worker shuffles alike.
Partition(w) ==
  LET base == Len(dataset) \div NumWorkers
      remainder == Len(dataset) % NumWorkers
      start == w * base + (IF w < remainder THEN w ELSE remainder)
      size == IF w < remainder THEN base + 1 ELSE base
  IN start..(start + size - 1)

\* The stage's max_requests; 0 is no limit.
MaxRequests(w) == Cardinality(Partition(w))
Streams(w) == DivideConcurrency(concurrency, NumWorkers, w)

\* Every call of NextConversation takes the next item of the slice, round and round.
NextConversation(w) ==
  CHOOSE i \in Partition(w) :
    Cardinality({j \in Partition(w) : j < i}) = idx[w] % Cardinality(Partition(w))

-----------------------------------------------------------------------------
(* A worker.                                                               *)

Mine(w) == {r \in inflight : r.worker = w}
Ended == {"exit", "crashed"}

\* The worker creates its requests file and starts its one stage.
Start(w) ==
  /\ phase[w] = "init"
  /\ phase' = [phase EXCEPT ![w] = "run"]
  /\ window' = [window EXCEPT ![w].start = now]
  /\ UNCHANGED <<config, now, idx, whole, inflight, queued, file, stamps, kills, report>>

\* Mutant: the request limit is not counted.
AskUnlimited(w) ==
  /\ phase[w] = "run"
  /\ Cardinality(Mine(w)) < Streams(w) /\ MaxRequests(w) # 0
  /\ inflight' = inflight \cup {[worker |-> w, item |-> NextConversation(w), start |-> now]}
  /\ idx' = [idx EXCEPT ![w] = @ + 1]
  /\ UNCHANGED <<config, now, phase, window, whole, queued, file, stamps, kills, report>>

\* A stream that is free takes a reservation and asks the next question.
Ask(w) ==
  /\ phase[w] = "run"
  /\ Cardinality(Mine(w)) < Streams(w) /\ MaxRequests(w) # 0 /\ idx[w] < MaxRequests(w)
  /\ inflight' = inflight \cup {[worker |-> w, item |-> NextConversation(w), start |-> now]}
  /\ idx' = [idx EXCEPT ![w] = @ + 1]
  /\ UNCHANGED <<config, now, phase, window, whole, queued, file, stamps, kills, report>>

\* Without questions there is no limit either, and the first conversation fails
\* with a division by zero.
AskNothing(w) ==
  /\ phase[w] = "run"
  /\ Streams(w) > 0 /\ MaxRequests(w) = 0
  /\ phase' = [phase EXCEPT ![w] = "crashed"]
  /\ UNCHANGED <<config, now, idx, window, whole, inflight, queued, file, stamps, kills, report>>

\* An answer or an error arrives and is recorded.
Answer(r) ==
  /\ r \in inflight
  /\ inflight' = inflight \ {r}
  /\ queued' = [queued EXCEPT ![r.worker] = @ \cup
       {[item |-> r.item, start |-> r.start, end |-> now, answer |-> dataset[r.item + 1]]}]
  /\ UNCHANGED <<config, now, phase, idx, window, whole, file, stamps, kills, report>>

\* The recorder's goroutine writes a line.
Write(w) ==
  /\ phase[w] \notin Ended
  /\ \E r \in queued[w] :
       /\ queued' = [queued EXCEPT ![w] = @ \ {r}]
       /\ file' = [file EXCEPT ![w] = @ \cup {r}]
  /\ UNCHANGED <<config, now, phase, idx, window, whole, inflight, stamps, kills, report>>

\* Mutant: the run's end is stamped while requests are in flight.
ReturnsEarly(w) ==
  /\ phase[w] = "run"
  /\ phase' = [phase EXCEPT ![w] = "ended"]
  /\ window' = [window EXCEPT ![w].end = now]
  /\ UNCHANGED <<config, now, idx, whole, inflight, queued, file, stamps, kills, report>>

\* The stage is over: all its questions are answered, or its time is up, the server
\* has failed too often or the worker has been told to stop. The pool is stopped,
\* what is in flight is cut and not recorded; the run's end is read off the clock
\* when the generator has returned.
GeneratorReturns(w) ==
  /\ phase[w] = "run"
  /\ phase' = [phase EXCEPT ![w] = "ended"]
  /\ whole' = [whole EXCEPT ![w] = idx[w] = MaxRequests(w) /\ MaxRequests(w) # 0 /\ Mine(w) = {}]
  /\ inflight' = inflight \ Mine(w)
  /\ window' = [window EXCEPT ![w].end = now]
  /\ UNCHANGED <<config, now, idx, queued, file, stamps, kills, report>>

\* The timestamps file is created, then written.
WriteTimestamps(w) ==
  /\ phase[w] = "ended"
  /\ \/ stamps[w] = "absent" /\ stamps' = [stamps EXCEPT ![w] = "torn"] /\ UNCHANGED phase
     \/ /\ stamps[w] = "torn"
        /\ stamps' = [stamps EXCEPT ![w] = "written"]
        /\ phase' = [phase EXCEPT ![w] = "closing"]
  /\ UNCHANGED <<config, now, idx, window, whole, inflight, queued, file, kills, report>>

\* Mutant: the process does not wait for the recorder.
ExitUnwritten(w) ==
  /\ phase[w] = "closing"
  /\ phase' = [phase EXCEPT ![w] = "exit"]
  /\ UNCHANGED <<config, now, idx, window, whole, inflight, queued, file, stamps, kills, report>>

\* The recorder has been closed once all it accepted is written.
Close(w) ==
  /\ phase[w] = "closing" /\ queued[w] = {}
  /\ phase' = [phase EXCEPT ![w] = "exit"]
  /\ UNCHANGED <<config, now, idx, window, whole, inflight, queued, file, stamps, kills, report>>

\* The pod is killed. The Job does not start it again.
Crash(w) ==
  /\ phase[w] \notin Ended /\ kills > 0
  /\ phase' = [phase EXCEPT ![w] = "crashed"]
  /\ inflight' = inflight \ Mine(w)
  /\ kills' = kills - 1
  /\ UNCHANGED <<config, now, idx, window, whole, queued, file, stamps, report>>

\* The clock stands still once nobody will read it again.
Tick ==
  /\ now < MaxTime
  /\ \E w \in Workers : phase[w] \in {"init", "run"}
  /\ now' = now + 1
  /\ UNCHANGED <<config, workerVars, report>>

-----------------------------------------------------------------------------
(* Summaries.                                                              *)

NoWindow == [start |-> 0, end |-> 0]
Greatest(S) == CHOOSE x \in S : \A y \in S : y <= x
Least(S) == CHOOSE x \in S : \A y \in S : x <= y

\* Mutant: from the first start to the last end.
WidestWindow(W) == [start |-> Least({window[w].start : w \in W}), end |-> Greatest({window[w].end : w \in W})]

\* The time in which all of the workers W were measuring.
CommonWindow(W) == [start |-> Greatest({window[w].start : w \in W}), end |-> Least({window[w].end : w \in W})]

Span(R) == IF R = {} THEN 0 ELSE Greatest({r.end : r \in R}) - Least({r.start : r \in R})

\* The counts over a set of records: a request that failed has no evaluation.
Summary(R, duration) ==
  LET With(A) == Cardinality({r \in R : r.answer \in A}) IN
  [total |-> Cardinality(R), ok |-> With({"correct", "wrong"}), errors |-> With({"error"}),
   evaluated |-> With({"correct", "wrong"}), correct |-> With({"correct"}),
   conversations |-> Cardinality({r.item : r \in R}), duration |-> duration]

\* Compute: the requests inside the window, if there is one.
Compute(R, win) ==
  LET inside == IF win.start > 0 /\ win.end > 0
                THEN {r \in R : r.start >= win.start /\ r.end <= win.end} ELSE R
  IN Summary(inside, Span(inside))

\* What "nyann-bench analyze" reads: every line, and the common window; without one
\* when there are no timestamps or a file of them is not complete.
LoadRecords == UNION {file[w] : w \in Workers}
LoadTimestamps ==
  LET stamped == {w \in Workers : stamps[w] # "absent"} IN
  IF stamped = {} \/ \E w \in stamped : stamps[w] = "torn" THEN NoWindow ELSE CommonWindow(stamped)

Analyze == Compute(LoadRecords, LoadTimestamps)

\* aggregateRequestArtifacts: as Compute, except that the duration is the window's
\* and that conversations are only told apart up to a bound.
Aggregate(R, win) ==
  LET s == Summary(R, IF win # NoWindow THEN win.end - win.start ELSE Span(R)) IN
  [s EXCEPT !.conversations = IF @ > MaxSamples THEN MaxSamples ELSE @]

-----------------------------------------------------------------------------
(* The report.                                                             *)

\* listArtifacts: the files that are there. Final (observation only): no worker is
\* running any more.
ListArtifacts ==
  /\ report.pc = "idle"
  /\ report' = [report EXCEPT !.pc = "listed", !.final = \A w \in Workers : phase[w] \in Ended,
                              !.listed = {w \in Workers : phase[w] # "init"},
                              !.stamped = {w \in Workers : stamps[w] # "absent"}]
  /\ UNCHANGED <<config, now, workerVars>>

\* The workers that getBenchmarkReport calls complete.
Complete == report.listed \cap report.stamped

\* The common window of the timestamps listed. A file that is still empty, or a
\* window that is, leaves the report without one.
LoadMeasurementWindow ==
  LET torn == \E w \in report.stamped : stamps[w] = "torn"
      common == CommonWindow(report.stamped)
  IN IF report.stamped = {} \/ torn THEN NoWindow
     ELSE IF common.end <= common.start THEN NoWindow ELSE common

\* Mutant: a request is left out if it began too early.
BeganInside(r, win) == ~(r.start < win.start)

\* A request is left out if any of it is outside the window.
Inside(r, win) == ~(r.start < win.start \/ r.end > win.end)

\* The requests files are read one after the other; what each holds is its worker's
\* alone, so one step stands for all. The report fails on a line that is being
\* written and when there are too many records.
AggregateRequestArtifacts ==
  /\ report.pc = "listed"
  /\ LET records == UNION {file[w] : w \in report.listed}
         win == LoadMeasurementWindow
     IN \/ /\ \E max \in ReportLimits : Cardinality(records) <= max
           /\ report' = [report EXCEPT !.pc = "done", !.window = win,
                           !.counted = {r \in records : win = NoWindow \/ Inside(r, win)}]
        \/ /\ \/ \E max \in ReportLimits : Cardinality(records) > max
              \/ \E w \in report.listed : queued[w] # {} /\ phase[w] \notin Ended
           /\ report' = [report EXCEPT !.pc = "failed"]
  /\ UNCHANGED <<config, now, workerVars>>

\* Bound: a run is followed until its report, which nothing changes afterwards.
ReportOpen == report.pc \notin {"done", "failed"}

-----------------------------------------------------------------------------
Init ==
  /\ \E e \in Evaluations : dataset = e.answers /\ concurrency = e.concurrency /\ kills = e.kills
  /\ now = 1
  /\ phase = [w \in Workers |-> "init"] /\ idx = [w \in Workers |-> 0]
  /\ window = [w \in Workers |-> NoWindow]
  /\ whole = [w \in Workers |-> FALSE]
  /\ inflight = {} /\ queued = [w \in Workers |-> {}] /\ file = [w \in Workers |-> {}]
  /\ stamps = [w \in Workers |-> "absent"]
  /\ report = [pc |-> "idle", final |-> FALSE, listed |-> {}, stamped |-> {},
               window |-> NoWindow, counted |-> {}]

WorkerStep(w) ==
  \/ Start(w) \/ Ask(w) \/ AskNothing(w) \/ Write(w) \/ GeneratorReturns(w)
  \/ WriteTimestamps(w) \/ Close(w)

Report == ListArtifacts \/ AggregateRequestArtifacts

Next ==
  \/ ReportOpen /\ \E w \in Workers : WorkerStep(w) \/ Crash(w)
  \/ ReportOpen /\ \E r \in inflight : Answer(r)
  \/ Report
  \/ ReportOpen /\ Tick
  \/ ~ReportOpen /\ UNCHANGED vars

Spec == Init /\ [][Next]_vars

-----------------------------------------------------------------------------
(* Properties.                                                             *)

Times == 0..MaxTime
Record == [item : Items, start : Times, end : Times, answer : {"correct", "wrong", "error"}]

\* Type invariant: every worker, file and report holds a value it can have.
TypeOK ==
  /\ \E e \in Evaluations : dataset = e.answers /\ concurrency = e.concurrency /\ kills \in 0..e.kills
  /\ now \in 1..MaxTime
  /\ phase \in [Workers -> {"init", "run", "ended", "closing"} \cup Ended]
  /\ idx \in [Workers -> 0..Len(dataset)] /\ whole \in [Workers -> BOOLEAN]
  /\ window \in [Workers -> [start : Times, end : Times]]
  /\ inflight \subseteq [worker : Workers, item : Items, start : Times]
  /\ queued \in [Workers -> SUBSET Record] /\ file \in [Workers -> SUBSET Record]
  /\ stamps \in [Workers -> {"absent", "torn", "written"}]
  /\ report \in [pc : {"idle", "listed", "done", "failed"}, final : BOOLEAN,
                 listed : SUBSET Workers, stamped : SUBSET Workers,
                 window : [start : Times, end : Times], counted : SUBSET Record]

\* The questions that worker w is asking or has an answer to.
Asked(w) == {r.item : r \in Mine(w) \cup queued[w] \cup file[w]}

\* No question is asked twice, by whichever worker (Partition's disjoint slices and
\* NextConversation's round trips): the accuracy weighs every question alike.
EachItemOnce ==
  \A w \in Workers :
    /\ Cardinality(Asked(w)) = Cardinality(Mine(w)) + Cardinality(queued[w]) + Cardinality(file[w])
    /\ \A v \in Workers \ {w} : Asked(v) \cap Asked(w) = {}

\* When every worker has ended by itself, with its questions used up, every question
\* of the dataset is in the files ("sends all GSM8K test problems", eval.go).
EvalComplete ==
  (\A w \in Workers : whole[w] /\ phase[w] = "exit")
    => \A i \in Items : \E w \in Workers : \E r \in file[w] : r.item = i

\* A worker that has ended leaves no record outside its own window, so that no
\* request is missing from a report because its worker stamped the end of the run
\* too early (runScenario takes it when the generator has returned).
OwnWindow ==
  \A w \in Workers : stamps[w] = "written" =>
    \A r \in queued[w] \cup file[w] : window[w].start <= r.start /\ r.end <= window[w].end

\* A report with a window only counts requests that began and ended while every
\* worker whose timestamps it has was measuring; and when it says that all workers
\* are complete, its window is the one every later report will have.
ExactWindow ==
  (report.pc = "done" /\ report.window # NoWindow) =>
    /\ \A r \in report.counted : \A w \in report.stamped :
         window[w].start <= r.start /\ r.end <= window[w].end
    /\ Complete = Workers => report.window = CommonWindow(Workers)

\* The workers whose timestamps can all be read never measured at the same time.
NeverTogether(W) ==
  /\ W # {} /\ \A w \in W : stamps[w] = "written"
  /\ CommonWindow(W).end <= CommonWindow(W).start

\* A report made after the run agrees with "nyann-bench analyze" on every count,
\* unless it says that conversations are bounded, and never shows a higher
\* throughput, also when a killed worker has left its timestamps half written (both
\* count all requests then). The two only part when the workers never measured
\* together: the report counts all requests, analyze those in the empty window.
AgreesWithAnalyze ==
  LET s == Aggregate(report.counted, report.window)
      a == Analyze
  IN (report.pc = "done" /\ report.final /\ ~NeverTogether(report.stamped)) =>
       /\ \A field \in {"total", "ok", "errors", "evaluated", "correct"} : s[field] = a[field]
       /\ s.conversations \in {a.conversations, MaxSamples}
       /\ s.duration >= a.duration
=============================================================================
