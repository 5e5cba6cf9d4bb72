------------------------------ MODULE Scenario ------------------------------
(***************************************************************************)
(* A distributed run: every worker executes the same scenario              *)
(* (cmd/nyann-bench/common.go, runScenario, as generate.go calls it). The  *)
(* stages are grouped into runs that share a generator; the callbacks      *)
(* onStage, onBarrier and onStageComplete switch the recorder, keep the    *)
(* workers in step and stamp the stages.                                   *)
(*                                                                         *)
(* The generators are abstracted from StreamPool and RateStages to one     *)
(* stream: when its requests may be sent, cut off and recorded. The        *)
(* barrier is abstracted from Barrier to who has registered under which    *)
(* number. The conversation-pool mode is left to its own module.           *)
(***************************************************************************)
EXTENDS Integers, Sequences, FiniteSets

CONSTANTS
  Workers,      \* the worker ids
  Leader,       \* the worker whose process serves the barriers
  Plans,        \* the configured stage lists
  Default       \* the workload and target of a stage that overrides neither

\* key: target, model and workload, as far as the grouping compares them;
\* until: the stage has a congestion condition.
Stage == [kind : {"load", "barrier", "drain"}, key : STRING, mode : {"closed", "rate"},
          warmup : BOOLEAN, until : BOOLEAN]

ASSUME ScenarioAssumption ==
  /\ IsFiniteSet(Workers) /\ Leader \in Workers
  /\ Default \in STRING
  /\ Plans \subseteq Seq(Stage)

VARIABLES
  plan,         \* the stage list, with the implicit barrier
  registered,   \* the barrier server: which worker registered at which stage
                \* under each barrier number
  run, pos,     \* the first stage of each worker's run, and the stage it is at
  pc,           \* where each worker is
  ctxDone,      \* the worker's context is cancelled
  genDone,      \* its generator's context is cancelled
  barrierIdx,   \* barriers it has passed
  stopped,      \* stoppedEarly
  rec,          \* the generator's recorder: "main" or "warmup"
  cur,          \* the stage whose load is being sent; 0 while there is no stream
  fly,          \* the stage in which the request in flight was sent; 0 if none
  pending,      \* the same of the result that a goroutine is recording
  main,         \* stages that have records in the main recorder
  last,         \* lastStageStart, named by its stage; 0 if zero
  stamps,       \* stageTimestamps, each named by its stage
  \* Observation only.
  started,      \* the measured stages the worker has started
  aborted       \* workers whose generator has given up after too many errors

where == <<plan, registered, run, pos>>
control == <<ctxDone, genDone, barrierIdx, stopped, aborted>>
genVars == <<rec, cur, fly, pending, main>>
stampVars == <<last, stamps, started>>
vars == <<where, pc, control, genVars, stampVars>>

PCs == {"boot", "run", "dataset", "top", "drain", "barrier", "waiting", "running", "outstanding",
        "complete", "stop", "finish", "done", "failed"}

-----------------------------------------------------------------------------
(* The stage list.                                                         *)

ImplicitBarrier == [kind |-> "barrier", key |-> Default, mode |-> "closed",
                    warmup |-> FALSE, until |-> FALSE]

InsertImplicitBarrier(p) ==
  IF p = <<>> \/ p[1].kind # "load" THEN p ELSE <<ImplicitBarrier>> \o p

IsLoad(k) == plan[k].kind = "load"
IsWarmup(k) == IsLoad(k) /\ plan[k].warmup

\* A barrier belongs with the stage before it; a leading one has the defaults.
Key(k) ==
  LET before == {j \in 1..k : IsLoad(j)}
  IN IF before = {} THEN Default
     ELSE plan[CHOOSE j \in before : \A h \in before : h <= j].key

\* A stage that cannot extend the run before it opens one.
RunStart(k) == k = 1 \/ Key(k) # Key(k - 1)
RunEnd(k) ==
  CHOOSE j \in k..Len(plan) :
    /\ j = Len(plan) \/ RunStart(j + 1)
    /\ \A h \in (k + 1)..j : ~RunStart(h)
RunOf(k) == CHOOSE j \in 1..k : RunStart(j) /\ \A h \in (j + 1)..k : ~RunStart(h)

\* The mode of the generator of the run that starts at k: that of the first load
\* stage from there on.
Mode(k) ==
  LET loads == {j \in k..Len(plan) : IsLoad(j)}
  IN IF loads = {} THEN "closed"
     ELSE plan[CHOOSE j \in loads : \A h \in loads : j <= h].mode

-----------------------------------------------------------------------------
(* runScenario: starting, and the loop over the runs.                      *)

Goto(w, p) == pc' = [pc EXCEPT ![w] = p]

\* The endpoint has become ready, the model known, dataset and recorder are made;
\* or one of these fails and the worker's process ends. Until the server answers
\* nothing but a cancelled context ends the waiting: it has no deadline.
Boot(w) ==
  /\ pc[w] = "boot"
  /\ Goto(w, "run") \/ Goto(w, "failed")
  /\ UNCHANGED <<where, control, genVars, stampVars>>

\* The head of the loop.
NextRun(w) ==
  /\ pc[w] = "run"
  /\ ~ctxDone[w] /\ pos[w] <= Len(plan)
  /\ Goto(w, "dataset")
  /\ UNCHANGED <<where, control, genVars, stampVars>>

\* A fresh generator on the main recorder; its context comes from the worker's,
\* which may have ended while the server was asked to count tokens ...
StartRun(w) ==
  /\ pc[w] = "dataset"
  /\ Goto(w, "top")
  /\ run' = [run EXCEPT ![w] = pos[w]]
  /\ genDone' = [genDone EXCEPT ![w] = ctxDone[w]]
  /\ rec' = [rec EXCEPT ![w] = "main"]
  /\ UNCHANGED <<plan, registered, pos, ctxDone, barrierIdx, stopped, aborted,
                 cur, fly, pending, main, stampVars>>

\* ... unless the run's own dataset cannot be built, which ends the process.
RunFails(w) ==
  /\ pc[w] = "dataset"
  /\ Key(pos[w]) # Default
  /\ Goto(w, "failed")
  /\ UNCHANGED <<where, control, genVars, stampVars>>

NoMoreRuns(w) ==
  /\ pc[w] = "run"
  /\ ctxDone[w] \/ pos[w] > Len(plan)
  /\ Goto(w, "finish")
  /\ UNCHANGED <<where, control, genVars, stampVars>>

\* The generator has no streams and nothing unrecorded; it returns. A run ends as
\* a whole, wherever in it the generator gave up.
GeneratorReturns(w) ==
  /\ pc[w] = "stop"
  /\ fly[w] = 0 /\ pending[w] = 0
  /\ pos' = [pos EXCEPT ![w] = RunEnd(run[w]) + 1]
  /\ cur' = [cur EXCEPT ![w] = 0]
  /\ UNCHANGED <<plan, registered, run, control, rec, fly, pending, main, stampVars>>

\* Mutant: an early stop ends only the run, not the scenario.
ReturnAndGoOn(w) == GeneratorReturns(w) /\ Goto(w, "run")

Return(w) ==
  GeneratorReturns(w) /\ Goto(w, IF stopped[w] THEN "finish" ELSE "run")

\* The end: stamp the stage that did not complete, write the timestamps (the
\* process fails if that fails), close the recorder.
Finish(w) ==
  /\ pc[w] = "finish"
  /\ stamps' = [stamps EXCEPT ![w] = IF last[w] = 0 THEN @ ELSE Append(@, last[w])]
  /\ Goto(w, "done") \/ Goto(w, "failed")
  /\ UNCHANGED <<where, control, genVars, last, started>>

-----------------------------------------------------------------------------
(* The generator's loop over the stages of its run, with the callbacks.    *)

InRun(w) == pc[w] = "top" /\ ~genDone[w] /\ pos[w] <= RunEnd(run[w])

\* The loop ends, and the streams are stopped.
LeaveLoop(w) ==
  /\ pc[w] = "top"
  /\ genDone[w] \/ pos[w] > RunEnd(run[w])
  /\ Goto(w, "stop")
  /\ UNCHANGED <<where, control, genVars, stampVars>>

\* A barrier; a closed-loop generator stops its streams first if it drains.
EnterBarrier(w) ==
  /\ InRun(w) /\ ~IsLoad(pos[w])
  /\ Goto(w, IF plan[pos[w]].kind = "drain" /\ Mode(run[w]) = "closed"
             THEN "drain" ELSE "barrier")
  /\ UNCHANGED <<where, control, genVars, stampVars>>

\* Mutant: only the streams are awaited, not their records.
DrainedUnflushed(w) ==
  /\ pc[w] = "drain"
  /\ fly[w] = 0
  /\ Goto(w, "barrier")
  /\ cur' = [cur EXCEPT ![w] = 0]
  /\ UNCHANGED <<where, control, rec, fly, pending, main, stampVars>>

Drained(w) ==
  /\ pc[w] = "drain"
  /\ fly[w] = 0 /\ pending[w] = 0
  /\ Goto(w, "barrier")
  /\ cur' = [cur EXCEPT ![w] = 0]
  /\ UNCHANGED <<where, control, rec, fly, pending, main, stampVars>>

\* The leader's process serves the barriers as long as its context lives.
ServerUp == ~ctxDone[Leader] /\ pc[Leader] \notin {"done", "failed"}

\* onBarrier: WaitForStart registers under the worker's own count of barriers ...
Register(w) ==
  /\ pc[w] = "barrier"
  /\ ServerUp /\ ~ctxDone[w]
  /\ registered' = [registered EXCEPT ![barrierIdx[w]] = @ \cup {<<w, pos[w]>>}]
  /\ Goto(w, "waiting")
  /\ UNCHANGED <<plan, run, pos, control, genVars, stampVars>>

Released(k) == {r[1] : r \in registered[k]} = Workers

\* ... and returns when all have ...
Pass(w) ==
  /\ pc[w] = "waiting"
  /\ Released(barrierIdx[w])
  /\ barrierIdx' = [barrierIdx EXCEPT ![w] = @ + 1]
  /\ pos' = [pos EXCEPT ![w] = @ + 1]
  /\ Goto(w, "top")
  /\ UNCHANGED <<plan, registered, run, ctxDone, genDone, stopped, aborted, genVars, stampVars>>

BarrierError(w) ==
  /\ pc[w] \in {"barrier", "waiting"}
  /\ ctxDone' = [ctxDone EXCEPT ![w] = TRUE]
  /\ genDone' = [genDone EXCEPT ![w] = TRUE]
  /\ pos' = [pos EXCEPT ![w] = @ + 1]
  /\ Goto(w, "top")
  /\ UNCHANGED <<plan, registered, run, barrierIdx, stopped, aborted, genVars, stampVars>>

\* Mutant: a wait without a timer.
NoTimeout(w) == ctxDone[w] /\ BarrierError(w)

\* ... or fails, by its timer or a cancelled context, which cancels the worker.
BarrierFails(w) == BarrierError(w)

\* onStage: switch the recorder, note the start; then the streams start.
OnStage(w) ==
  /\ InRun(w) /\ IsLoad(pos[w])
  /\ Goto(w, "running")
  /\ cur' = [cur EXCEPT ![w] = pos[w]]
  /\ rec' = [rec EXCEPT ![w] = IF IsWarmup(pos[w]) THEN "warmup" ELSE "main"]
  /\ IF IsWarmup(pos[w]) THEN UNCHANGED <<last, started>>
     ELSE /\ last' = [last EXCEPT ![w] = pos[w]]
          /\ started' = [started EXCEPT ![w] = Append(@, pos[w])]
  /\ UNCHANGED <<where, control, fly, pending, main, stamps>>

\* The stage's time is over, its requests are used up, or the context has ended.
\* A rate generator waits for what is outstanding, a closed-loop one goes on.
StageEnds(w) ==
  /\ pc[w] = "running"
  /\ Goto(w, IF Mode(run[w]) = "rate" THEN "outstanding" ELSE "complete")
  /\ UNCHANGED <<where, control, genVars, stampVars>>

NothingOutstanding(w) ==
  /\ pc[w] = "outstanding"
  /\ fly[w] = 0 /\ pending[w] = 0
  /\ Goto(w, "complete")
  /\ cur' = [cur EXCEPT ![w] = 0]
  /\ UNCHANGED <<where, control, rec, fly, pending, main, stampVars>>

\* No onStageComplete when the generator's context has ended.
SkipComplete(w) ==
  /\ pc[w] = "complete" /\ genDone[w]
  /\ pos' = [pos EXCEPT ![w] = @ + 1]
  /\ Goto(w, "top")
  /\ UNCHANGED <<plan, registered, run, control, genVars, stampVars>>

\* Mutant: the start of the stamped stage is kept.
StampOnly(w) ==
  /\ stamps' = [stamps EXCEPT ![w] = IF IsWarmup(pos[w]) THEN @ ELSE Append(@, last[w])]
  /\ UNCHANGED last

\* The stage's timestamp, and the start time reset.
Stamp(w) ==
  IF IsWarmup(pos[w]) THEN UNCHANGED <<stamps, last>>
  ELSE /\ stamps' = [stamps EXCEPT ![w] = Append(@, last[w])]
       /\ last' = [last EXCEPT ![w] = 0]

\* onStageComplete: go on, or stop when this worker finds the server congested.
OnStageComplete(w) ==
  /\ pc[w] = "complete" /\ ~genDone[w]
  /\ Stamp(w)
  /\ \/ /\ pos' = [pos EXCEPT ![w] = @ + 1]
        /\ Goto(w, "top")
        /\ UNCHANGED stopped
     \/ /\ plan[pos[w]].until /\ ~IsWarmup(pos[w])
        /\ stopped' = [stopped EXCEPT ![w] = TRUE]
        /\ Goto(w, "stop")
        /\ UNCHANGED pos
  /\ UNCHANGED <<plan, registered, run, ctxDone, genDone, barrierIdx, aborted, genVars, started>>

-----------------------------------------------------------------------------
(* The stream, and the outside.                                            *)

Send(w) ==
  /\ cur[w] # 0 /\ fly[w] = 0
  /\ ~genDone[w] /\ pc[w] \notin {"drain", "outstanding", "stop"}
  /\ fly' = [fly EXCEPT ![w] = cur[w]]
  /\ UNCHANGED <<where, pc, control, rec, cur, pending, main, stampVars>>

\* An answer or an error; too many errors in a row end the generator's context,
\* and only that.
Answer(w) ==
  /\ fly[w] # 0 /\ pending[w] = 0
  /\ pending' = [pending EXCEPT ![w] = fly[w]]
  /\ fly' = [fly EXCEPT ![w] = 0]
  /\ \/ UNCHANGED <<genDone, aborted>>
     \/ /\ ~genDone[w]
        /\ genDone' = [genDone EXCEPT ![w] = TRUE]
        /\ aborted' = aborted \cup {w}
  /\ UNCHANGED <<where, pc, ctxDone, barrierIdx, stopped, rec, cur, main, stampVars>>

\* The request's context ends first.
Cut(w) ==
  /\ fly[w] # 0
  /\ genDone[w] \/ pc[w] \in {"drain", "stop"}
  /\ fly' = [fly EXCEPT ![w] = 0]
  /\ UNCHANGED <<where, pc, control, rec, cur, pending, main, stampVars>>

\* Mutant: something is recorded although no result is there.
RecordAnyway(w) ==
  /\ main' = [main EXCEPT ![w] = IF rec[w] = "main" THEN @ \cup {pending[w]} ELSE @]
  /\ pending' = [pending EXCEPT ![w] = 0]
  /\ UNCHANGED <<where, pc, control, rec, cur, fly, stampVars>>

\* The recorder is looked up when the result is written.
RecordResult(w) ==
  /\ pending[w] # 0
  /\ main' = [main EXCEPT ![w] = IF rec[w] = "main" THEN @ \cup {pending[w]} ELSE @]
  /\ pending' = [pending EXCEPT ![w] = 0]
  /\ UNCHANGED <<where, pc, control, rec, cur, fly, stampVars>>

\* The worker's process is told to stop.
Interrupt(w) ==
  /\ pc[w] \notin {"finish", "done", "failed"} /\ ~ctxDone[w]
  /\ ctxDone' = [ctxDone EXCEPT ![w] = TRUE]
  /\ genDone' = [genDone EXCEPT ![w] = TRUE]
  /\ UNCHANGED <<where, pc, barrierIdx, stopped, aborted, genVars, stampVars>>

Over == \A w \in Workers : pc[w] \in {"done", "failed"}
Ended == Over /\ UNCHANGED vars

-----------------------------------------------------------------------------
Init ==
  /\ plan \in {InsertImplicitBarrier(p) : p \in Plans}
  /\ registered = [k \in 0..Len(plan) |-> {}]
  /\ run = [w \in Workers |-> 1] /\ pos = [w \in Workers |-> 1]
  /\ pc = [w \in Workers |-> "boot"]
  /\ ctxDone = [w \in Workers |-> FALSE] /\ genDone = [w \in Workers |-> FALSE]
  /\ barrierIdx = [w \in Workers |-> 0]
  /\ stopped = [w \in Workers |-> FALSE]
  /\ rec = [w \in Workers |-> "main"]
  /\ cur = [w \in Workers |-> 0]
  /\ fly = [w \in Workers |-> 0] /\ pending = [w \in Workers |-> 0]
  /\ main = [w \in Workers |-> {}]
  /\ last = [w \in Workers |-> 0]
  /\ stamps = [w \in Workers |-> <<>>] /\ started = [w \in Workers |-> <<>>]
  /\ aborted = {}

Driver(w) ==
  \/ Boot(w) \/ NextRun(w) \/ StartRun(w) \/ RunFails(w) \/ NoMoreRuns(w) \/ Return(w)
  \/ Finish(w) \/ LeaveLoop(w) \/ EnterBarrier(w) \/ Drained(w) \/ Register(w) \/ Pass(w)
  \/ BarrierFails(w) \/ OnStage(w) \/ StageEnds(w) \/ NothingOutstanding(w)
  \/ SkipComplete(w) \/ OnStageComplete(w)

Next ==
  \/ \E w \in Workers :
       Driver(w) \/ Send(w) \/ Answer(w) \/ Cut(w) \/ RecordResult(w) \/ Interrupt(w)
  \/ Ended

Spec == Init /\ [][Next]_vars

\* Only an answer of the inference server lets the worker go on, unless it is told
\* to stop: for the endpoint to be ready, for the token counts of a run's own
\* dataset, and for the requests that an open-loop stage has left.
WaitsForServer(w) ==
  \/ pc[w] = "boot" /\ ~ctxDone[w]
  \/ pc[w] = "dataset" /\ Key(pos[w]) # Default /\ ~ctxDone[w]
  \/ pc[w] = "outstanding" /\ fly[w] # 0 /\ ~genDone[w]

\* Every goroutine that can run by itself does, timers fire (BarrierFails,
\* StageEnds), and a cancelled request ends. Nothing is assumed of the server: it
\* need not become ready, count tokens or answer.
Fairness ==
  \A w \in Workers :
    /\ WF_vars(~WaitsForServer(w) /\ Driver(w))
    /\ WF_vars(Cut(w)) /\ WF_vars(RecordResult(w))

FairSpec == Spec /\ Fairness

-----------------------------------------------------------------------------
(* Properties.                                                             *)

\* Every variable keeps its type (common.go:306-321).
TypeOK ==
  /\ plan \in {InsertImplicitBarrier(p) : p \in Plans}
  /\ registered \in [0..Len(plan) -> SUBSET (Workers \X (1..Len(plan)))]
  /\ run \in [Workers -> 1..(Len(plan) + 1)] /\ pos \in [Workers -> 1..(Len(plan) + 1)]
  /\ pc \in [Workers -> PCs]
  /\ {ctxDone, genDone, stopped} \subseteq [Workers -> BOOLEAN]
  /\ barrierIdx \in [Workers -> 0..Len(plan)]
  /\ rec \in [Workers -> {"main", "warmup"}]
  /\ {cur, fly, pending, last} \subseteq [Workers -> 0..Len(plan)]
  /\ main \in [Workers -> SUBSET (1..Len(plan))]
  /\ {stamps, started} \subseteq [Workers -> Seq(1..Len(plan))]
  /\ aborted \subseteq Workers

\* "barrier() marks a synchronization point in the stage list" (starlark.go:328):
\* the workers that register under one number are at one and the same barrier.
\* Checked by a run that refutes it: a generator that gave up skips the barriers
\* of its run, and the worker then meets the others under the wrong number.
MeetTogether ==
  \A k \in DOMAIN registered : \A r, q \in registered[k] : r[2] = q[2]

\* As long as no generator has given up the workers do meet, whatever else goes
\* wrong: failures to start, timeouts, signals, and sweeps that one worker finds
\* congested and another does not (common.go:426-441, 459-465).
AlignedUnlessAborted == aborted = {} => MeetTogether

\* A worker that ends normally has stamped every measured stage it started, once
\* and in order, the one that was interrupted included (400-412, 441-453, 468-475).
\* A generator that gave up in an earlier run loses its stage's timestamp.
StampsComplete ==
  \A w \in Workers : pc[w] = "done" /\ w \notin aborted => stamps[w] = started[w]

\* A warmup stage is kept apart from the measured stages of its run: by an
\* open-loop generator, or by a draining barrier before each of them.
Isolated(k) ==
  \/ Mode(RunOf(k)) = "rate"
  \/ \A j \in k..RunEnd(k) :
       IsLoad(j) /\ ~IsWarmup(j) => \E d \in k..j : plan[d].kind = "drain"

\* The requests of a warmup stage that is kept apart never reach the main
\* recorder, although the recorder is looked up only when a result is written
\* (common.go:386-400, generator.go:212-215, 267-268).
WarmupNotMeasured ==
  \A w \in Workers : \A k \in main[w] : IsWarmup(k) => ~Isolated(k)

\* A worker's process ends unless it waits for ever for the server, before the
\* scenario (openai.go:125-158), for a run's dataset or for the last answers of an
\* open-loop stage. That its peers wait so, or have ended, does not hold it: at a
\* barrier they will never reach its timer frees it (client.go:41-84). A closed-loop
\* worker cuts its requests, and a signal ends every wait.
Terminates ==
  \A w \in Workers : []<>~WaitsForServer(w) => <>(pc[w] \in {"done", "failed"})
=============================================================================
