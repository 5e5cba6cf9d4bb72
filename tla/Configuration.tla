--------------------------- MODULE Configuration ---------------------------
(***************************************************************************)
(* From the text of a scenario to the load that one worker sends.          *)
(*                                                                         *)
(* A scenario is written in JSON (pkg/config/config.go) or in Starlark     *)
(* (pkg/config/starlark.go) and compiled to a list of stages               *)
(* (pkg/config/scenario.go). The control API checks the list against the   *)
(* service's bounds and answers with a plan of the load of every worker    *)
(* (pkg/controlapi/mcp_scenario.go) before it gives the list to a Job; the *)
(* command line runs it at once. The runner (cmd/nyann-bench: generate.go, *)
(* common.go) checks it again, groups the stages into runs, executes them  *)
(* one by one and may stop at a congested one (pkg/analysis/congestion.go).*)
(*                                                                         *)
(* The workers of a run do not meet here (Scenario is about that): one of  *)
(* them is followed. Durations, names, ramps and request limits matter     *)
(* only to the bounds and are one Boolean; Kubernetes is left to           *)
(* ControlPlane, what a generator does with its load to the generators'    *)
(* modules.                                                                *)
(***************************************************************************)
EXTENDS LoadDivision, Sequences

CONSTANTS
  Texts,             \* the texts in a scenario: modes, keys of workloads, targets
  Sources,           \* the scenarios, as written
  AskedWorkers,      \* the values of --workers, or of "workers" in a request
  MaxWorkers,        \* the service's bound
  StreamsPerWorker,  \* what "auto" gives a worker (1024)
  MaxConcurrency,    \* the service's bound on streams (65536)
  MaxStages          \* the bound on the length of a scenario (128)

AutoWorkers == -1    \* --workers auto
Unset == -1          \* a number that the source leaves out

RateModes == {"constant", "poisson"}
Modes == {"", "concurrent", "conversation_pool"} \cup RateModes
Signals == {"waiting", "ttft", "kv", "preemptions"}

\* key: the fields that the grouping of stages compares; rest: the others.
\* kind: "unsupported" has a type or a path the runner cannot use, "fewshot" asks
\* for examples (which gsm8k does by default) and names no file of them.
\* within: within the service's bounds; path: of its dataset, if it has one.
Workloads == [key : Texts, rest : Texts, kind : {"plain", "fewshot", "unsupported"},
              within : BOOLEAN, path : {"none", "inside", "outside"}]
FakerWorkload == [key |-> "faker", rest |-> "", kind |-> "plain", within |-> TRUE,
                  path |-> "none"]
NoWorkload == [FakerWorkload EXCEPT !.key = "none"]  \* the stage overrides nothing

\* A stage of the compiled list. target: "" unless it is overridden; within: its
\* name, duration, ramp and request limits are within the service's bounds.
ScenarioStage ==
  [barrier : BOOLEAN, warmup : BOOLEAN, mode : Texts, concurrency : Int, pool : Int,
   rate : Int, workload : Workloads, target : Texts, stop : BOOLEAN, within : BOOLEAN]

Blank == [barrier |-> FALSE, warmup |-> FALSE, mode |-> "", concurrency |-> 0, pool |-> 0,
          rate |-> 0, workload |-> NoWorkload, target |-> "", stop |-> FALSE, within |-> TRUE]
BarrierStage == [Blank EXCEPT !.barrier = TRUE]

\* A document, decoded: load and the list or the sweep that replace it.
JSONSource ==
  [form : {"json"}, known : BOOLEAN, warmup : BOOLEAN, within : BOOLEAN, workload : Workloads,
   load : [mode : Texts, concurrency : Int, pool : Int, rate : Int],
   stages : Seq([concurrency : Int, pool : Int]),
   sweep : Seq([min : Int, max : Int, steps : Int])]

\* A program, by what its calls of scenario() are given. until: the thresholds of the
\* entry's until_congested(), if any.
StarlarkItem ==
  [barrier : BOOLEAN, warmup : BOOLEAN, mode : Texts, concurrency : Int, pool : Int,
   rate : Int, workload : Workloads, target : Texts, until : Texts, within : BOOLEAN]
StarlarkSource ==
  [form : {"starlark"}, calls : Nat, items : Seq(StarlarkItem), workload : Workloads,
   target : Texts]

ASSUME ConfigurationAssumption ==
  /\ Modes \cup {"none", "faker"} \subseteq Texts
  /\ Sources \subseteq JSONSource \cup StarlarkSource
  /\ AskedWorkers \subseteq Int
  /\ {MaxWorkers, StreamsPerWorker, MaxConcurrency, MaxStages} \subseteq Nat \ {0}

VARIABLES
  source, via, asked,  \* the scenario as written, who runs it, with how many workers
  deploy,      \* what --prometheus-url and --deploy-name point at, if given
  phase,
  scenario,    \* the compiled scenario
  plan,        \* the plan the API answers with
  workers, worker,     \* the workers of the run, and the one that is followed
  pos, run,    \* the stage it is at, and the first stage of that stage's run
  executed,    \* the load it has sent, stage by stage
  signals,     \* what was true of each role of the deployment in the last stage
  unanswered   \* a query about one of them failed

submission == <<source, via, asked, deploy>>
following == <<workers, worker>>
vars == <<submission, phase, scenario, plan, following, pos, run, executed, signals,
          unanswered>>

Given(v, default) == IF v = Unset THEN default ELSE v
None == [stages |-> <<>>, workload |-> FakerWorkload, target |-> ""]
Loads(stages) == {k \in DOMAIN stages : ~stages[k].barrier}
LeastOf(S) == CHOOSE k \in S : \A j \in S : k <= j

\* The entries of a list at the positions S, in their order.
Nth(S, m) == CHOOSE k \in S : Cardinality({j \in S : j <= k}) = m
EntriesAt(list, S) == [m \in 1..Cardinality(S) |-> list[Nth(S, m)]]

-----------------------------------------------------------------------------
(* JSON.                                                                   *)

\* What the text leaves out.
ParseDataConfig(s) ==
  [s EXCEPT !.load.mode = IF @ = "unset" THEN "concurrent" ELSE @,
            !.load.concurrency = Given(@, 10), !.load.rate = Given(@, 10)]

\* The concurrency of step i of a sweep of at least two; the division truncates
\* towards zero, so a falling sweep rounds up.
SweepConcurrency(min, max, steps, i) ==
  LET c == IF max >= min THEN min + ((max - min) * i) \div (steps - 1)
           ELSE min - ((min - max) * i) \div (steps - 1)
  IN IF c < 1 THEN 1 ELSE c

SweepStages(s) ==
  IF s.steps < 2 THEN <<[concurrency |-> s.max, pool |-> 0]>>
  ELSE [k \in 1..s.steps |->
         [concurrency |-> SweepConcurrency(s.min, s.max, s.steps, k - 1), pool |-> 0]]

\* A sweep before a list of stages before the single stage of "load".
EffectiveStages(s) ==
  CASE s.sweep # <<>> -> SweepStages(s.sweep[1])
    [] s.sweep = <<>> /\ s.stages # <<>> -> s.stages
    [] OTHER -> <<[concurrency |-> s.load.concurrency, pool |-> s.load.pool]>>

\* The warmup copies the mode and the streams of the first stage, not the rate.
WarmupStage(s) ==
  LET first == EffectiveStages(s)[1]
  IN [Blank EXCEPT !.warmup = TRUE, !.mode = s.load.mode,
                   !.concurrency = first.concurrency, !.within = s.within,
                   !.pool = IF first.pool > 0 THEN first.pool ELSE s.load.pool]

ToScenarioConfig(s) ==
  LET stages == EffectiveStages(s)
      Convert(e) == [Blank EXCEPT !.mode = s.load.mode, !.concurrency = e.concurrency,
                                  !.pool = IF e.pool = 0 THEN s.load.pool ELSE e.pool,
                                  !.rate = s.load.rate, !.within = s.within]
  IN [stages |-> (IF s.warmup THEN <<WarmupStage(s)>> ELSE <<>>)
                 \o [k \in DOMAIN stages |-> Convert(stages[k])],
      workload |-> s.workload, target |-> ""]

-----------------------------------------------------------------------------
(* Starlark.                                                               *)

BuiltinWorkloadOK(w) == w.kind = "plain"

\* A rate excludes an explicit concurrency.
BuiltinStageOK(i) ==
  /\ i.mode \in Modes \ {""}
  /\ i.rate = Unset \/ i.concurrency = Unset
  /\ Given(i.concurrency, 10) >= 1
  /\ BuiltinWorkloadOK(i.workload)

\* until_congested() takes stages only, and positive thresholds.
BuiltinUntilCongestedOK(i) == i.until # "none" => i.until = "positive" /\ ~i.barrier

StructToScenarioStage(i) ==
  IF i.barrier THEN BarrierStage
  ELSE [Blank EXCEPT !.warmup = i.warmup, !.mode = i.mode,
                     !.concurrency = Given(i.concurrency, 10), !.pool = i.pool,
                     !.rate = Given(i.rate, 0), !.workload = i.workload,
                     !.target = i.target, !.stop = (i.until # "none"),
                     !.within = i.within]

\* The source runs to its end and calls scenario() exactly once; only the API
\* bounds the number of stages here.
ParseStarlarkOK(s, bounded) ==
  /\ s.calls = 1
  /\ s.items # <<>>
  /\ bounded => Len(s.items) <= MaxStages
  /\ BuiltinWorkloadOK(s.workload)
  /\ \A k \in DOMAIN s.items :
       /\ s.items[k].barrier \/ BuiltinStageOK(s.items[k])
       /\ BuiltinUntilCongestedOK(s.items[k])

ParseScenarioCall(s) ==
  [stages |-> [k \in DOMAIN s.items |-> StructToScenarioStage(s.items[k])],
   workload |-> s.workload, target |-> s.target]

-----------------------------------------------------------------------------
(* Both.                                                                   *)

\* Mutant: a pool may be smaller than the concurrency.
AnyPoolOK(stages) == \A k \in Loads(stages) : stages[k].mode \in Modes

ValidateOK(stages) ==
  \A k \in Loads(stages) :
    /\ stages[k].mode \in Modes
    /\ stages[k].mode = "conversation_pool" =>
         stages[k].pool = 0 \/ stages[k].pool >= stages[k].concurrency

\* Validate also gives a pool that was left out the size of the concurrency.
Validated(sc) ==
  [sc EXCEPT !.stages = [k \in DOMAIN @ |->
     IF ~@[k].barrier /\ @[k].mode = "conversation_pool" /\ @[k].pool = 0
       THEN [@[k] EXCEPT !.pool = sc.stages[k].concurrency] ELSE @[k]]]

Compiled(s) == IF s.form = "json" THEN ToScenarioConfig(ParseDataConfig(s)) ELSE ParseScenarioCall(s)

ParseOK(s, bounded) ==
  /\ s.form = "starlark" => ParseStarlarkOK(s, bounded)
  /\ ValidateOK(Compiled(s).stages)

Init ==
  /\ source \in Sources /\ via \in {"api", "cli"} /\ asked \in AskedWorkers
  /\ deploy \in {"none", "aggregate", "pd"}
  /\ via = "api" => asked # AutoWorkers /\ deploy = "none"   \* a request has neither
  /\ phase = "submitted"
  /\ scenario = None /\ plan = <<>>
  /\ workers = 1 /\ worker = 0
  /\ pos = 0 /\ run = 0 /\ executed = <<>>
  /\ signals = <<>> /\ unanswered = FALSE

-----------------------------------------------------------------------------
(* The control API.                                                        *)

\* The form of the request: exactly one source, and JSON without unknown fields.
ParseBenchmarkScenario ==
  /\ phase = "submitted" /\ via = "api"
  /\ IF (source.form = "json" => source.known) /\ ParseOK(source, TRUE)
       THEN /\ phase' = "parsed"
            /\ scenario' = Validated(Compiled(source))
       ELSE phase' = "rejected" /\ UNCHANGED scenario
  /\ UNCHANGED <<submission, plan, following, pos, run, executed, signals, unanswered>>

ValidateWorkloadBounds(w) == w.kind # "unsupported" /\ w.within

ValidateDatasetPaths(w) == w.path # "outside"

ValidateScenarioBounds(sc) ==
  /\ Len(sc.stages) \in 1..MaxStages
  /\ sc.target = ""
  /\ ValidateWorkloadBounds(sc.workload)
  /\ \A k \in DOMAIN sc.stages :
       LET s == sc.stages[k]
       IN /\ s.target = ""
          /\ ValidateWorkloadBounds(s.workload)
          /\ s.barrier \/ ( /\ s.within
                            /\ s.concurrency \in 0..MaxConcurrency
                            /\ s.pool >= 0 /\ s.rate >= 0
                            /\ IF s.mode \in RateModes THEN s.rate > 0
                               ELSE s.concurrency > 0 )
  /\ Loads(sc.stages) # {}

\* What the plan and the division of labour say of a stage: its mode and the load of
\* worker id. A rate is a fraction.
ModeOf(s) == IF s.mode = "" THEN "concurrent" ELSE s.mode
DivideRate(total, n) == <<total, IF n <= 1 THEN 1 ELSE n>>
Share(mode, s, n, id) ==
  IF mode \in RateModes THEN DivideRate(s.rate, n)
  ELSE <<DivideConcurrency(s.concurrency, n, id), 1>>

\* The workload is the one of the effective scenario in the same answer.
EffectiveWorkload(sc, s) == IF s.workload = NoWorkload THEN sc.workload ELSE s.workload
Planned(sc, s, n) ==
  [mode |-> ModeOf(s), workload |-> EffectiveWorkload(sc, s), target |-> s.target,
   load |-> [id \in WorkerIds(n) |-> Share(ModeOf(s), s, n, id)]]
PlannedLoad(sc, n) ==
  LET loads == EntriesAt(sc.stages, Loads(sc.stages))
  IN [k \in DOMAIN loads |-> Planned(sc, loads[k], n)]

\* prepareRun looks at the rest of the request, at the load only here; what it asks of
\* names, images, resources, mounts and addresses does not depend on the scenario.
PrepareRunOK(n) == n \in 1..MaxWorkers

PlanBenchmark ==
  /\ phase = "parsed"
  /\ LET n == IF asked = 0 THEN 1 ELSE asked
     IN IF /\ ValidateScenarioBounds(scenario)
           /\ ValidateDatasetPaths(scenario.workload)
           /\ \A k \in DOMAIN scenario.stages :
                ValidateDatasetPaths(scenario.stages[k].workload)
           /\ PrepareRunOK(n)
          THEN /\ phase' = "planned"
               /\ plan' = PlannedLoad(scenario, n)
               /\ workers' = n
          ELSE phase' = "rejected" /\ UNCHANGED <<plan, workers>>
  /\ UNCHANGED <<submission, scenario, worker, pos, run, executed, signals, unanswered>>

-----------------------------------------------------------------------------
(* The runner: a pod of the Job, or the command line.                      *)

\* Mutant: warmups are counted among the measured stages.
AllConditions(stages) == EntriesAt(stages, Loads(stages))

\* The conditions that OnStageComplete looks up by the number of a measured stage.
MeasuredConditions(stages) ==
  EntriesAt(stages, {k \in Loads(stages) : ~stages[k].warmup})

HasCongestionSweep(stages) ==
  \E k \in DOMAIN MeasuredConditions(stages) : MeasuredConditions(stages)[k].stop

HighestConcurrency(stages) ==
  LET all == {stages[k].concurrency : k \in DOMAIN stages} \cup {0}
  IN CHOOSE c \in all : \A d \in all : d <= c

\* The number of workers that this process is told of; 0 if it is refused.
RunnerWorkers(sc) ==
  IF via = "api" THEN workers
  ELSE IF asked = AutoWorkers THEN ResolveWorkers(HighestConcurrency(sc.stages), StreamsPerWorker)
  ELSE asked

InsertImplicitBarrier(stages) ==
  IF stages = <<>> \/ stages[1].barrier THEN stages ELSE <<BarrierStage>> \o stages

\* Whether the dataset of a workload can be built.
BuildDatasetOK(w) == w.kind = "plain"

\* A Job decodes and validates the list once more (and again fills in its pools);
\* the command line compiles it here.
StartRunner ==
  /\ phase = "planned" \/ (phase = "submitted" /\ via = "cli")
  /\ LET sc == Validated(IF via = "api" THEN scenario ELSE Compiled(source))
         n == RunnerWorkers(sc)
     IN IF /\ IF via = "api" THEN ValidateOK(scenario.stages) ELSE ParseOK(source, FALSE)
           /\ HasCongestionSweep(sc.stages) => deploy # "none"
           /\ n >= 1
           /\ BuildDatasetOK(sc.workload)
          THEN /\ scenario' = IF n > 1 THEN [sc EXCEPT !.stages = InsertImplicitBarrier(@)]
                              ELSE sc
               /\ workers' = n
               /\ worker' \in WorkerIds(n)
               /\ phase' = "running" /\ pos' = 1
          ELSE /\ phase' = "failed"
               /\ UNCHANGED <<scenario, following, pos>>
  /\ UNCHANGED <<submission, plan, run, executed, signals, unanswered>>

\* What each worker makes of its share of a pool.
PoolShare(s, n, id) ==
  LET share == DivideConcurrency(s.pool, n, id)
  IN IF s.mode = "conversation_pool" /\ share = 0
       THEN DivideConcurrency(s.concurrency, n, id) ELSE share

\* A barrier takes target and workload from the stage before it.
Resolved(k) ==
  LET before == {j \in 1..k : ~scenario.stages[j].barrier}
      last == CHOOSE j \in before : \A h \in before : h <= j
  IN IF before = {} THEN BarrierStage ELSE scenario.stages[last]

\* workloadEqual: two overrides with the same key count as one workload.
WorkloadEqual(a, b) ==
  IF NoWorkload \in {a, b} THEN a = b ELSE a.key = b.key

CanExtend(first, k) ==
  /\ Resolved(first).target = Resolved(k).target
  /\ WorkloadEqual(Resolved(first).workload, Resolved(k).workload)

\* Mutant: the stage at the start of the run, be it a barrier.
FirstStage(k) == scenario.stages[k]

\* The stage whose mode and rate the generator of the run at k has: the first load
\* stage from there on, of this run or of a later one.
FirstLoad(k) ==
  LET loads == {j \in k..Len(scenario.stages) : ~scenario.stages[j].barrier}
  IN IF loads = {} THEN BarrierStage ELSE scenario.stages[LeastOf(loads)]

\* The generator of the run at `first` on its stage k: the streams are the stage's,
\* the mode, the rate and the workload those of the run.
Execute(first, k) ==
  LET gen == FirstLoad(first)
      s == scenario.stages[k]
  IN [mode |-> ModeOf(gen), target |-> Resolved(first).target,
      workload |-> EffectiveWorkload(scenario, Resolved(first)),
      load |-> IF ModeOf(gen) \in RateModes THEN Share(ModeOf(gen), gen, workers, worker)
               ELSE Share(ModeOf(gen), s, workers, worker)]

\* The next stage opens a run of its own, whose dataset may not be possible to
\* build, or extends the run before it.
RunStage ==
  /\ phase = "running" /\ pos <= Len(scenario.stages)
  /\ LET first == IF run # 0 /\ CanExtend(run, pos) THEN run ELSE pos
         s == scenario.stages[pos]
     IN IF BuildDatasetOK(Resolved(first).workload)
          THEN /\ run' = first
               /\ executed' = IF s.barrier THEN executed
                              ELSE Append(executed, Execute(first, pos))
               /\ IF s.barrier \/ s.warmup
                    THEN pos' = pos + 1 /\ UNCHANGED phase
                    ELSE phase' = "complete" /\ UNCHANGED pos
          ELSE phase' = "failed" /\ UNCHANGED <<run, executed, pos>>
  /\ signals' = <<>> /\ unanswered' = FALSE
  /\ UNCHANGED <<submission, scenario, plan, following>>

-----------------------------------------------------------------------------
(* Congestion.                                                             *)

Roles == IF deploy = "pd" THEN {"prefill", "decode"} ELSE {"aggregate"}

\* The queueing pair may come from two roles, the cache pair may not.
Congested(observed) ==
  \/ /\ \E r \in Roles : "waiting" \in observed[r]
     /\ \E r \in Roles : "ttft" \in observed[r]
  \/ \E r \in Roles : {"kv", "preemptions"} \subseteq observed[r]

\* The number of the measured stage at pos.
MeasuredIndex ==
  Cardinality({k \in 1..pos : ~scenario.stages[k].barrier /\ ~scenario.stages[k].warmup})

\* A query that fails leaves its value zero, which is below every threshold.
CheckStageCongestion ==
  \E truth \in [Roles -> SUBSET Signals] :
    \E seen \in {o \in [Roles -> SUBSET Signals] : \A r \in Roles : o[r] \subseteq truth[r]} :
      /\ signals' = truth /\ unanswered' = (seen # truth)
      /\ phase' = IF Congested(seen) THEN "stopped" ELSE "running"

OnStageComplete ==
  /\ phase = "complete"
  /\ IF MeasuredConditions(scenario.stages)[MeasuredIndex].stop
       THEN CheckStageCongestion
       ELSE phase' = "running" /\ UNCHANGED <<signals, unanswered>>
  /\ pos' = pos + 1
  /\ UNCHANGED <<submission, scenario, plan, following, run, executed>>

Finish ==
  /\ phase = "running" /\ pos > Len(scenario.stages)
  /\ phase' = "done"
  /\ UNCHANGED <<submission, scenario, plan, following, pos, run, executed, signals,
                 unanswered>>

Ended == phase \in {"rejected", "failed", "stopped", "done"} /\ UNCHANGED vars

Next ==
  \/ ParseBenchmarkScenario \/ PlanBenchmark
  \/ StartRunner \/ RunStage \/ OnStageComplete \/ Finish
  \/ Ended

Spec == Init /\ [][Next]_vars

-----------------------------------------------------------------------------
(* Properties.                                                             *)

\* A scenario that the API admits is one its Job can run. Only two things that the
\* bounds do not look at can make the Job fail: a stop condition, for which the API
\* gives it no Prometheus, and examples that a workload has no file of. In every
\* stage worker 0 has something to send, and the conversations of a pool are enough
\* for the streams of every worker, whatever the divisions of the two leave.
AdmittedRuns ==
  via = "api" =>
    /\ phase = "failed" =>
         \/ HasCongestionSweep(scenario.stages)
         \/ "fewshot" \in {scenario.workload.kind}
                         \cup {scenario.stages[k].workload.kind : k \in DOMAIN scenario.stages}
    /\ worker = 0 => \A m \in DOMAIN executed : executed[m].load[1] > 0
    /\ phase = "running" =>
         \A k \in Loads(scenario.stages) :
           scenario.stages[k].mode = "conversation_pool" =>
             \A id \in WorkerIds(workers) :
               DivideConcurrency(scenario.stages[k].concurrency, workers, id)
                 <= PoolShare(scenario.stages[k], workers, id)

\* The load of worker id of the stages of a plan.
OfWorker(p, id) == [m \in DOMAIN p |-> [p[m] EXCEPT !.load = @[id]]]
IsPrefixOf(s, t) == Len(s) <= Len(t) /\ \A m \in DOMAIN s : s[m] = t[m]

\* Load stages that may share a generator agree in all that the generator decides.
Uniform ==
  \A j, k \in Loads(scenario.stages) :
    LET a == scenario.stages[j]  b == scenario.stages[k]
    IN CanExtend(j, k) => a.mode = b.mode /\ a.rate = b.rate /\ a.workload = b.workload

\* When stages that share a generator agree in mode, rate and workload, the worker
\* sends in every stage what the plan says of it, however barriers (the implicit one
\* too), warmups and overrides shift the stages and group them into runs.
PlanExactWhenUniform ==
  phase \in {"running", "complete", "stopped", "done"} /\ Uniform =>
    IsPrefixOf(executed, OfWorker(PlannedLoad(scenario, workers), worker))

\* What the documentation says of a plan: it shows the exact load of every worker.
PlanExact ==
  phase \in {"running", "complete", "stopped", "done"} /\ via = "api" =>
    IsPrefixOf(executed, OfWorker(plan, worker))

\* The queueing pair anywhere in the deployment, or the cache pair on one role.
TrulyCongested ==
  \/ \E q, r \in DOMAIN signals : "waiting" \in signals[q] /\ "ttft" \in signals[r]
  \/ \E r \in DOMAIN signals : "kv" \in signals[r] /\ "preemptions" \in signals[r]

\* The sweep stops after a measured stage exactly if that stage, counted past
\* warmups and barriers, has a stop condition and the deployment was congested in it;
\* queries that fail can make it miss a congestion and never make it see one.
StopsOnlyWhenCongested ==
  phase \in {"running", "stopped"} /\ pos > 1 =>
    LET s == scenario.stages[pos - 1]
        judged == s.stop /\ ~s.warmup
    IN /\ phase = "stopped" => judged /\ TrulyCongested
       /\ judged /\ TrulyCongested /\ phase = "running" => unanswered
       /\ judged => signals # <<>>
=============================================================================
