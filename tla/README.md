# nyann-bench: formal model

TLA+ models of nyann-bench, from the text of a scenario to the report on its run:
the TLC runs that check them on small instances, and TLAPS proofs, for every
instance, of all the safety properties those runs check. Line numbers refer to this commit.

## 1. The system

nyann-bench is a load generator for OpenAI-compatible inference servers. A
scenario (JSON or Starlark) is a list of *stages* and *barriers*; one or several
*workers* (pods of a Kubernetes Job) each run their share of it, keep in step at
the barriers, and record every request; an analysis step summarises the records,
and a control API submits, lists, cancels and reports runs in a cluster.

| Component | State it keeps | Operations | Hard part |
|---|---|---|---|
| Closed-loop generator, `pkg/loadgen/generator.go` (`RunStagesUntil`, `streamPool`, `runStream`) | pool of stream goroutines, stage counter, one-slot prefetch channel per stream, consecutive errors, `recordWG` | resize between stages, prefetch and reserve, send, record, drain, stop | three kinds of goroutine on shared counters and channels; cancellation at any point |
| Conversation pool, `pkg/loadgen/conversation_pool.go` | queue of ready conversations with a consumed prefix, live set, request counter | next, complete, compact, replace; stage driver | a reservation must find a conversation; one owner per conversation; early returns |
| Open-loop generator, `generator.go` (`runRateBasedStages`, `runRateBased`) | semaphore, count of dispatched conversations, two nested contexts | arrive, acquire, dispatch, drain, flush | tokens and drains under cancellation; the cap divided among workers |
| Barrier, `pkg/barrier` | map of barrier states in the leader's process; retrying HTTP clients | register, release, delete, answer; try, retry, time out | broken connections, a leader that leaves, two states under one id |
| Recorder, `pkg/recorder/recorder.go` | buffered channel, closed flag, RW lock, records and file | Write, drain, Close, Records | writers blocked on a full channel while Close waits for them |
| Scenario runner, `cmd/nyann-bench/common.go`, `generate.go` | index over the stages, current recorder, barrier number | group stages into runs, onStage, onBarrier, congestion stop | runs of several workers diverge after an abort |
| Configuration, `pkg/config` | the list of stages | parse JSON or Starlark, validate, divide the load, implicit barrier | integer division; which stage's parameters count |
| Congestion, `pkg/analysis/congestion.go` | none | compare pairs of signals with a stage's thresholds | which stage; which role; queries that fail |
| Control API, planning, `pkg/controlapi/mcp_scenario.go` | none | check a scenario against the service's bounds, plan the load | what it admits and plans is run by other code |
| Control API, runs, `pkg/controlapi/mcp_runs.go`, `server.go`, `starlark.go` | manifests on a shared volume, Service and Job in Kubernetes, one compile slot | submit, cancel, retry | concurrent requests, failed calls and restarts between any two steps |
| Control API, reports, `pkg/controlapi/mcp_report.go` | none | list files, find the common window, add up | reads while workers write |
| Evaluation and analyze, `eval.go`, `analyze.go`, `pkg/analysis/stats.go` | each worker's slice of the dataset, its requests and timestamps files | partition, ask, record; summarise | uneven and empty slices, killed workers |
| HTTP client, `pkg/client/openai.go` | none | streamed request, readiness polling | a cancelled request is neither an error nor an answer |
| Text of datasets, metrics, Kubernetes templates, mock server, corpus, scripts | | text, I/O, numbers | none of the above |

How they interact. The scenario runner calls one generator per run of stages
with three callbacks: `onStage` (announce a stage), `onBarrier` (wait at the
barrier; on failure cancel the run) and `onStageComplete` (go on, or stop when
congested). A generator's streams call the HTTP client and hand each result to a
goroutine that writes to the recorder. Workers share nothing but the barrier
server in worker 0 and the directory they write their files to. The control API
compiles a scenario, starts the workers as a Job that is given the compiled list,
and reads their files; it shares nothing with them but Kubernetes and the volume.

What makes each component correct:

* closed loop: never more streams than the stage asks for, never more
  reservations than `max_requests`, no blocked helper goroutine, and nothing
  alive or unrecorded at a drain barrier or on return;
* conversation pool: one owner per conversation, a constant working set, least
  recently used first, exactly `max_requests` requests;
* open loop: never over the cap, drained between stages, exact `max_requests`,
  no conversation cut short by the end of a stage;
* barrier: one start time, nobody ahead, no failure or wait without a cause;
* recorder: no panic, no deadlock, no accepted record lost or stored twice;
* scenario runner: workers that meet are at the same barrier, every measured
  stage is stamped once, warmup requests are not measured, and a worker left
  alone does not wait for ever;
* configuration and planning: a Job can run what the API admits, sends the load of
  the plan, and stops its sweep where the deployment is congested;
* runs of the control API: a run id stands for one specification, a directory holds
  the results of one, a Job keeps its Service, and every client is answered;
* results: every question once, every record inside its worker's window, and a
  report that agrees with `analyze`.

## 2. Modules

| Module | Models | Extends / instances |
|---|---|---|
| `StreamPool` | closed-loop generator | |
| `ConversationPool` | conversation-pool generator | |
| `RateStages` | open-loop generator in one worker | `LoadDivision` |
| `LoadDivision` | `DivideConcurrency`, `ResolveWorkers` | |
| `Barrier` | barrier server, its handlers and the workers' clients | |
| `Recorder` | recorder at the grain of its locks and channel operations | instance of `RecordLog` |
| `Scenario` | `runScenario` in several workers, over abstract generators and an abstract barrier | |
| `Configuration` | from the text of a scenario to the load one worker sends: parsers, validation, the API's bounds and plan, the runner, the congestion check | `LoadDivision` |
| `ControlPlane` | submission and cancellation of one run id over Kubernetes and the result volume | |
| `Results` | an evaluation's workers, their files, the report on them and `analyze` | `LoadDivision` |
| `RecordLog` | abstract promise of the recorder: a log that takes each record once until it is sealed, and reports of all of it | |
| `MC*` | the instances TLC checks | |
| `StreamPoolProofs`, `ConversationPoolProofs`, `BarrierProofs`, `ScenarioProofs`, `ControlPlaneProofs`, `ResultsProofs` | theorems | each extends its component |
| `RateStagesProofs` | theorems about the open-loop generator, and about the recorder | `RateStages`, `Recorder` |
| `ConfigurationProofs` | theorems about configuration, and about the division of load | `Configuration` |

`PROJECT.json` maps every definition to its lines.

**StreamPool.** `plan, i, phase` is the driver; each value of `phase` is a point
of `RunStagesUntil` where another goroutine may run (the waits of `Stop` and of
`recordWG`, the select over the stage's timer, the drain). `cur` is
`g.maxReqState`: replacing it (`StoreState`) does not disturb a fill goroutine
that has already loaded the old one, which is why counters are kept per stage.
`fill[s]` has a step for the load of the state, the read of the counter and the
compare-and-swap, so every race of the real loop is there. `prefetch[s]` is the
one-slot channel. `Grow`, `Shrink` and `Exit` are `Resize` and the deferred
delete. A request ends in one of three ways: an answer, an error, or cut by its
context, in which case `ChatStream` returns with neither error nor finish reason
and nothing is recorded. `granted`, `begun` and `fresh` only observe.

**ConversationPool.** One atomic action per critical section of the scheduler's
mutex (`next`, `complete`); the queue is the slice with its `head`, compacted as
in `popReadyLocked`. `bypass` observes how long a conversation waits.

**RateStages.** `runRateBasedStages` and `runRateBased` are one driver; the
conversations' goroutines occupy `Slots`. `timeUp` is the stage's context,
`ctxDone` the run's: the model keeps apart which code looks at which. The moment
of an arrival is left open. The cap is the worker's share of the first load
stage's `max_inflight`, as `runScenario` computes it.

**Barrier.** A handler is a small state machine per attempt: `getBarrier`, the
critical section under the barrier's lock, the later deletion from the map, the
select between release and a gone client. A worker may lose its connection while
it waits and retry, be refused while the leader is not yet listening, time out,
or find the leader gone after its own run. A `barrierState` is never forgotten:
`objs[k]` is the sequence of those made for id `k`, `current[k]` the one in the
map, and a start time is named by the state whose release computed it.

**Recorder.** `Write` is check under the read lock, send, return; `Close` is the
once, the write lock (granted only when no writer is inside, and shutting out new
ones while it waits), the closing, and the wait for `drain`. `hand` is the record
`drain` has received and not yet stored. Its specification is `RecorderSpec`, so that
one proof module can extend it beside a generator that writes to it.

**Scenario.** `pos[w]` is the worker's index over the stages, `run[w]` the first
stage of the run its generator was made for, `pc[w]` the point of `runScenario`
or of the generator's stage loop. At "boot" the worker polls its server until it is
ready (`WaitForReady`), and at "dataset" a run with its own workload has tokens
counted (`StartRun`): both may take for ever, and a signal ends both. A generator is
one stream: `fly` and `pending` name the stage in which the request in flight, and
the result being recorded, was sent, and `rec` is the recorder that is looked up when it is written. The barrier
is who registered under which number, together with the stage the worker was
really at, which the server does not know. `Answer` may end the generator's
context after too many errors; `aborted` observes it. The closed and the
open-loop mode are here, the conversation pool is left to its own module.

**Configuration.** `source` is a scenario as written: a JSON document, or the calls
a Starlark source makes. `ToScenarioConfig` and `ParseScenarioCall` turn either into
the list of stages. Then the two ways part: the API checks the list
(`ValidateScenarioBounds`), answers with `PlannedLoad` and hands the list to a Job;
the command line goes on by itself. `StartRunner` is `generate`; one worker is
followed through its stages (`RunStage`), and `executed` collects what its generator
is given in each: the streams of the stage, but mode, rate and workload of the run
that the stage was grouped into (`CanExtend`, `FirstLoad`). `OnStageComplete` looks
up the stop condition by the number of the measured stage and compares what the
queries returned; `signals` keeps what was really the case. Durations, names,
ramps and request limits are one Boolean (within bounds), a workload is the fields
that the grouping compares and the rest. The texts of a scenario come from the
constant `Texts` (TLC: all strings); the entries a loop of the code picks out of the
list are named by their positions (`EntriesAt`, `Nth`).

**ControlPlane.** One run id. `index` and `dirManifest` are the two durable manifests,
`artifacts` who has written request files where, `job`, `service` and `pods` are
Kubernetes' state (external, as the code uses it: owner references, expiry of
finished Jobs, pods that outlive a deleted Job for a while). `sub[s].pc` is the point
of `planBenchmark` or `submitBenchmark` a client's call is at, `can[c].pc` that of a
cancel. Each call to Kubernetes or the volume is a step, may fail, and the server may
stop before it. A specification is its fingerprint; two of them may have the same
result label, and then the same directory. `removed`, `overlaid` and `contested` only
observe.

**Results.** Every worker's slice of the dataset (`Partition`), its request limit and
its streams, the records in its recorder's channel and in its file, and its
timestamps file, which exists before it is complete. The report lists the files in
one step and reads them in a later one. `Analyze` is what `nyann-bench analyze`
would say of the same files. The clock is shared: skew between pods is left out.

## 3. Runs

| Run | Instance | Shows |
|---|---|---|
| `stream_pool` | 3 stream slots, 4 stage lists, 2 turns | `ConcurrencyCap`, `Quiescent`, `ExactWhenFresh`, `Terminates` |
| `conversation_pool` | 2 streams, 3 conversations, 3 stage lists, 2 turns | `TypeOK`, `Exclusive`, `ReadyWhenNeeded`, `LeastRecentlyUsed`, `ExactRequests`, `Terminates` |
| `rate_stages` | each of 2 workers, 3 conversation slots, 3 stage lists, 2 turns | `InFlightCapped`, `ExactDispatch`, `CancelStops` |
| `barrier` | 3 workers, 2 barriers, 1 retry each, 1 lost connection | `TypeOK`, `Agreement`, `NobodyAhead`, `AllPass` |
| `recorder` | 4 writers, 2 closers, capacity 1 | `NoSendOnClosed`, `AllReturn`, refinement of `RecordLog` |
| `scenario` | 2 workers, 4 stage lists of closed-loop and open-loop runs | `TypeOK`, `AlignedUnlessAborted`, `StampsComplete`, `WarmupNotMeasured`, `Terminates` |
| `configuration` | Starlark lists of up to 3 entries (about 230), 29 JSON documents, API and command line, 1 to 3 workers | `AdmittedRuns`, `PlanExactWhenUniform`, `StopsOnlyWhenCongested` |
| `control_plane` | 2 clients, 1 cancel, 2 specifications in one or two directories, 1 fault | `TypeOK`, `OneSpecification`, `OneSource`, `ServiceOfRun`, `NoStaleRerun`, `EveryClientAnswered` |
| `results` | 2 workers, 4 evaluations of up to 3 questions, 1 killed worker, 3 time points | `TypeOK`, `EachItemOnce`, `EvalComplete`, `OwnWindow`, `ExactWindow`, `AgreesWithAnalyze` |

`StreamPool`, `RateStages` and `Recorder` have a proved type invariant and further
proved properties (section 4) that no run repeats.

Three runs check what a document, a comment or a test says of the code and are
refuted:

| Run | Says | What happens |
|---|---|---|
| `scenario_barriers` | `starlark.go:328`, a barrier "marks a synchronization point in the stage list" | a generator that gave up skips the barriers its run still had; its worker then meets the others under a number that means another barrier |
| `control_plane_cancel` | `mcp_test.go:503`, a cancel must not delete "a Service with changed ownership" | only the fingerprint is compared: the Service of the same specification, submitted again and owned by a new Job, is deleted |
| `configuration_plan` | `src/README.md:364`, plans "show exact total/per-worker load" | stages that differ in rate share a generator, which has the rate of the first |

### Divergences built into the models

The models follow the code where it does not do what its comments say. No run states
these; the properties above hold with them, and some name them as an exception.

* A stage with `max_requests` after an unlimited one may send more: a stream carried
  over first sends the conversation it prefetched there (`generator.go:464`). Hence
  *fresh* in `ExactWhenFresh`.
* Shrinking the pool cuts requests in flight, which are then not recorded
  (`generator.go:144`; the comment at 104 says that they finish).
* The conversation pool's driver does not wait for its streams after an interrupt
  (`conversation_pool.go:183`), so a result may reach a recorder that is closed.
* A worker whose connection breaks after it registered at a barrier is answered 409
  when it retries, and gives up (`server.go:106`, `client.go:88`).
* A share of `max_inflight` that is rounded down to zero means no cap
  (`common.go:369`, `generator.go:357`). Hence *positive share* in `InFlightCapped`.
* A warmup made from a JSON document has no rate: in an open-loop run the API
  rejects it and the command line sends nothing in the whole run
  (`scenario.go:109`, `common.go:363`).
* The API admits `until_congested()` and, in JSON, the GSM8K workload without a file of
  examples; both fail in the Job (`generate.go:100`, `common.go:75`). `AdmittedRuns`
  names the two.
* A submission that fails in its result directory takes back the index entry that it
  made, although another may rely on it (`mcp_runs.go:250`). Hence `removed` in
  `OneSpecification` and `NoStaleRerun`; `OneSource` holds all the same.
* When the workers' windows have no common part, a report counts all requests and
  `analyze` those in the empty window (`mcp_report.go:234`, `stats.go:146`). Hence
  `NeverTogether` in `AgreesWithAnalyze`; of a timestamps file that is half written
  both make the same.
* A stage whose generator gave up is not stamped, and the next run's first stage
  overwrites its start (`common.go:470`). Hence `aborted` in `StampsComplete`.
* In an evaluation a worker without questions fails on its first request
  (`gsm8k.go:129`), and one without a stream waits for the time limit.

### Bounds

* Stage lists are chosen so that a pool grows, shrinks, is drained and is carried
  over, a limit is below and above the concurrency, and a stage follows a barrier
  of either kind. A race needs two fills on one counter, and a third stream lets
  one be cancelled meanwhile.
* `MaxPending` bounds the recording goroutines: a request's answer waits while
  that many are alive. The real number is unbounded, and more of them do the same
  thing independently. Likewise `Streams` and `Slots`: a new goroutine waits for a
  free slot. The slots exceed the largest concurrency or cap of the lists, except
  for the uncapped list of `rate_stages`, where three conversations overlap.
* `ErrorLimit` is 2 instead of 5, `CompactAt` 1 instead of 1024: both are reached.
* `NConvs` is the largest pool; an id is reused once its conversation is over.
* `Retries` and `MaxLosses` bound the faults of `Barrier`. `Agreement` holds while
  fewer connections than workers are lost, and this is tight: when every worker's
  connection has broken once, their ghost registrations can fill a second state
  under the same id, and two workers may pass one barrier with different start
  times (2 workers with 2 losses are enough).
* `Configuration`: a list of three entries is enough for a warmup, a barrier and a
  stage, for a run that ends and one that begins again, and, with the implicit
  barrier, for a shift of the numbers. Three workers leave remainders in every
  division. `StreamsPerWorker` is 2 instead of 1024, `MaxConcurrency` 8 and
  `MaxStages` 3: all three are exceeded by some source.
* `ControlPlane`: two clients and a cancel make every pair of steps interleave, with
  the same and with different specifications, in one and in two directories.
  `MaxFaults` is 1; a client calls again after every error. Names that are taken by
  resources the server does not manage are among the initial states.
* `Results`: up to three questions on two workers (2 and 1, 1 and 1, 1 and 0, and one
  stream for two workers), windows that overlap, touch or miss each other within
  three time points, and a report limit below and at the number of records. A run is
  followed until its report, which nothing changes afterwards.
* `Scenario` has one stream and at most one unrecorded result per worker, which is
  enough for a result to be written under the next stage's recorder. Its stage
  lists have at most four entries, the implicit barrier apart, and together they
  hold a drained and an undrained barrier, warmup in both modes, a sweep that may
  stop early, and two runs with different workloads.

### Fairness

Weak fairness of each goroutine's own steps: Go's scheduler runs every runnable
goroutine and its timers fire. The driver's fairness includes the timers of its
selects. In `Barrier` it is the clients' tries, the handlers and the leader's
start of listening; losses, timeouts and the leader's exit are never fair. No run
assumes that the inference server answers: `Terminates` and `CancelStops` hold
although a request may stay open until its context ends. In `Scenario` a worker
waits for its server without a timer until it is ready (`openai.go:125`), while the
tokens of a run's own dataset are counted, and at the end of an open-loop stage.
`WaitsForServer` names the three waits; the driver's steps are fair outside them
only, and a signal ends each. `Terminates` is stated worker by worker: one ends
unless it is in such a wait for ever, even if its peers are. The timers of
barriers and stages are fair, errors and signals are not. `AllPass` is about
runs without a fault. In `ControlPlane` the server works off the calls it has
accepted, a client whose call failed calls again, and Kubernetes' garbage collector
runs; nobody need cancel, and Jobs need not start or end.

Deadlock is checked in every run; a finished system stutters explicitly
(`Returned`, `Ended`, `Done`), and the finished recorder still answers `Records`.

## 4. Proofs

All safety theorems have the form `Spec => []P` and follow from one inductive
invariant `IInv` per module, proved action by action. Their assumptions are the
`ASSUME`s of the modules (finite sets of goroutines, positive bounds, well-formed
stage lists, the record types of scenarios), which TLC evaluates on every run. They hold for every stage list,
number of goroutines and bound, so they do not depend on the instances of
section 3.

* **`StreamPoolProofs`**: `TypeCorrect`, `ReservationsAreBounded`,
  `FillsNeverBlock`, `ConcurrencyIsCapped`, `EndsQuiescent` and the action property
  `FreshStagesAreExact`. `IInv` adds: a fill
  about to swap a counter has seen a value below the limit (`CounterInv`, which
  is why a successful swap cannot pass it); a fill runs only while its channel is
  empty (`ChannelInv`); the pool lists live streams only, and a live stream it
  does not list is cancelled (`PoolInv`, which turns the size of the map into a
  bound on running streams); and what each wait of the driver establishes
  (`DrainInv`). That a stage is exact is an account of its reservations (`OwnInv`):
  in a stage that took over nothing and that nothing cancelled, each is a conversation
  begun or one in a channel, and no stream leaves with a full channel; `OrderInv` says
  that its counter was still zero when it was stored.
* **`RateStagesProofs`**: `TypeCorrect`, `InFlightIsCapped`, `StagesDrain`,
  `DispatchIsExact`, `ConversationsRunOut`. The cap is not inductive: `SemInv`
  says how many tokens the semaphore holds at each point of the dispatch loop
  (one more than the running conversations between acquire and dispatch, at least
  as many during the drain, because a token taken as the stage ends is never given
  back). `LimitInv` says on which side of the limit the counter is, `TurnsInv` that
  a conversation in progress has a turn left.
  In the same module, about `RecorderSpec`: `RecorderTypeCorrect`,
  `NeverSendsOnClosed`, `CloseKeepsAccepted` and the refinement
  `RecorderImplementsLog`. `KeptInv`: an accepted record is in
  memory, in `drain`'s hand or in the channel; `DoneInv`: `drain` ends with both
  empty, and a `Close` returns only after it.
* **`ConversationPoolProofs`**: `TypeCorrect`, `ConversationsAreExclusive`,
  `AlwaysReady`, `OldestGoesFirst` and the action property `RequestsAreExact`. That
  the queue is never empty when it is needed is a matter of counting: `SupplyInv`
  bounds the queue from below by the streams without a conversation as long as
  conversations are replaced, and by the reservations not yet made when a stage
  starts with one conversation per request; `SizeInv` bounds it, with what the
  streams hold, from above by the pool. `RotationInv` ties how often a conversation
  was passed over to its place in the queue, which is why first-in first-out means
  least recently used. `ReservedInv` relates reservations to requests sent.
* **`BarrierProofs`**: `TypeCorrect`, `NobodyGoesAhead`, `StartTimesAgree`. `ReadyInv`
  says that who is registered at a barrier has reached it and that a start time stands
  for a state in which all are registered; `HandlerInv` that a call works for a barrier
  its worker has reached, and that a client listens to one call at a time. `Agreement`
  is not about any one step: a second start time needs a second state under the same
  id, filled by workers that are all registered in the first one too. `GhostInv` says
  that the workers that are, or are about to be, registered twice are at most as many
  as the lost connections, so with fewer losses than workers one is missing.
* **`ScenarioProofs`**: `TypeCorrect`, `WorkersMeet`, `EveryStageStamped`,
  `WarmupStaysOut`. `Place` says where in its run a worker is at each point of the
  program. `Numbered`: a worker that nothing has stopped has passed every barrier
  before its stage, so the number it registers under determines the stage; any
  cancellation on the way forbids it to register again. `Stamped`: what is started
  and not stamped is the current stage, or the one a cancelled context interrupted
  (`Context`: only a generator that gave up is cancelled on its own, which is the
  exception in both properties). `Flight`: the load of a stage lives until the next
  draining barrier, in an open-loop run only as long as the stage, and when the main
  recorder is set a measured stage has started since; together with the grouping
  (`RunUnique`) this excludes a record of an isolated warmup.
* **`ControlPlaneProofs`**: `TypeCorrect`, `RunIdHasOneSpecification`,
  `DirectoryHasOneSource`, `JobKeepsService`, `FinishedRunsStay`, for any number of
  concurrent calls and faults. `ManifestInv`: whatever has got as far as Kubernetes has
  its manifest in its directory, which is what keeps a directory to one source even
  after an index entry was taken back; `IndexInv`: past the index entry a submission's
  specification is the entry's; `StaleInv`: a submission that began on old artifacts
  never gets to create a Job; `OwnerInv`: a UID names one Job, and every call at work
  for an uncontested Job has its UID.
* **`ResultsProofs`**: `TypeCorrect`, `QuestionsAskedOnce`, `EvaluationsAreComplete`,
  `RecordsInOwnWindow`, `ReportsAreExact`, `ReportsAgreeWithAnalyze`, for any dataset
  and number of workers. The slices come first: consecutive ones meet, the last ends
  with the dataset, so every question is in exactly one (`SliceStart`, `SliceSize`).
  `ItemInv`: what a worker is asking or has recorded are the questions it was handed
  out, each once; `EndInv`: a worker that ended by itself has recorded its slice;
  `TimeInv`: every record ends before the worker's end is stamped. `ReportInv` is
  about the gap between listing the files and reading them: what is listed stays,
  and a report that saw every worker ended read what `analyze` reads. The common
  window is a maximum and a minimum over the workers, and the two summaries then
  select the same records.
* **`ConfigurationProofs`**: `AdmittedScenariosRun`, `PlansAreExact`,
  `SweepsStopWhenCongested`, for every list of stages and number of workers. `TypeInv`
  includes what every parser gives a list (`Shape`); `AdmitInv` what each check of the
  API leaves true until the Job runs (`Filled`: pools have their size, `Bounded`:
  every load stage has something to send); `RunInv` where the worker is, that every
  stage since the start of its run could extend the run, and that in a uniform
  scenario the m-th load it sent is the planned load of the m-th load stage. That one
  needs that a run's parameters are those of each of its stages when they agree.
  Here too `SharesAddUp`, `SharesBalanced`, `DivisionMonotone` and `AutoWorkersFit`,
  for all totals and numbers of workers. `DivisionMonotone` is what lets `Validate`
  compare the configured totals only, while each worker's conversation pool needs its
  own share to be large enough.

TLC checks such an invariant before it is proved: `IInv` of `ResultsProofs` and of
`ConfigurationProofs`, and `OwnInv` and `OrderInv`, hold on the instances of section 3.

Only model-checked: liveness (`Terminates`, `AllReturn`, `AllPass`, `CancelStops`,
`EveryClientAnswered`), since fairness and ENABLED are out of the prover's reach, and
the three refutations, which are counterexamples. Every other property of every run is
a theorem. Induction over data is out of reach as well; no property needs it, because
the models use positions, counts and sets where the code has loops.

## 5. Not modelled

* The text of datasets and the matching of answers, event-stream parsing, metrics,
  Prometheus queries, percentiles and the per-stage table: functions of text or
  floating-point numbers. A conversation is its number of turns or its item; a
  response is one of three outcomes; a signal has reached its threshold or not.
* Arrival times and ramps: an arrival, a timeout or a rampup delay may come at any
  moment, which includes every schedule the code computes.
* Kubernetes itself is external: Job controller, garbage collector and expiry are
  modelled as the control API relies on them.
* The MCP transport and its two protocol versions, authentication, the read-only
  calls that get and list runs, and the checks of names, images, resources, mounts
  and addresses in a request: they change no state, and no property above depends
  on them.
* Kubernetes templates, `kubectl` deployment, the mock server, the corpus command,
  scripts: I/O without state of their own.
* The recorder's file is a second sequence that may miss lines (write errors are
  ignored by the code); JSON encoding is left out.

## 6. Plan

Modelled: the generators, barrier, recorder, load division, scenario runner,
configuration and planning, the control API's runs and reports, evaluation and
analysis. Proved: the safety properties of all of them. Liveness stays with TLC.

Candidates for more: the per-stage statistics of `pkg/analysis/stage.go` over an
abstract order of values, and the mock server as an environment for the generators.
