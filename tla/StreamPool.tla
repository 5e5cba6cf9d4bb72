----------------------------- MODULE StreamPool -----------------------------
(***************************************************************************)
(* The closed-loop load generator (pkg/loadgen/generator.go): one driver   *)
(* goroutine walks a list of stages (RunStagesUntil) over a pool of        *)
(* request streams that it resizes between stages (streamPool.Resize).     *)
(* Every stream (runStream) sends one conversation after another and has a *)
(* helper goroutine (fill) that prefetches the next one and, in a stage    *)
(* with max_requests, reserves it against the stage's shared counter.      *)
(* A request's result is handed to a recordResult goroutine that the       *)
(* driver awaits through recordWG.                                         *)
(***************************************************************************)
EXTENDS Integers, Sequences, FiniteSets

CONSTANTS
  Streams,      \* stream slots; a slot is reused once its goroutines ended
  Plans,        \* the stage lists to run
  MaxTurns,     \* turns of the longest conversation of the dataset
  ErrorLimit,   \* defaultMaxConsecutiveErrors
  MaxPending    \* bound: recordResult goroutines alive at a time

\* A Stage: a load stage, or a barrier that keeps or drains the pool.
Stage == [kind : {"load", "barrier", "drain"}, conc : Nat, max : Nat, rampup : BOOLEAN]

ASSUME StreamsAssumption == IsFiniteSet(Streams)
ASSUME PlansAssumption == Plans \subseteq Seq(Stage)
ASSUME BoundsAssumption ==
  /\ MaxTurns \in Nat \ {0}
  /\ ErrorLimit \in Nat \ {0}
  /\ MaxPending \in Nat \ {0}

VARIABLES
  plan,       \* the stages this generator runs
  i,          \* the driver's index into plan
  phase,      \* where the driver is
  ctxDone,    \* the run's context is cancelled
  cur,        \* g.maxReqState: the stage whose counter new fills load
  count,      \* maxRequestsState.count of every stage
  done,       \* maxRequestsState.done is closed
  pc,         \* where each stream is
  streams,    \* streamPool.streams: the streams the pool still lists
  cancelled,  \* streams whose own context was cancelled
  left,       \* turns left in the conversation a stream is running
  prefetch,   \* the one-slot prefetch channel of each stream
  fill,       \* the fill goroutine of each stream
  errors,     \* g.consecutiveErrors
  pending,    \* recordResult goroutines counted by recordWG
  \* Observation only: no action reads them.
  granted,    \* reservations each stage's counter has handed out
  begun,      \* conversations begun since the current counter was stored
  fresh       \* no stream and no fill was alive when it was stored

driverVars == <<plan, i, phase>>
counterVars == <<cur, count, done>>
streamVars == <<pc, streams, cancelled, left, prefetch>>
history == <<granted, begun, fresh>>
vars == <<driverVars, ctxDone, counterVars, streamVars, fill, errors, pending, history>>

Phases == {"top", "barrierStop", "barrierFlush", "barrier", "onStage", "wait",
           "drain", "drainStop", "complete", "finalStop", "flush", "end"}
StreamPhases == {"unused", "delay", "select", "sent", "exited"}

\* The prefetch channel is empty, holds the exhausted marker, or holds a
\* conversation reserved under the counter of stage 1, 2, ...
Empty == 0
Exhausted == -1

\* The fill goroutine: not running; about to load g.maxReqState; about to read
\* the counter st; about to compare-and-swap it from seen.
Idle == [at |-> "idle", st |-> 0, seen |-> 0]
Starting == [at |-> "load", st |-> 0, seen |-> 0]
Read(k) == [at |-> "read", st |-> k, seen |-> 0]
Cas(k, n) == [at |-> "cas", st |-> k, seen |-> n]
FillStates == [at : {"idle", "load", "read", "cas"}, st : Nat, seen : Nat]

Limit(k) == plan[k].max
Cancelled(s) == ctxDone \/ s \in cancelled
Live(s) == pc[s] # "unused"
AllGone == \A s \in Streams : ~Live(s)          \* streamPool.wg.Wait returns
Free == {s \in Streams : ~Live(s) /\ fill[s] = Idle}
LesserOf(a, b) == IF a < b THEN a ELSE b

-----------------------------------------------------------------------------
(* The driver: RunStagesUntil.                                             *)

\* Mutants of the driver's parts.
NoCancelPool == UNCHANGED <<streams, cancelled>>

\* Stop and Resize cancel a stream and forget it in one critical section.
CancelPool ==
  /\ cancelled' = cancelled \cup streams
  /\ streams' = {}

\* Top of the loop: leave it when the context is done or the plan is over.
LeaveLoop ==
  /\ phase = "top"
  /\ ctxDone \/ i > Len(plan)
  /\ CancelPool
  /\ phase' = "finalStop"
  /\ UNCHANGED <<plan, i, ctxDone, counterVars, pc, left, prefetch, fill, errors, pending, history>>

\* A drain barrier stops the pool and waits for the records; a plain one does not.
EnterBarrier ==
  /\ phase = "top" /\ ~ctxDone /\ i <= Len(plan)
  /\ \/ /\ plan[i].kind = "drain"
        /\ CancelPool
        /\ phase' = "barrierStop"
     \/ /\ plan[i].kind = "barrier"
        /\ phase' = "barrier"
        /\ UNCHANGED <<streams, cancelled>>
  /\ UNCHANGED <<plan, i, ctxDone, counterVars, pc, left, prefetch, fill, errors, pending, history>>

BarrierStopped ==
  /\ phase = "barrierStop"
  /\ AllGone
  /\ phase' = "barrierFlush"
  /\ UNCHANGED <<plan, i, ctxDone, counterVars, streamVars, fill, errors, pending, history>>

BarrierFlushed ==
  /\ phase = "barrierFlush"
  /\ pending = 0
  /\ phase' = "barrier"
  /\ UNCHANGED <<plan, i, ctxDone, counterVars, streamVars, fill, errors, pending, history>>

\* onBarrier returns; when the sync failed it has cancelled the run's context.
OnBarrier ==
  /\ phase = "barrier"
  /\ UNCHANGED ctxDone \/ ctxDone' = TRUE
  /\ phase' = "top"
  /\ i' = i + 1
  /\ UNCHANGED <<plan, counterVars, streamVars, fill, errors, pending, history>>

\* g.maxReqState.Store(state): fills that run from now on use the new counter.
StoreState ==
  /\ phase = "top" /\ ~ctxDone /\ i <= Len(plan)
  /\ plan[i].kind = "load"
  /\ cur' = i
  /\ phase' = "onStage"
  /\ begun' = 0
  /\ fresh' = (Free = Streams)
  /\ UNCHANGED <<plan, i, ctxDone, count, done, streamVars, fill, errors, pending, granted>>

\* Mutant: start target streams whatever the pool already holds.
GrowFromZero(target) == target

\* How many streams Resize starts.
NewCount(target) == target - Cardinality(streams)

\* Slots are anonymous, so which free ones the new streams take is immaterial.
HasSome(S, n) == \E T \in SUBSET S : Cardinality(T) = n
SomeOf(S, n) == CHOOSE T \in SUBSET S : Cardinality(T) = n

\* onStage returns and Resize starts the missing streams, the first at once and
\* the others after their rampup delay ...
Grow ==
  /\ phase = "onStage"
  /\ NewCount(plan[i].conc) >= 0
  /\ HasSome(Free, NewCount(plan[i].conc))
  /\ LET new == SomeOf(Free, NewCount(plan[i].conc))
         delayed == IF plan[i].rampup THEN new \ {CHOOSE s \in new : TRUE} ELSE {}
     IN /\ pc' = [s \in Streams |->
                     CASE s \in delayed -> "delay"
                       [] s \in new \ delayed -> IF ctxDone THEN "exited" ELSE "select"
                       [] OTHER -> pc[s]]
        /\ fill' = [s \in Streams |-> IF s \in new \ delayed THEN Starting ELSE fill[s]]
        /\ streams' = streams \cup new
  /\ phase' = "wait"
  /\ UNCHANGED <<plan, i, ctxDone, counterVars, cancelled, left, prefetch, errors, pending, history>>

\* ... or cancels the excess ones, in the map's iteration order.
Shrink ==
  /\ phase = "onStage"
  /\ NewCount(plan[i].conc) < 0
  /\ \E out \in SUBSET streams :
       /\ Cardinality(out) = -NewCount(plan[i].conc)
       /\ cancelled' = cancelled \cup out
       /\ streams' = streams \ out
  /\ phase' = "wait"
  /\ UNCHANGED <<plan, i, ctxDone, counterVars, pc, left, prefetch, fill, errors, pending, history>>

\* The stage's duration elapses, or the context ends.
StageOver ==
  /\ phase = "wait"
  /\ phase' = "complete"
  /\ UNCHANGED <<plan, i, ctxDone, counterVars, streamVars, fill, errors, pending, history>>

\* All the stage's requests are reserved: wait for the streams to run dry.
StageExhausted ==
  /\ phase = "wait"
  /\ Limit(i) > 0 /\ done[i]
  /\ phase' = "drain"
  /\ UNCHANGED <<plan, i, ctxDone, counterVars, streamVars, fill, errors, pending, history>>

DrainDone ==
  /\ phase = "drain"
  /\ AllGone
  /\ phase' = "complete"
  /\ UNCHANGED <<plan, i, ctxDone, counterVars, streamVars, fill, errors, pending, history>>

\* The context ended or two minutes passed: cancel the streams and wait again.
DrainGivenUp ==
  /\ phase = "drain"
  /\ CancelPool
  /\ phase' = "drainStop"
  /\ UNCHANGED <<plan, i, ctxDone, counterVars, pc, left, prefetch, fill, errors, pending, history>>

DrainStopped ==
  /\ phase = "drainStop"
  /\ AllGone
  /\ phase' = "complete"
  /\ UNCHANGED <<plan, i, ctxDone, counterVars, streamVars, fill, errors, pending, history>>

\* onStageComplete lets the run go on (or was not asked, the context being done).
NextStage ==
  /\ phase = "complete"
  /\ phase' = "top"
  /\ i' = i + 1
  /\ UNCHANGED <<plan, ctxDone, counterVars, streamVars, fill, errors, pending, history>>

\* onStageComplete returns false: leave the loop.
StopEarly ==
  /\ phase = "complete"
  /\ ~ctxDone
  /\ CancelPool
  /\ phase' = "finalStop"
  /\ UNCHANGED <<plan, i, ctxDone, counterVars, pc, left, prefetch, fill, errors, pending, history>>

FinalStopped ==
  /\ phase = "finalStop"
  /\ AllGone
  /\ phase' = "flush"
  /\ UNCHANGED <<plan, i, ctxDone, counterVars, streamVars, fill, errors, pending, history>>

\* Mutant: return without waiting for recordWG.
ReturnUnflushed ==
  /\ phase = "flush"
  /\ phase' = "end"
  /\ ctxDone' = TRUE
  /\ UNCHANGED <<plan, i, counterVars, streamVars, fill, errors, pending, history>>

\* recordWG.Wait returns, the deferred cancel runs, RunStagesUntil returns.
Return ==
  /\ phase = "flush"
  /\ pending = 0
  /\ phase' = "end"
  /\ ctxDone' = TRUE
  /\ UNCHANGED <<plan, i, counterVars, streamVars, fill, errors, pending, history>>

\* The caller cancels the run (a signal, or its wall-clock limit).
Interrupt ==
  /\ phase # "end"
  /\ ~ctxDone
  /\ ctxDone' = TRUE
  /\ UNCHANGED <<driverVars, counterVars, streamVars, fill, errors, pending, history>>

Driver ==
  \/ LeaveLoop \/ EnterBarrier \/ BarrierStopped \/ BarrierFlushed \/ OnBarrier
  \/ StoreState \/ Grow \/ Shrink \/ StageOver \/ StageExhausted
  \/ DrainDone \/ DrainGivenUp \/ DrainStopped \/ NextStage \/ StopEarly
  \/ FinalStopped \/ Return

-----------------------------------------------------------------------------
(* A stream: the goroutine Resize starts, running runStream.               *)

\* Back at the head of runStream's loop, which looks at the context first.
LoopHead(stopped) == IF stopped THEN "exited" ELSE "select"

\* The rampup delay is over: seed the prefetch channel and enter the loop.
Begin(s) ==
  /\ pc[s] = "delay"
  /\ fill' = [fill EXCEPT ![s] = Starting]
  /\ pc' = [pc EXCEPT ![s] = LoopHead(Cancelled(s))]
  /\ UNCHANGED <<driverVars, ctxDone, counterVars, streams, cancelled, left, prefetch, errors, pending, history>>

\* Mutant: a stream also leaves as soon as the stage's requests are all reserved.
GiveUpWhenReserved(s) ==
  /\ pc[s] \in {"delay", "select"}
  /\ Cancelled(s) \/ done[cur]
  /\ pc' = [pc EXCEPT ![s] = "exited"]
  /\ UNCHANGED <<driverVars, ctxDone, counterVars, streams, cancelled, left, prefetch, fill, errors, pending, history>>

\* Cancelled during the delay, or while waiting for the prefetched conversation.
GiveUp(s) ==
  /\ pc[s] \in {"delay", "select"}
  /\ Cancelled(s)
  /\ pc' = [pc EXCEPT ![s] = "exited"]
  /\ UNCHANGED <<driverVars, ctxDone, counterVars, streams, cancelled, left, prefetch, fill, errors, pending, history>>

\* The prefetched conversation arrives: refill the channel and send its first
\* request (a chat conversation looks at the context before it does).
Take(s) ==
  /\ pc[s] = "select"
  /\ prefetch[s] > Empty
  /\ prefetch' = [prefetch EXCEPT ![s] = Empty]
  /\ fill' = [fill EXCEPT ![s] = Starting]
  /\ \/ \E turns \in 1..MaxTurns :
          /\ pc' = [pc EXCEPT ![s] = "sent"]
          /\ left' = [left EXCEPT ![s] = turns]
          /\ begun' = LesserOf(begun + 1, Limit(cur) + 1)
     \/ /\ Cancelled(s)
        /\ pc' = [pc EXCEPT ![s] = "exited"]
        /\ UNCHANGED <<left, begun>>
  /\ UNCHANGED <<driverVars, ctxDone, counterVars, streams, cancelled, errors, pending, granted, fresh>>

\* The exhausted marker arrives: runStream returns.
TakeExhausted(s) ==
  /\ pc[s] = "select"
  /\ prefetch[s] = Exhausted
  /\ prefetch' = [prefetch EXCEPT ![s] = Empty]
  /\ pc' = [pc EXCEPT ![s] = "exited"]
  /\ UNCHANGED <<driverVars, ctxDone, counterVars, streams, cancelled, left, fill, errors, pending, history>>

\* trackRequestStatus: enough errors in a row cancel the whole run.
TrackRequestStatus(failed) ==
  /\ errors' = IF failed THEN LesserOf(errors + 1, ErrorLimit) ELSE 0
  /\ ctxDone' = (ctxDone \/ (failed /\ errors + 1 >= ErrorLimit))

\* The server answered: the result is recorded in the background, and the
\* conversation's next turn is sent unless the context has ended.
RespondOk(s) ==
  /\ pc[s] = "sent"
  /\ pending < MaxPending
  /\ TrackRequestStatus(FALSE)
  /\ pending' = pending + 1
  /\ LET more == left[s] > 1 /\ ~Cancelled(s)
     IN /\ pc' = [pc EXCEPT ![s] = IF more THEN "sent" ELSE LoopHead(Cancelled(s))]
        /\ left' = [left EXCEPT ![s] = IF more THEN @ - 1 ELSE 0]
  /\ UNCHANGED <<driverVars, counterVars, streams, cancelled, prefetch, fill, history>>

\* The request failed: recorded too, and the conversation is abandoned.
RespondError(s) ==
  /\ pc[s] = "sent"
  /\ pending < MaxPending
  /\ TrackRequestStatus(TRUE)
  /\ pending' = pending + 1
  /\ pc' = [pc EXCEPT ![s] = LoopHead(ctxDone' \/ s \in cancelled)]
  /\ left' = [left EXCEPT ![s] = 0]
  /\ UNCHANGED <<driverVars, counterVars, streams, cancelled, prefetch, fill, history>>

\* The context ended first: no error, no finish reason, nothing recorded.
RespondCut(s) ==
  /\ pc[s] = "sent"
  /\ Cancelled(s)
  /\ TrackRequestStatus(FALSE)
  /\ pc' = [pc EXCEPT ![s] = "exited"]
  /\ left' = [left EXCEPT ![s] = 0]
  /\ UNCHANGED <<driverVars, counterVars, streams, cancelled, prefetch, fill, pending, history>>

\* runStream returned: leave the pool's map and its wait group. The channel is
\* garbage from here on, though a fill may still be about to send into it.
Exit(s) ==
  /\ pc[s] = "exited"
  /\ pc' = [pc EXCEPT ![s] = "unused"]
  /\ streams' = streams \ {s}
  /\ cancelled' = cancelled \ {s}
  /\ prefetch' = [prefetch EXCEPT ![s] = Empty]
  /\ left' = [left EXCEPT ![s] = 0]
  /\ UNCHANGED <<driverVars, ctxDone, counterVars, fill, errors, pending, history>>

-----------------------------------------------------------------------------
(* The fill goroutine of a stream.                                         *)

Put(s, item) ==
  /\ prefetch' = [prefetch EXCEPT ![s] = IF Live(s) THEN item ELSE Empty]
  /\ fill' = [fill EXCEPT ![s] = Idle]

\* Load g.maxReqState; without a limit there is nothing to reserve.
FillLoad(s) ==
  /\ fill[s].at = "load"
  /\ IF Limit(cur) > 0
     THEN /\ fill' = [fill EXCEPT ![s] = Read(cur)]
          /\ UNCHANGED prefetch
     ELSE Put(s, cur)
  /\ UNCHANGED <<driverVars, ctxDone, counterVars, pc, streams, cancelled, left, errors, pending, history>>

\* Read the counter; at the limit, close done and send the exhausted marker.
FillRead(s) ==
  /\ fill[s].at = "read"
  /\ LET k == fill[s].st
     IN IF count[k] >= Limit(k)
        THEN /\ done' = [done EXCEPT ![k] = TRUE]
             /\ Put(s, Exhausted)
        ELSE /\ fill' = [fill EXCEPT ![s] = Cas(k, count[k])]
             /\ UNCHANGED <<done, prefetch>>
  /\ UNCHANGED <<driverVars, ctxDone, cur, count, pc, streams, cancelled, left, errors, pending, history>>

\* CompareAndSwap(cur, cur+1): on success send the conversation, else read again.
FillCas(s) ==
  /\ fill[s].at = "cas"
  /\ LET k == fill[s].st
     IN IF count[k] = fill[s].seen
        THEN /\ count' = [count EXCEPT ![k] = @ + 1]
             /\ granted' = [granted EXCEPT ![k] = @ + 1]
             /\ Put(s, k)
        ELSE /\ fill' = [fill EXCEPT ![s] = Read(k)]
             /\ UNCHANGED <<count, granted, prefetch>>
  /\ UNCHANGED <<driverVars, ctxDone, cur, done, pc, streams, cancelled, left, errors, pending, begun, fresh>>

\* A recordResult goroutine hands its record to the recorder and ends.
RecordResult ==
  /\ pending > 0
  /\ pending' = pending - 1
  /\ UNCHANGED <<driverVars, ctxDone, counterVars, streamVars, fill, errors, history>>

\* RunStagesUntil has returned.
Returned == phase = "end" /\ UNCHANGED vars

-----------------------------------------------------------------------------
Init ==
  /\ plan \in Plans
  /\ i = 1
  /\ phase = "top"
  /\ ctxDone = FALSE
  /\ cur = 0
  /\ count = [k \in 1..Len(plan) |-> 0]
  /\ done = [k \in 1..Len(plan) |-> FALSE]
  /\ pc = [s \in Streams |-> "unused"]
  /\ streams = {}
  /\ cancelled = {}
  /\ left = [s \in Streams |-> 0]
  /\ prefetch = [s \in Streams |-> Empty]
  /\ fill = [s \in Streams |-> Idle]
  /\ errors = 0
  /\ pending = 0
  /\ granted = [k \in 1..Len(plan) |-> 0]
  /\ begun = 0
  /\ fresh = FALSE

\* What a stream does without the server's help; a cancelled request returns.
StreamStep(s) ==
  Begin(s) \/ GiveUp(s) \/ Take(s) \/ TakeExhausted(s) \/ RespondCut(s) \/ Exit(s)

ServerStep(s) == RespondOk(s) \/ RespondError(s)

FillStep(s) == FillLoad(s) \/ FillRead(s) \/ FillCas(s)

Next ==
  \/ Driver
  \/ Interrupt
  \/ \E s \in Streams : StreamStep(s) \/ ServerStep(s) \/ FillStep(s)
  \/ RecordResult
  \/ Returned

Spec == Init /\ [][Next]_vars

\* Go schedules every runnable goroutine and its timers fire, so the driver, the
\* streams, the fills and the recorders make progress. Nothing is assumed of the
\* server: a request may hang until its context is cancelled.
Fairness ==
  /\ WF_vars(Driver)
  /\ WF_vars(RecordResult)
  /\ \A s \in Streams : WF_vars(StreamStep(s)) /\ WF_vars(FillStep(s))

FairSpec == Spec /\ Fairness

-----------------------------------------------------------------------------
(* Properties.                                                             *)

\* Every variable keeps its type, and the prefetch channel and the fill
\* goroutines only name stages of the plan (generator.go:47-94, 455-481).
TypeOK ==
  /\ plan \in Plans
  /\ i \in 1..(Len(plan) + 1)
  /\ phase \in Phases
  /\ ctxDone \in BOOLEAN
  /\ cur \in 0..Len(plan)
  /\ count \in [1..Len(plan) -> Nat]
  /\ done \in [1..Len(plan) -> BOOLEAN]
  /\ pc \in [Streams -> StreamPhases]
  /\ streams \subseteq Streams
  /\ cancelled \subseteq Streams
  /\ left \in [Streams -> 0..MaxTurns]
  /\ prefetch \in [Streams -> {Empty, Exhausted} \cup 1..Len(plan)]
  /\ fill \in [Streams -> FillStates]
  /\ \A s \in Streams : fill[s].at \in {"read", "cas"} => fill[s].st \in 1..Len(plan)
  /\ errors \in 0..ErrorLimit
  /\ pending \in 0..MaxPending
  /\ granted \in [1..Len(plan) -> Nat]
  /\ begun \in Nat
  /\ fresh \in BOOLEAN

\* However many fills race on a stage's counter, it never hands out more than
\* max_requests reservations, and done is closed only once it has handed out
\* all of them (the compare-and-swap loop of runStream's fill, 463-481).
ReservationsBounded ==
  \A k \in 1..Len(plan) :
    Limit(k) > 0 => /\ granted[k] <= Limit(k)
                    /\ done[k] => granted[k] = Limit(k)

\* A stream has at most one fill at work and never one with the channel full, so
\* no fill blocks forever on the one-slot channel, not even the fill of a stream
\* that has already returned (runStream, 460-506).
FillNeverBlocks ==
  \A s \in Streams : fill[s] # Idle => prefetch[s] = Empty

\* While a stage runs, no more streams than its concurrency are alive and not
\* yet told to stop, whatever the earlier stages left behind (Resize, 107-150).
ConcurrencyCap ==
  phase \in {"wait", "drain"} =>
    Cardinality({s \in Streams : Live(s) /\ s \notin cancelled}) <= plan[i].conc

\* When RunStagesUntil returns, and when workers meet at a drain barrier, no
\* stream is alive and every recorded result has reached the recorder: nothing
\* is measured across the barrier and nothing written after the recorder is
\* closed (212-215, 267-268).
Quiescent ==
  phase = "end" \/ (phase = "barrier" /\ plan[i].kind = "drain") =>
    AllGone /\ pending = 0

\* A stage that starts with no stream or fill left over and whose drain ends by
\* itself has begun exactly max_requests conversations: an evaluation run sends
\* every item of its partition, none twice (225-255, 463-506).
ExactWhenFresh ==
  [][(phase = "drain" /\ phase' = "complete" /\ fresh /\ ~ctxDone)
       => begun = Limit(i)]_vars

\* RunStagesUntil returns, even when the server stops answering: every wait of
\* the driver has a timer or a cancelled context behind it (236-268).
Terminates == <>(phase = "end")

=============================================================================
