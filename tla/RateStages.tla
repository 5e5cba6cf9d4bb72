----------------------------- MODULE RateStages -----------------------------
(***************************************************************************)
(* The open-loop load generator (pkg/loadgen/generator.go,                 *)
(* runRateBasedStages and runRateBased) in one worker of a distributed     *)
(* run. Requests arrive at a rate; every arrival starts a conversation in  *)
(* a goroutine of its own, up to the worker's share of max_inflight. When  *)
(* a stage's time is over no more arrive, and the outstanding ones are     *)
(* awaited before the next stage or barrier.                               *)
(***************************************************************************)
EXTENDS Integers, Sequences, FiniteSets, LoadDivision

CONSTANTS
  NWorkers,     \* workers the load is divided among
  Plans,        \* the stage lists to run
  Slots,        \* bound: conversations of this worker alive at a time
  MaxTurns,     \* turns of the longest conversation of the dataset
  ErrorLimit,   \* defaultMaxConsecutiveErrors
  MaxPending    \* bound: recordResult goroutines alive at a time

\* inflight and rate (is it positive?) are the configured totals of the stage.
Stage == [kind : {"load", "barrier"}, max : Nat, inflight : Nat, rate : BOOLEAN]

\* k is the first load stage of p.
IsFirstLoad(p, k) == p[k].kind = "load" /\ \A j \in 1..(k - 1) : p[j].kind # "load"

\* A scenario has a load stage; its first one sets the generator's parameters.
ASSUME PlansAssumption ==
  \A p \in Plans : p \in Seq(Stage) /\ \E k \in 1..Len(p) : IsFirstLoad(p, k)
ASSUME BoundsAssumption ==
  /\ IsFiniteSet(Slots)
  /\ NWorkers \in Nat \ {0} /\ MaxTurns \in Nat \ {0}
  /\ ErrorLimit \in Nat \ {0} /\ MaxPending \in Nat \ {0}

VARIABLES
  plan, id,     \* the stages, and this worker's id
  i, phase,     \* the driver's index into plan, and where it is
  ctxDone,      \* the run's context is cancelled
  timeUp,       \* the stage's dispatch context has timed out
  dispatched,   \* conversations started in this stage, counted up to its limit + 1
  sem,          \* tokens in the semaphore channel
  pc, left,     \* where each conversation is, and its turns left
  errors,       \* g.consecutiveErrors
  pending       \* recordResult goroutines counted by recordWG

convVars == <<pc, left>>
vars == <<plan, id, i, phase, ctxDone, timeUp, dispatched, sem, convVars, errors, pending>>

Phases == {"top", "loop", "gap", "acquire", "dispatch", "drain", "flush", "complete", "end"}
ConvPhases == {"none", "ready", "sent", "over"}

\* runScenario gives the generator the rate and the cap of the first load stage,
\* divided among the workers. A cap of zero means none.
First == plan[CHOOSE k \in 1..Len(plan) : IsFirstLoad(plan, k)]
Cap == DivideConcurrency(First.inflight, NWorkers, id)

Running == {c \in Slots : pc[c] # "none"}
DispatchDone == ctxDone \/ timeUp
LesserOf(a, b) == IF a < b THEN a ELSE b

-----------------------------------------------------------------------------
(* The driver: runRateBasedStages and the dispatch loop of runRateBased.   *)

\* Leave the loop over the stages; the deferred cancel runs.
LeaveLoop ==
  /\ phase = "top"
  /\ ctxDone \/ i > Len(plan)
  /\ phase' = "end"
  /\ ctxDone' = TRUE
  /\ UNCHANGED <<plan, id, i, timeUp, dispatched, sem, convVars, errors, pending>>

\* onBarrier returns; when the sync failed it has cancelled the run's context.
OnBarrier ==
  /\ phase = "top" /\ ~ctxDone /\ i <= Len(plan)
  /\ plan[i].kind = "barrier"
  /\ UNCHANGED ctxDone \/ ctxDone' = TRUE
  /\ i' = i + 1
  /\ UNCHANGED <<plan, id, phase, timeUp, dispatched, sem, convVars, errors, pending>>

\* onStage returns; a new dispatch context, semaphore and wait group.
StartStage ==
  /\ phase = "top" /\ ~ctxDone /\ i <= Len(plan)
  /\ plan[i].kind = "load"
  /\ phase' = "loop"
  /\ timeUp' = FALSE
  /\ dispatched' = 0
  /\ sem' = 0
  /\ UNCHANGED <<plan, id, i, ctxDone, convVars, errors, pending>>

\* The stage's duration elapses.
TimeUp ==
  /\ phase \in {"loop", "gap", "acquire", "dispatch"}
  /\ ~timeUp
  /\ timeUp' = TRUE
  /\ UNCHANGED <<plan, id, i, phase, ctxDone, dispatched, sem, convVars, errors, pending>>

\* Mutant: one request too many.
LimitPassed == plan[i].max > 0 /\ dispatched > plan[i].max

LimitReached == plan[i].max > 0 /\ dispatched >= plan[i].max

\* The head of the dispatch loop: stop, or wait for the next arrival. Without a
\* rate it polls until the context ends.
StopDispatch ==
  /\ phase = "loop"
  /\ DispatchDone \/ LimitReached
  /\ phase' = "drain"
  /\ UNCHANGED <<plan, id, i, ctxDone, timeUp, dispatched, sem, convVars, errors, pending>>

NextArrival ==
  /\ phase = "loop"
  /\ ~DispatchDone /\ ~LimitReached
  /\ First.rate
  /\ phase' = "gap"
  /\ UNCHANGED <<plan, id, i, ctxDone, timeUp, dispatched, sem, convVars, errors, pending>>

\* The gap is over, or the dispatch context ended first.
Arrival ==
  /\ phase = "gap"
  /\ phase' = IF DispatchDone THEN "drain" ELSE IF Cap > 0 THEN "acquire" ELSE "dispatch"
  /\ UNCHANGED <<plan, id, i, ctxDone, timeUp, dispatched, sem, convVars, errors, pending>>

\* Mutant: proceed without a token when the semaphore is full.
AcquireOrProceed ==
  /\ phase = "acquire"
  /\ sem' = LesserOf(sem + 1, Cap)
  /\ phase' = IF DispatchDone THEN "drain" ELSE "dispatch"
  /\ UNCHANGED <<plan, id, i, ctxDone, timeUp, dispatched, convVars, errors, pending>>

\* Take a token, or be woken by the dispatch context; when it has ended, stop
\* (a token taken just before stays taken: the semaphore goes with the stage).
Acquire ==
  /\ phase = "acquire"
  /\ \/ sem < Cap /\ sem' = sem + 1
     \/ DispatchDone /\ UNCHANGED sem
  /\ phase' = IF DispatchDone THEN "drain" ELSE "dispatch"
  /\ UNCHANGED <<plan, id, i, ctxDone, timeUp, dispatched, convVars, errors, pending>>

\* Start the conversation's goroutine. Which slot it gets is immaterial.
Dispatch ==
  /\ phase = "dispatch"
  /\ Running # Slots
  /\ LET c == CHOOSE s \in Slots : s \notin Running
     IN /\ pc' = [pc EXCEPT ![c] = "ready"]
        /\ \E turns \in 1..MaxTurns : left' = [left EXCEPT ![c] = turns]
  /\ dispatched' = LesserOf(dispatched + 1, plan[i].max + 1)
  /\ phase' = "loop"
  /\ UNCHANGED <<plan, id, i, ctxDone, timeUp, sem, errors, pending>>

\* wg.Wait, with no timer of its own, ...
Drained ==
  /\ phase = "drain"
  /\ Running = {}
  /\ phase' = "flush"
  /\ UNCHANGED <<plan, id, i, ctxDone, timeUp, dispatched, sem, convVars, errors, pending>>

\* ... then recordWG.Wait.
Flushed ==
  /\ phase = "flush"
  /\ pending = 0
  /\ phase' = "complete"
  /\ UNCHANGED <<plan, id, i, ctxDone, timeUp, dispatched, sem, convVars, errors, pending>>

NextStage ==
  /\ phase = "complete"
  /\ phase' = "top"
  /\ i' = i + 1
  /\ UNCHANGED <<plan, id, ctxDone, timeUp, dispatched, sem, convVars, errors, pending>>

\* onStageComplete returned false.
StopEarly ==
  /\ phase = "complete"
  /\ ~ctxDone
  /\ phase' = "end"
  /\ ctxDone' = TRUE
  /\ UNCHANGED <<plan, id, i, timeUp, dispatched, sem, convVars, errors, pending>>

\* The caller cancels the run.
Interrupt ==
  /\ phase # "end"
  /\ ~ctxDone
  /\ ctxDone' = TRUE
  /\ UNCHANGED <<plan, id, i, phase, timeUp, dispatched, sem, convVars, errors, pending>>

Driver ==
  \/ LeaveLoop \/ OnBarrier \/ StartStage \/ StopDispatch \/ NextArrival \/ Arrival
  \/ Acquire \/ Dispatch \/ Drained \/ Flushed \/ NextStage \/ StopEarly

-----------------------------------------------------------------------------
(* A conversation's goroutine: runConversation.                            *)

driverVars == <<plan, id, i, phase, timeUp, dispatched>>

\* The head of the loop over the turns looks at the run's context, not at the
\* dispatch context: a conversation outlives the end of its stage's arrivals.
Send(c) ==
  /\ pc[c] = "ready"
  /\ pc' = [pc EXCEPT ![c] = IF ctxDone THEN "over" ELSE "sent"]
  /\ UNCHANGED <<driverVars, ctxDone, sem, left, errors, pending>>

\* trackRequestStatus: enough errors in a row cancel the whole run.
TrackRequestStatus(failed) ==
  /\ errors' = IF failed THEN LesserOf(errors + 1, ErrorLimit) ELSE 0
  /\ ctxDone' = (ctxDone \/ (failed /\ errors + 1 >= ErrorLimit))

RespondOk(c) ==
  /\ pc[c] = "sent"
  /\ pending < MaxPending
  /\ TrackRequestStatus(FALSE)
  /\ pending' = pending + 1
  /\ left' = [left EXCEPT ![c] = @ - 1]
  /\ pc' = [pc EXCEPT ![c] = IF left[c] > 1 THEN "ready" ELSE "over"]
  /\ UNCHANGED <<driverVars, sem>>

RespondError(c) ==
  /\ pc[c] = "sent"
  /\ pending < MaxPending
  /\ TrackRequestStatus(TRUE)
  /\ pending' = pending + 1
  /\ left' = [left EXCEPT ![c] = 0]
  /\ pc' = [pc EXCEPT ![c] = "over"]
  /\ UNCHANGED <<driverVars, sem>>

\* Mutant: the request does not run under the context.
NeverCut(c) == pc[c] = "sent" /\ ctxDone /\ UNCHANGED vars

\* The context ended first: nothing is recorded.
RespondCut(c) ==
  /\ pc[c] = "sent"
  /\ ctxDone
  /\ TrackRequestStatus(FALSE)
  /\ pc' = [pc EXCEPT ![c] = "over"]
  /\ left' = [left EXCEPT ![c] = 0]
  /\ UNCHANGED <<driverVars, sem, pending>>

\* The deferred calls: give the token back, then wg.Done.
Finish(c) ==
  /\ pc[c] = "over"
  /\ Cap > 0 => sem > 0
  /\ pc' = [pc EXCEPT ![c] = "none"]
  /\ left' = [left EXCEPT ![c] = 0]
  /\ sem' = IF Cap > 0 THEN sem - 1 ELSE sem
  /\ UNCHANGED <<driverVars, ctxDone, errors, pending>>

\* A recordResult goroutine hands its record to the recorder and ends.
RecordResult ==
  /\ pending > 0
  /\ pending' = pending - 1
  /\ UNCHANGED <<driverVars, ctxDone, sem, convVars, errors>>

Returned == phase = "end" /\ UNCHANGED vars

-----------------------------------------------------------------------------
Init ==
  /\ plan \in Plans
  /\ id \in WorkerIds(NWorkers)
  /\ i = 1
  /\ phase = "top"
  /\ ctxDone = FALSE /\ timeUp = FALSE
  /\ dispatched = 0
  /\ sem = 0
  /\ pc = [c \in Slots |-> "none"]
  /\ left = [c \in Slots |-> 0]
  /\ errors = 0
  /\ pending = 0

\* What a conversation does without the server's help.
ConvStep(c) == Send(c) \/ RespondCut(c) \/ Finish(c)

ServerStep(c) == RespondOk(c) \/ RespondError(c)

Next ==
  \/ Driver
  \/ TimeUp
  \/ Interrupt
  \/ \E c \in Slots : ConvStep(c) \/ ServerStep(c)
  \/ RecordResult
  \/ Returned

Spec == Init /\ [][Next]_vars

\* Go schedules every runnable goroutine and its timers fire. Nothing is assumed
\* of the server.
Fairness ==
  /\ WF_vars(Driver)
  /\ WF_vars(TimeUp)
  /\ WF_vars(RecordResult)
  /\ \A c \in Slots : WF_vars(ConvStep(c))

FairSpec == Spec /\ Fairness

-----------------------------------------------------------------------------
(* Properties.                                                             *)

\* Every variable keeps its type (56-83, 355-363).
TypeOK ==
  /\ plan \in Plans
  /\ id \in WorkerIds(NWorkers)
  /\ i \in 1..(Len(plan) + 1)
  /\ phase \in Phases
  /\ ctxDone \in BOOLEAN /\ timeUp \in BOOLEAN
  /\ dispatched \in Nat
  /\ sem \in Nat
  /\ pc \in [Slots -> ConvPhases]
  /\ left \in [Slots -> 0..MaxTurns]
  /\ errors \in 0..ErrorLimit
  /\ pending \in 0..MaxPending

\* With a cap, no more conversations than the worker's share are alive, and each
\* of them has its token in the semaphore, so the deferred receive never blocks
\* a goroutine and with it the drain (395-418).
InFlightCapped ==
  Cap > 0 => /\ Cardinality(Running) <= Cap
             /\ Cardinality(Running) <= sem /\ sem <= Cap

\* "Rate stages drain before advancing, so both barrier types are drained" (334):
\* between stages, at every barrier and at the end nothing is in flight and
\* nothing unrecorded, however the stage ended.
Drains ==
  phase \in {"top", "complete", "end"} => Running = {} /\ pending = 0

\* A stage never starts more conversations than max_requests, and one whose
\* dispatch loop ends before its time has started exactly that many (365-409).
ExactDispatch ==
  /\ phase \notin {"top", "end"} /\ plan[i].max > 0 => dispatched <= plan[i].max
  /\ phase = "complete" /\ ~DispatchDone => dispatched = plan[i].max

\* The end of a stage cuts no conversation short: unless the run is cancelled or
\* a request fails, it runs all its turns (355, 417, 734-781).
ConversationsFinish ==
  \A c \in Slots : pc[c] = "over" /\ ~ctxDone => left[c] = 0

\* A cancelled run ends, wherever the driver and the conversations are and even
\* when the server has stopped answering.
CancelStops == ctxDone ~> phase = "end"

=============================================================================
