-------------------------- MODULE ConversationPool --------------------------
(***************************************************************************)
(* The conversation-pool load mode (pkg/loadgen/conversation_pool.go). A   *)
(* stage keeps a working set of conversations in rotation; every stream    *)
(* repeatedly takes the conversation at the head of a ready queue, runs    *)
(* one turn of it, and puts it back at the tail or retires and replaces    *)
(* it. With max_requests, every turn is reserved against a counter first.  *)
(* The driver (runConversationPoolStages) starts one pool per stage.       *)
(***************************************************************************)
EXTENDS Integers, Sequences, FiniteSets, FiniteSetsExt, SequencesExt

CONSTANTS
  Streams,      \* stream goroutines; a stage with concurrency n uses n of them
  NConvs,       \* bound: conversation ids, reused once retired
  CompactAt,    \* the consumed prefix popReadyLocked tolerates (1024 in the code)
  Plans,        \* the stage lists to run
  MaxTurns,     \* turns of the longest conversation of the dataset
  ErrorLimit,   \* defaultMaxConsecutiveErrors
  MaxPending    \* bound: recordResult goroutines alive at a time

Stage == [kind : {"load", "barrier"}, conc : Nat, pool : Nat, max : Nat, rampup : BOOLEAN]

\* runConversationPool: a pool size of zero means one conversation per stream.
PoolSize(stage) == IF stage.pool = 0 THEN stage.conc ELSE stage.pool

\* Validate (pkg/config/scenario.go) refuses a pool smaller than the concurrency.
Validate(stage) == stage.conc <= PoolSize(stage)

ASSUME PlansAssumption ==
  /\ Plans \subseteq Seq(Stage)
  /\ \A p \in Plans : \A k \in 1..Len(p) :
       /\ Validate(p[k])
       /\ p[k].conc <= Cardinality(Streams)
       /\ PoolSize(p[k]) <= NConvs
ASSUME BoundsAssumption ==
  /\ IsFiniteSet(Streams)
  /\ {NConvs, MaxTurns, ErrorLimit, MaxPending} \subseteq Nat \ {0}
  /\ CompactAt \in Nat

VARIABLES
  plan, i, phase,  \* the driver: its stages, its index, where it is
  ctxDone,         \* the run's context is cancelled
  stageDone,       \* the running stage's context is cancelled
  cur,             \* g.maxReqState and the pool: the stage they were made for
  count,           \* its maxRequestsState.count
  ready, head,     \* scheduler.ready and the index of its first unread element
  convs,           \* scheduler.convs: the live conversations
  left,            \* turns left of each; 0 until it is materialized
  pc, held,        \* where each stream is, and the conversation it holds
  errors,          \* g.consecutiveErrors
  pending,         \* recordResult goroutines counted by recordWG
  \* Observation only: no action reads them.
  sent,            \* requests sent in the running stage, capped at its limit + 1
  bypass           \* turns dispatched while each ready conversation waited

schedVars == <<cur, count, ready, head, convs, bypass>>
streamVars == <<left, pc, held, sent>>
vars == <<plan, i, phase, ctxDone, stageDone, schedVars, streamVars, errors, pending>>

Phases == {"top", "wait", "stopping", "complete", "flush", "end"}
StreamPhases == {"off", "delay", "head", "next", "got", "sent", "back"}
Convs == 1..NConvs
None == 0

Limit == plan[cur].max
Cancelled == ctxDone \/ stageDone
AllOff == \A s \in Streams : pc[s] = "off"   \* the pool's WaitGroup; done is closed
Queue == SubSeq(ready, head + 1, Len(ready))
Holders == {s \in Streams : pc[s] \in {"got", "sent", "back"}}

-----------------------------------------------------------------------------
(* The scheduler. Its operations run under scheduler.mu.                   *)

\* newConversationPoolScheduler: never more slots than requests.
InitialSlots(stage) ==
  IF stage.max > 0 THEN Min({PoolSize(stage), stage.max}) ELSE PoolSize(stage)

\* Mutant: push at the head of the queue.
PushFirst(q, c) == <<c>> \o q

\* pushReadyLocked
PushReady(q, c) == Append(q, c)

\* Mutant: refuse the last request.
ReserveOneLess == Limit = 0 \/ count + 1 < Limit

\* reserveRequestLocked; its done channel has no listener in this mode.
Reserve == Limit = 0 \/ count < Limit

\* popReadyLocked's bookkeeping: drop the consumed prefix once it dominates.
Compact ==
  IF head + 1 > CompactAt /\ (head + 1) * 2 >= Len(ready)
  THEN /\ ready' = SubSeq(ready, head + 2, Len(ready))
       /\ head' = 0
  ELSE /\ head' = head + 1
       /\ UNCHANGED ready

\* canCreateConversationLocked
CanCreate == Limit = 0 \/ count < Limit

\* Mutant: a retired conversation goes back into the queue as well.
CompleteKeeping(c, replace) ==
  LET added == Min(Convs \ (convs \ {c}))
      fresh == replace /\ CanCreate
  IN /\ convs' = IF replace /\ ~fresh THEN convs \ {c} ELSE convs
     /\ ready' = IF fresh THEN Append(Append(ready, added), c) ELSE Append(ready, c)
     /\ bypass' = [bypass EXCEPT ![c] = 0]

\* Mutant: a retired conversation is not replaced.
CompleteNoReplace(c, replace) ==
  /\ convs' = IF replace THEN convs \ {c} ELSE convs
  /\ ready' = IF replace THEN ready ELSE PushReady(ready, c)
  /\ bypass' = [bypass EXCEPT ![c] = 0]

\* complete: put the conversation back, or retire it and add a fresh one. The
\* stopped flag is still unset: stop runs once every stream has returned.
Complete(c, replace) ==
  LET others == convs \ {c}
      create == Cardinality(others) < PoolSize(plan[cur]) /\ CanCreate
      item == IF replace THEN Min(Convs \ others) ELSE c
  IN IF replace /\ ~create
     THEN /\ convs' = others
          /\ UNCHANGED <<ready, bypass>>
     ELSE /\ convs' = others \cup {item}
          /\ ready' = PushReady(ready, item)
          /\ bypass' = [bypass EXCEPT ![item] = 0]

-----------------------------------------------------------------------------
(* The driver: runConversationPoolStages.                                  *)

LeaveLoop ==
  /\ phase = "top"
  /\ ctxDone \/ i > Len(plan)
  /\ phase' = "flush"
  /\ UNCHANGED <<plan, i, ctxDone, stageDone, schedVars, streamVars, errors, pending>>

\* onBarrier returns; when the sync failed it has cancelled the run's context.
OnBarrier ==
  /\ phase = "top" /\ ~ctxDone /\ i <= Len(plan)
  /\ plan[i].kind = "barrier"
  /\ UNCHANGED ctxDone \/ ctxDone' = TRUE
  /\ i' = i + 1
  /\ UNCHANGED <<plan, phase, stageDone, schedVars, streamVars, errors, pending>>

\* Store the counter, call onStage, start a fresh pool and its streams. Streams
\* are alike, so which of them the stage uses is immaterial.
StartStage ==
  /\ phase = "top" /\ ~ctxDone /\ i <= Len(plan)
  /\ plan[i].kind = "load"
  /\ phase' = "wait"
  /\ stageDone' = FALSE
  /\ cur' = i
  /\ count' = 0 /\ sent' = 0
  /\ ready' = [n \in 1..InitialSlots(plan[i]) |-> n] /\ head' = 0
  /\ convs' = 1..InitialSlots(plan[i])
  /\ bypass' = [c \in Convs |-> 0]
  /\ left' = [c \in Convs |-> 0]
  /\ LET used == CHOOSE T \in SUBSET Streams : Cardinality(T) = plan[i].conc
         first == CHOOSE s \in used : TRUE
     IN pc' = [s \in Streams |->
                 IF s \notin used THEN "off"
                 ELSE IF plan[i].rampup /\ s # first THEN "delay" ELSE "head"]
  /\ held' = [s \in Streams |-> None]
  /\ UNCHANGED <<plan, i, ctxDone, errors, pending>>

\* The pool goroutine closed done; stageCancel runs on the way out.
StageFinished ==
  /\ phase = "wait"
  /\ AllOff
  /\ phase' = "complete"
  /\ stageDone' = TRUE
  /\ UNCHANGED <<plan, i, ctxDone, schedVars, streamVars, errors, pending>>

\* The run's context ended: the select returns without waiting for the pool.
StageInterrupted ==
  /\ phase = "wait"
  /\ ctxDone
  /\ phase' = "complete"
  /\ stageDone' = TRUE
  /\ UNCHANGED <<plan, i, ctxDone, schedVars, streamVars, errors, pending>>

\* Mutant: wait for the pool without cancelling it.
TimeoutNoCancel ==
  /\ phase = "wait"
  /\ phase' = "stopping"
  /\ UNCHANGED <<plan, i, ctxDone, stageDone, schedVars, streamVars, errors, pending>>

\* The stage's duration elapsed: cancel the pool and wait for it.
StageTimeout ==
  /\ phase = "wait"
  /\ phase' = "stopping"
  /\ stageDone' = TRUE
  /\ UNCHANGED <<plan, i, ctxDone, schedVars, streamVars, errors, pending>>

StageStopped ==
  /\ phase = "stopping"
  /\ AllOff
  /\ phase' = "complete"
  /\ UNCHANGED <<plan, i, ctxDone, stageDone, schedVars, streamVars, errors, pending>>

NextStage ==
  /\ phase = "complete"
  /\ phase' = "top"
  /\ i' = i + 1
  /\ UNCHANGED <<plan, ctxDone, stageDone, schedVars, streamVars, errors, pending>>

\* onStageComplete returned false.
StopEarly ==
  /\ phase = "complete"
  /\ ~ctxDone
  /\ phase' = "flush"
  /\ UNCHANGED <<plan, i, ctxDone, stageDone, schedVars, streamVars, errors, pending>>

\* recordWG.Wait returns and the deferred cancel runs.
Return ==
  /\ phase = "flush"
  /\ pending = 0
  /\ phase' = "end"
  /\ ctxDone' = TRUE
  /\ UNCHANGED <<plan, i, stageDone, schedVars, streamVars, errors, pending>>

\* The caller cancels the run.
Interrupt ==
  /\ phase # "end"
  /\ ~ctxDone
  /\ ctxDone' = TRUE
  /\ UNCHANGED <<plan, i, phase, stageDone, schedVars, streamVars, errors, pending>>

Driver ==
  \/ LeaveLoop \/ OnBarrier \/ StartStage \/ StageFinished \/ StageInterrupted
  \/ StageTimeout \/ StageStopped \/ NextStage \/ StopEarly \/ Return

-----------------------------------------------------------------------------
(* A stream of the pool: the goroutine of runConversationPool.             *)

driverVars == <<plan, i, phase, stageDone>>

\* The rampup delay ends, or the context does.
Begin(s) ==
  /\ pc[s] = "delay"
  /\ \/ pc' = [pc EXCEPT ![s] = "head"]
     \/ Cancelled /\ pc' = [pc EXCEPT ![s] = "off"]
  /\ UNCHANGED <<driverVars, ctxDone, schedVars, left, held, sent, errors, pending>>

\* The head of the loop looks at the context.
CheckContext(s) ==
  /\ pc[s] = "head"
  /\ pc' = [pc EXCEPT ![s] = IF Cancelled THEN "off" ELSE "next"]
  /\ UNCHANGED <<driverVars, ctxDone, schedVars, left, held, sent, errors, pending>>

\* next: reserve a request, then pop the queue; either may say there is nothing.
TakeNext(s) ==
  /\ pc[s] = "next"
  /\ Reserve
  /\ Queue # <<>>
  /\ count' = IF Limit = 0 THEN count ELSE count + 1
  /\ Compact
  /\ held' = [held EXCEPT ![s] = Head(Queue)]
  /\ bypass' = [c \in Convs |-> IF c \in Range(Tail(Queue)) THEN bypass[c] + 1 ELSE 0]
  /\ pc' = [pc EXCEPT ![s] = "got"]
  /\ UNCHANGED <<driverVars, ctxDone, cur, convs, left, sent, errors, pending>>

NothingNext(s) ==
  /\ pc[s] = "next"
  /\ IF Reserve
     THEN /\ Queue = <<>>
          /\ count' = IF Limit = 0 THEN count ELSE count + 1
          /\ ready' = <<>> /\ head' = 0
     ELSE UNCHANGED <<count, ready, head>>
  /\ pc' = [pc EXCEPT ![s] = "off"]
  /\ UNCHANGED <<driverVars, ctxDone, cur, convs, bypass, left, held, sent, errors, pending>>

\* Materialize a new conversation, look at the context again, send the request.
Send(s) ==
  /\ pc[s] = "got"
  /\ IF left[held[s]] = 0
     THEN \E turns \in 1..MaxTurns : left' = [left EXCEPT ![held[s]] = turns]
     ELSE UNCHANGED left
  /\ IF Cancelled
     THEN /\ pc' = [pc EXCEPT ![s] = "off"]
          /\ UNCHANGED sent
     ELSE /\ pc' = [pc EXCEPT ![s] = "sent"]
          /\ sent' = Min({sent + 1, Limit + 1})
  /\ UNCHANGED <<driverVars, ctxDone, schedVars, held, errors, pending>>

\* trackRequestStatus: enough errors in a row cancel the whole run.
TrackRequestStatus(failed) ==
  /\ errors' = IF failed THEN Min({errors + 1, ErrorLimit}) ELSE 0
  /\ ctxDone' = (ctxDone \/ (failed /\ errors + 1 >= ErrorLimit))

\* The answer arrived and is recorded in the background.
RespondOk(s) ==
  /\ pc[s] = "sent"
  /\ pending < MaxPending
  /\ TrackRequestStatus(FALSE)
  /\ pending' = pending + 1
  /\ left' = [left EXCEPT ![held[s]] = @ - 1]
  /\ pc' = [pc EXCEPT ![s] = "back"]
  /\ UNCHANGED <<driverVars, schedVars, held, sent>>

\* The request failed: recorded too, and the conversation is to be retired.
RespondError(s) ==
  /\ pc[s] = "sent"
  /\ pending < MaxPending
  /\ TrackRequestStatus(TRUE)
  /\ pending' = pending + 1
  /\ left' = [left EXCEPT ![held[s]] = 0]
  /\ pc' = [pc EXCEPT ![s] = "back"]
  /\ UNCHANGED <<driverVars, schedVars, held, sent>>

\* The context ended first: nothing is recorded and the stream returns.
RespondCut(s) ==
  /\ pc[s] = "sent"
  /\ Cancelled
  /\ TrackRequestStatus(FALSE)
  /\ pc' = [pc EXCEPT ![s] = "off"]
  /\ UNCHANGED <<driverVars, schedVars, left, held, sent, pending>>

\* Back in the loop: return if the context ended, else complete the turn.
CompleteTurn(s) ==
  /\ pc[s] = "back"
  /\ IF Cancelled
     THEN /\ pc' = [pc EXCEPT ![s] = "off"]
          /\ UNCHANGED <<ready, convs, bypass>>
     ELSE /\ pc' = [pc EXCEPT ![s] = "head"]
          /\ Complete(held[s], left[held[s]] = 0)
  /\ held' = [held EXCEPT ![s] = None]
  /\ UNCHANGED <<driverVars, ctxDone, cur, count, head, left, sent, errors, pending>>

\* Mutant: recordWG.Done without a matching Add.
RecordResultUncounted ==
  /\ pending' = pending - 1
  /\ UNCHANGED <<driverVars, ctxDone, schedVars, streamVars, errors>>

\* A recordResult goroutine hands its record to the recorder and ends.
RecordResult ==
  /\ pending > 0
  /\ pending' = pending - 1
  /\ UNCHANGED <<driverVars, ctxDone, schedVars, streamVars, errors>>

Returned == phase = "end" /\ UNCHANGED vars

-----------------------------------------------------------------------------
Init ==
  /\ plan \in Plans
  /\ i = 1
  /\ phase = "top"
  /\ ctxDone = FALSE /\ stageDone = FALSE
  /\ cur = 0
  /\ count = 0 /\ sent = 0
  /\ ready = <<>> /\ head = 0
  /\ convs = {}
  /\ left = [c \in Convs |-> 0]
  /\ bypass = [c \in Convs |-> 0]
  /\ pc = [s \in Streams |-> "off"]
  /\ held = [s \in Streams |-> None]
  /\ errors = 0
  /\ pending = 0

StreamStep(s) ==
  \/ Begin(s) \/ CheckContext(s) \/ TakeNext(s) \/ NothingNext(s)
  \/ Send(s) \/ RespondCut(s) \/ CompleteTurn(s)

ServerStep(s) == RespondOk(s) \/ RespondError(s)

Next ==
  \/ Driver
  \/ Interrupt
  \/ \E s \in Streams : StreamStep(s) \/ ServerStep(s)
  \/ RecordResult
  \/ Returned

Spec == Init /\ [][Next]_vars

\* Go schedules every runnable goroutine and its timers fire; nothing is assumed
\* of the server.
Fairness ==
  /\ WF_vars(Driver)
  /\ WF_vars(RecordResult)
  /\ \A s \in Streams : WF_vars(StreamStep(s))

FairSpec == Spec /\ Fairness

-----------------------------------------------------------------------------
(* Properties.                                                             *)

\* Every variable keeps its type (14-33, 147-163).
TypeOK ==
  /\ plan \in Plans
  /\ i \in 1..(Len(plan) + 1)
  /\ phase \in Phases
  /\ {ctxDone, stageDone} \subseteq BOOLEAN
  /\ cur \in 0..Len(plan)
  /\ {count, sent} \subseteq Nat
  /\ ready \in Seq(Convs) /\ head \in 0..Len(ready)
  /\ convs \subseteq Convs
  /\ left \in [Convs -> 0..MaxTurns]
  /\ bypass \in [Convs -> Nat]
  /\ pc \in [Streams -> StreamPhases]
  /\ held \in [Streams -> Convs \cup {None}]
  /\ errors \in 0..ErrorLimit
  /\ pending \in 0..MaxPending

\* A conversation is in the hands of one stream or once in the queue, never both
\* and never twice, so two streams cannot append to one history; and whatever
\* the queue names is still live, so a pop always finds it (70-85, 118-134).
Exclusive ==
  /\ \A s, t \in Holders : held[s] = held[t] => s = t
  /\ \A s \in Holders : held[s] \notin Range(Queue)
  /\ IsInjective(Queue)
  /\ Range(Queue) \subseteq convs

\* A stream that can still reserve a request finds a ready conversation: no
\* reservation is wasted and no stream leaves while requests remain (87-116).
ReadyWhenNeeded ==
  \A s \in Streams : pc[s] = "next" /\ Reserve => Queue # <<>>

\* The least recently used conversation goes first: while one waits in the queue
\* fewer turns are dispatched than the pool has conversations (README:179).
LeastRecentlyUsed ==
  phase = "wait" => \A c \in Range(Queue) : bypass[c] < PoolSize(plan[cur])

\* A stage whose streams run dry by themselves has sent exactly max_requests
\* requests, errors and replacements included (87-116, 239-258).
ExactRequests ==
  [][(StageFinished /\ ~Cancelled /\ Limit > 0 /\ plan[cur].conc > 0) => sent = Limit]_vars

\* runConversationPoolStages returns even when the server stops answering.
Terminates == <>(phase = "end")

=============================================================================
