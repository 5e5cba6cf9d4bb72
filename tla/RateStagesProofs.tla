-------------------------- MODULE RateStagesProofs --------------------------
(***************************************************************************)
(* The open-loop generator keeps its safety properties for every stage     *)
(* list, number of workers, cap and number of conversations; and so does   *)
(* the recorder that it, like the other generators, gives its records to:  *)
(* its typing, that no writer sends on a closed channel, that a returned   *)
(* Close has kept every accepted record, and that it implements RecordLog. *)
(***************************************************************************)
EXTENDS RateStages, Recorder, FiniteSetTheorems, TLAPS

Dispatching == {"loop", "gap", "acquire", "dispatch"}
Waiting == {"drain", "flush", "complete"}

\* Between stages nothing runs, and once flushed nothing is unrecorded.
QuietInv ==
  /\ phase \in {"top", "flush", "complete", "end"} => Running = {}
  /\ phase \in {"top", "complete", "end"} => pending = 0

\* The tokens in the semaphore are those of the conversations that run, and of
\* the one about to start or given up after its token was taken.
SemInv ==
  Cap > 0 =>
    /\ sem <= Cap
    /\ phase \in {"loop", "gap", "acquire"} => sem = Cardinality(Running)
    /\ phase = "dispatch" => sem = Cardinality(Running) + 1
    /\ phase = "drain" => Cardinality(Running) <= sem

\* Past the head of the loop the limit is not reached; past the loop it is,
\* unless the dispatch context ended.
LimitInv ==
  phase \in Dispatching \cup Waiting =>
    /\ i <= Len(plan)
    /\ plan[i].max > 0 => dispatched <= plan[i].max
    /\ phase \in {"gap", "acquire", "dispatch"} /\ plan[i].max > 0 => dispatched < plan[i].max
    /\ phase \in Waiting => DispatchDone \/ (plan[i].max > 0 /\ dispatched = plan[i].max)

\* A conversation that goes on has a turn left.
TurnsInv ==
  \A c \in Slots :
    /\ pc[c] \in {"ready", "sent"} => left[c] > 0
    /\ pc[c] = "over" /\ ~ctxDone => left[c] = 0

IInv == TypeOK /\ QuietInv /\ SemInv /\ LimitInv /\ TurnsInv

-----------------------------------------------------------------------------
\* What \div and % mean, in the one form the lemmas below use.
LEMMA Division ==
  ASSUME NEW a \in Nat, NEW n \in Nat \ {0}
  PROVE  /\ a \div n \in Nat /\ (a % n) \in 0..(n - 1)
         /\ a = n * (a \div n) + (a % n)
BY SMTT(30)

\* A share is a natural number (DivideConcurrency returns a usable value for
\* every worker id).
LEMMA ShareType ==
  ASSUME NEW total \in Nat, NEW n \in Nat \ {0}, NEW w \in WorkerIds(n)
  PROVE  DivideConcurrency(total, n, w) \in Nat
<1>1. total \div n \in Nat /\ (total % n) \in 0..(n - 1) BY Division
<1> QED BY <1>1 DEF DivideConcurrency

\* The stage that sets the generator's parameters exists.
LEMMA FirstIsStage ==
  ASSUME NEW p \in Plans
  PROVE  /\ p \in Seq(Stage)
         /\ p[CHOOSE k \in 1..Len(p) : IsFirstLoad(p, k)] \in Stage
<1>1. p \in Seq(Stage) /\ \E k \in 1..Len(p) : IsFirstLoad(p, k) BY PlansAssumption
<1>2. (CHOOSE k \in 1..Len(p) : IsFirstLoad(p, k)) \in 1..Len(p) BY <1>1
<1> QED BY <1>1, <1>2

\* The worker's share of the cap is a number, the same throughout the run.
LEMMA CapType == TypeOK => Cap \in Nat
<1>1. SUFFICES ASSUME TypeOK PROVE Cap \in Nat OBVIOUS
<1>2. First \in Stage BY <1>1, FirstIsStage DEF TypeOK, First
<1>3. First.inflight \in Nat BY <1>2 DEF Stage
<1> QED BY <1>1, <1>3, ShareType, BoundsAssumption DEF TypeOK, Cap

LEMMA CapConstant == UNCHANGED <<plan, id>> => Cap' = Cap
BY DEF Cap, First

\* Cardinality of the running conversations when one starts or ends.
LEMMA RunningFinite == IsFiniteSet(Running) /\ Cardinality(Running) \in Nat
<1>1. IsFiniteSet(Slots) BY BoundsAssumption
<1>2. Running \subseteq Slots BY DEF Running
<1>3. IsFiniteSet(Running) BY <1>1, <1>2, FS_Subset
<1> QED BY <1>3, FS_CardinalityType

\* The stage at the driver's index is a stage.
LEMMA CurrentStage ==
  ASSUME TypeOK, i <= Len(plan)
  PROVE  plan[i] \in Stage /\ plan[i].max \in Nat
<1>1. plan \in Seq(Stage) BY FirstIsStage DEF TypeOK
<1>2. i \in 1..Len(plan) BY <1>1 DEF TypeOK
<1>3. plan[i] \in Stage BY <1>1, <1>2
<1> QED BY <1>3 DEF Stage

LEMMA LesserOfType ==
  ASSUME NEW a \in Nat, NEW b \in Nat
  PROVE  LesserOf(a, b) \in 0..b /\ LesserOf(a, b) \in Nat
BY DEF LesserOf

LEMMA TypeInit == Init => TypeOK
<1> SUFFICES ASSUME Init PROVE TypeOK OBVIOUS
<1>1. plan \in Plans /\ Len(plan) \in Nat BY FirstIsStage DEF Init
<1>2. i \in 1..(Len(plan) + 1) BY <1>1 DEF Init
<1>3. pc \in [Slots -> ConvPhases] BY DEF Init, ConvPhases
<1>4. left \in [Slots -> 0..MaxTurns] BY BoundsAssumption DEF Init
<1>5. errors \in 0..ErrorLimit /\ pending \in 0..MaxPending BY BoundsAssumption DEF Init
<1> QED BY <1>1, <1>2, <1>3, <1>4, <1>5 DEF Init, TypeOK, Phases

\* A driver's step keeps the types.
LEMMA TypeDriver ==
  ASSUME TypeOK, LimitInv, Driver \/ TimeUp \/ Interrupt
  PROVE  TypeOK'
<1> USE DEF TypeOK, Phases
<1>1. plan \in Seq(Stage) /\ Len(plan) \in Nat BY FirstIsStage
<1>2. CASE LeaveLoop BY <1>2 DEF LeaveLoop, convVars
<1>3. CASE OnBarrier
  <2>1. i' \in 1..(Len(plan) + 1) /\ plan' = plan BY <1>1, <1>3 DEF OnBarrier
  <2>2. ctxDone' \in BOOLEAN BY <1>3 DEF OnBarrier
  <2> QED BY <1>3, <2>1, <2>2 DEF OnBarrier, convVars
<1>4. CASE StartStage BY <1>4 DEF StartStage, convVars
<1>5. CASE StopDispatch \/ NextArrival \/ Arrival \/ Drained \/ Flushed
  BY <1>5 DEF StopDispatch, NextArrival, Arrival, Drained, Flushed, convVars
<1>6. CASE Acquire BY <1>6 DEF Acquire, convVars
<1>7. CASE Dispatch
  <2>1. i <= Len(plan) BY <1>7 DEF Dispatch, LimitInv, Dispatching
  <2>2. plan[i].max + 1 \in Nat BY <2>1, CurrentStage
  <2>3. dispatched' \in Nat
    <3>1. dispatched + 1 \in Nat OBVIOUS
    <3> QED BY <1>7, <2>2, <3>1, LesserOfType DEF Dispatch
  <2>4. pc' \in [Slots -> ConvPhases] BY <1>7 DEF Dispatch, ConvPhases
  <2>5. left' \in [Slots -> 0..MaxTurns]
    <3>1. 1..MaxTurns \subseteq 0..MaxTurns BY BoundsAssumption
    <3> QED BY <1>7, <3>1 DEF Dispatch
  <2> QED BY <1>7, <2>3, <2>4, <2>5 DEF Dispatch
<1>8. CASE NextStage
  <2>1. i <= Len(plan) BY <1>8 DEF NextStage, LimitInv, Waiting
  <2>2. i' \in 1..(Len(plan) + 1) /\ plan' = plan BY <1>1, <1>8, <2>1 DEF NextStage
  <2> QED BY <1>8, <2>2 DEF NextStage, convVars
<1>10. CASE StopEarly BY <1>10 DEF StopEarly, convVars
<1>9. CASE TimeUp \/ Interrupt BY <1>9 DEF TimeUp, Interrupt, convVars
<1> QED BY <1>2, <1>3, <1>4, <1>5, <1>6, <1>7, <1>8, <1>9, <1>10 DEF Driver

\* A conversation's step keeps the types.
LEMMA TypeConv ==
  ASSUME TypeOK, TurnsInv, NEW c \in Slots, ConvStep(c) \/ ServerStep(c)
  PROVE  TypeOK'
<1> USE DEF TypeOK, driverVars
<1>1. 0 \in 0..MaxTurns /\ ErrorLimit \in Nat \ {0} /\ MaxPending \in Nat \ {0}
      /\ MaxTurns \in Nat \ {0}
  BY BoundsAssumption
<1>2. CASE Send(c) BY <1>2 DEF Send, ConvPhases
<1>3. ASSUME NEW failed \in BOOLEAN, TrackRequestStatus(failed)
      PROVE  errors' \in 0..ErrorLimit /\ ctxDone' \in BOOLEAN
  <2>0. errors + 1 \in Nat /\ ErrorLimit \in Nat BY <1>1
  <2>1. LesserOf(errors + 1, ErrorLimit) \in 0..ErrorLimit BY <2>0, LesserOfType
  <2>2. errors' \in 0..ErrorLimit BY <1>1, <1>3, <2>1 DEF TrackRequestStatus
  <2>3. ctxDone' \in BOOLEAN BY <1>3, Zenon DEF TrackRequestStatus
  <2> QED BY <2>2, <2>3
<1>4. CASE RespondOk(c)
  <2>1. errors' \in 0..ErrorLimit /\ ctxDone' \in BOOLEAN BY <1>3, <1>4 DEF RespondOk
  <2>2. left[c] \in 0..MaxTurns /\ left[c] > 0 BY <1>4 DEF RespondOk, TurnsInv
  <2>3. left' \in [Slots -> 0..MaxTurns] BY <1>1, <1>4, <2>2 DEF RespondOk
  <2>4. pc' \in [Slots -> ConvPhases] BY <1>4 DEF RespondOk, ConvPhases
  <2>5. pending' \in 0..MaxPending BY <1>1, <1>4 DEF RespondOk
  <2> QED BY <1>4, <2>1, <2>3, <2>4, <2>5 DEF RespondOk
<1>5. CASE RespondError(c)
  <2>1. errors' \in 0..ErrorLimit /\ ctxDone' \in BOOLEAN BY <1>3, <1>5 DEF RespondError
  <2>2. pc' \in [Slots -> ConvPhases] BY <1>5 DEF RespondError, ConvPhases
  <2>3. pending' \in 0..MaxPending BY <1>1, <1>5 DEF RespondError
  <2> QED BY <1>1, <1>5, <2>1, <2>2, <2>3 DEF RespondError
<1>6. CASE RespondCut(c)
  <2>1. errors' \in 0..ErrorLimit /\ ctxDone' \in BOOLEAN BY <1>3, <1>6 DEF RespondCut
  <2>2. pc' \in [Slots -> ConvPhases] BY <1>6 DEF RespondCut, ConvPhases
  <2> QED BY <1>1, <1>6, <2>1, <2>2 DEF RespondCut
<1>7. CASE Finish(c)
  <2>1. sem' \in Nat BY <1>7, CapType DEF Finish
  <2>2. pc' \in [Slots -> ConvPhases] BY <1>7 DEF Finish, ConvPhases
  <2> QED BY <1>1, <1>7, <2>1, <2>2 DEF Finish
<1> QED BY <1>2, <1>4, <1>5, <1>6, <1>7 DEF ConvStep, ServerStep

LEMMA TypeStep == IInv /\ [Next]_vars => TypeOK'
<1> SUFFICES ASSUME IInv, [Next]_vars PROVE TypeOK' OBVIOUS
<1>1. CASE Driver \/ TimeUp \/ Interrupt BY <1>1, TypeDriver DEF IInv
<1>2. CASE \E c \in Slots : ConvStep(c) \/ ServerStep(c) BY <1>2, TypeConv DEF IInv
<1>3. CASE RecordResult
  BY <1>3, BoundsAssumption DEF IInv, TypeOK, RecordResult, driverVars, convVars
<1>4. CASE UNCHANGED vars BY <1>4 DEF IInv, TypeOK, vars, convVars
<1> QED BY <1>1, <1>2, <1>3, <1>4 DEF Next, Returned

-----------------------------------------------------------------------------
\* How the running conversations change.
LEMMA DispatchRuns ==
  ASSUME TypeOK, Dispatch
  PROVE  Cardinality(Running') = Cardinality(Running) + 1
<1> DEFINE c == CHOOSE s \in Slots : s \notin Running
<1>1. \E s \in Slots : s \notin Running BY DEF Dispatch, Running
<1>2. c \in Slots /\ c \notin Running BY <1>1
<1>3. pc' = [pc EXCEPT ![c] = "ready"] BY DEF Dispatch
<1> HIDE DEF c
<1>4. Running' = Running \cup {c} BY <1>2, <1>3 DEF Running, TypeOK
<1> QED BY <1>2, <1>4, RunningFinite, FS_AddElement

LEMMA FinishRuns ==
  ASSUME TypeOK, NEW c \in Slots, Finish(c)
  PROVE  Cardinality(Running') = Cardinality(Running) - 1
<1>1. c \in Running BY DEF Finish, Running
<1>2. Running' = Running \ {c} BY DEF Finish, Running, TypeOK
<1> QED BY <1>1, <1>2, RunningFinite, FS_RemoveElement

\* A conversation acts only while it runs, and runs until it finishes.
LEMMA ConvRuns ==
  ASSUME TypeOK, NEW c \in Slots, ConvStep(c) \/ ServerStep(c)
  PROVE  /\ c \in Running
         /\ Finish(c) \/ Running' = Running
<1> USE DEF ConvStep, ServerStep, Running, TypeOK
<1>1. c \in Running BY DEF Send, RespondCut, Finish, RespondOk, RespondError
<1>2. CASE Send(c) \/ RespondCut(c) BY <1>2 DEF Send, RespondCut
<1>3. CASE RespondOk(c) \/ RespondError(c) BY <1>3 DEF RespondOk, RespondError
<1>4. CASE Finish(c) BY <1>1, <1>4
<1> QED BY <1>1, <1>2, <1>3, <1>4

\* A conversation's step leaves the driver where it is and may only end the context.
LEMMA ConvFrame ==
  ASSUME TypeOK, NEW c \in Slots, ConvStep(c) \/ ServerStep(c)
  PROVE  /\ UNCHANGED driverVars
         /\ ctxDone => ctxDone'
<1> USE DEF ConvStep, ServerStep
<1>1. UNCHANGED driverVars BY DEF Send, RespondCut, Finish, RespondOk, RespondError
<1>2. ctxDone => ctxDone'
  BY DEF Send, RespondCut, Finish, RespondOk, RespondError, TrackRequestStatus
<1> QED BY <1>1, <1>2

\* Nothing runs between stages.
LEMMA QuietStep == IInv /\ [Next]_vars => QuietInv'
<1> SUFFICES ASSUME IInv, [Next]_vars PROVE QuietInv' OBVIOUS
<1> USE DEF QuietInv
<1>1. CASE UNCHANGED pc /\ UNCHANGED <<phase, pending>> BY <1>1 DEF IInv, Running
<1>2. CASE Driver
  <2>1. CASE LeaveLoop \/ OnBarrier \/ NextStage \/ StopEarly
    BY <2>1 DEF IInv, LeaveLoop, OnBarrier, NextStage, StopEarly, convVars, Running
  <2>2. CASE StartStage \/ StopDispatch \/ NextArrival \/ Arrival \/ Acquire \/ Dispatch
    BY <2>2 DEF StartStage, StopDispatch, NextArrival, Arrival, Acquire, Dispatch
  <2>3. CASE Drained BY <2>3 DEF Drained, convVars, Running
  <2>4. CASE Flushed BY <2>4 DEF IInv, Flushed, convVars, Running
  <2> QED BY <1>2, <2>1, <2>2, <2>3, <2>4 DEF Driver
<1>3. CASE TimeUp \/ Interrupt BY <1>1, <1>3 DEF TimeUp, Interrupt, convVars
<1>4. ASSUME NEW c \in Slots, ConvStep(c) \/ ServerStep(c) PROVE QuietInv'
  <2>1. c \in Running BY <1>4, ConvRuns DEF IInv
  <2>2. phase \notin {"top", "flush", "complete", "end"} BY <2>1 DEF IInv
  <2>3. phase' = phase BY <1>4, ConvFrame DEF IInv, driverVars
  <2> QED BY <2>2, <2>3
<1>5. CASE RecordResult
  <2>1. phase \notin {"top", "complete", "end"} BY <1>5 DEF IInv, RecordResult
  <2> QED BY <1>5, <2>1 DEF IInv, RecordResult, driverVars, convVars, Running
<1>6. CASE UNCHANGED vars BY <1>1, <1>6 DEF vars, convVars
<1> QED BY <1>2, <1>3, <1>4, <1>5, <1>6 DEF Next, Returned

\* The semaphore counts the running conversations.
LEMMA SemStep == IInv /\ [Next]_vars => SemInv'
<1> SUFFICES ASSUME IInv, [Next]_vars, Cap' > 0
    PROVE  /\ sem' <= Cap'
           /\ phase' \in {"loop", "gap", "acquire"} => sem' = Cardinality(Running')
           /\ phase' = "dispatch" => sem' = Cardinality(Running') + 1
           /\ phase' = "drain" => Cardinality(Running') <= sem'
  BY DEF SemInv
<1>1. UNCHANGED <<plan, id>>
  <2>1. CASE Driver
    BY <2>1 DEF Driver, LeaveLoop, OnBarrier, NextStage, StopEarly, StartStage, StopDispatch,
       NextArrival, Arrival, Acquire, Dispatch, Drained, Flushed
  <2>2. CASE TimeUp \/ Interrupt BY <2>2 DEF TimeUp, Interrupt
  <2>3. CASE \E c \in Slots : ConvStep(c) \/ ServerStep(c)
    BY <2>3, ConvFrame DEF IInv, driverVars
  <2>4. CASE RecordResult \/ UNCHANGED vars BY <2>4 DEF RecordResult, driverVars, vars
  <2> QED BY <2>1, <2>2, <2>3, <2>4 DEF Next, Returned
<1>2. Cap' = Cap /\ Cap \in Nat BY <1>1, CapConstant, CapType DEF IInv
<1>3. sem \in Nat /\ Cardinality(Running) \in Nat BY RunningFinite DEF IInv, TypeOK
<1>4. /\ Cap > 0 /\ sem <= Cap
      /\ phase \in {"loop", "gap", "acquire"} => sem = Cardinality(Running)
      /\ phase = "dispatch" => sem = Cardinality(Running) + 1
      /\ phase = "drain" => Cardinality(Running) <= sem
  BY <1>2 DEF IInv, SemInv
<1> USE <1>2, <1>3, <1>4
<1>5. CASE Driver
  <2>1. CASE LeaveLoop \/ OnBarrier \/ NextStage \/ StopEarly \/ Drained \/ Flushed
    BY <2>1 DEF LeaveLoop, OnBarrier, NextStage, StopEarly, Drained, Flushed
  <2>2. CASE StartStage
    <3>1. Running = {} BY <2>2 DEF IInv, QuietInv, StartStage
    <3>2. Running' = Running BY <2>2 DEF StartStage, convVars, Running
    <3>3. Cardinality(Running') = 0 BY <3>1, <3>2, FS_EmptySet
    <3> QED BY <2>2, <3>3 DEF StartStage
  <2>3. CASE StopDispatch \/ NextArrival \/ Arrival \/ Acquire
    <3>1. Running' = Running
      BY <2>3 DEF StopDispatch, NextArrival, Arrival, Acquire, convVars, Running
    <3>2. CASE StopDispatch \/ NextArrival \/ Arrival
      BY <3>1, <3>2 DEF StopDispatch, NextArrival, Arrival
    <3>3. CASE Acquire BY <3>1, <3>3 DEF Acquire
    <3> QED BY <2>3, <3>2, <3>3
  <2>4. CASE Dispatch
    <3>1. Cardinality(Running') = Cardinality(Running) + 1 BY <2>4, DispatchRuns DEF IInv
    <3> QED BY <2>4, <3>1 DEF Dispatch
  <2> QED BY <1>5, <2>1, <2>2, <2>3, <2>4 DEF Driver
<1>6. CASE UNCHANGED <<phase, sem>> /\ Running' = Running BY <1>6
<1>7. CASE TimeUp \/ Interrupt BY <1>6, <1>7 DEF TimeUp, Interrupt, convVars, Running
<1>8. ASSUME NEW c \in Slots, ConvStep(c) \/ ServerStep(c), ~Finish(c)
      PROVE  UNCHANGED <<phase, sem>> /\ Running' = Running
  BY <1>8, ConvRuns, ConvFrame
     DEF IInv, driverVars, ConvStep, ServerStep, Send, RespondCut, RespondOk, RespondError
<1>9. ASSUME NEW c \in Slots, Finish(c)
      PROVE  /\ sem' = sem - 1 /\ sem > 0 /\ phase' = phase
             /\ Cardinality(Running') = Cardinality(Running) - 1
  BY <1>9, FinishRuns DEF IInv, Finish, driverVars
<1>10. CASE \E c \in Slots : Finish(c)
  <2>1. PICK c \in Slots : Finish(c) BY <1>10
  <2> QED BY <2>1, <1>9
<1>11. CASE \E c \in Slots : (ConvStep(c) \/ ServerStep(c)) /\ ~Finish(c) BY <1>6, <1>8, <1>11
<1>12. CASE RecordResult \/ UNCHANGED vars
  BY <1>6, <1>12 DEF RecordResult, driverVars, vars, convVars, Running
<1> QED BY <1>5, <1>7, <1>10, <1>11, <1>12 DEF Next, Returned

\* The dispatch loop counts up to the limit and no further.
LEMMA LimitStep == IInv /\ [Next]_vars => LimitInv'
<1> SUFFICES ASSUME IInv, [Next]_vars PROVE LimitInv' OBVIOUS
<1> USE DEF LimitInv, Dispatching, Waiting
<1>1. TypeOK /\ LimitInv /\ dispatched \in Nat BY DEF IInv, TypeOK
<1>2. i <= Len(plan) => plan[i].max \in Nat BY <1>1, CurrentStage
<1>3. CASE Driver
  <2>1. CASE LeaveLoop \/ OnBarrier \/ NextStage \/ StopEarly
    BY <2>1 DEF LeaveLoop, OnBarrier, NextStage, StopEarly
  <2>2. CASE StartStage BY <1>2, <2>2 DEF StartStage
  <2>3. CASE StopDispatch \/ NextArrival
    BY <1>1, <1>2, <2>3 DEF StopDispatch, NextArrival, LimitReached, DispatchDone
  <2>4. CASE Arrival \/ Acquire BY <1>1, <2>4 DEF Arrival, Acquire, DispatchDone
  <2>5. CASE Dispatch
    <3>1. i <= Len(plan) /\ plan[i].max \in Nat BY <1>1, <1>2, <2>5 DEF Dispatch
    <3>2. plan[i].max > 0 => dispatched < plan[i].max BY <1>1, <2>5 DEF Dispatch
    <3>3. plan[i].max > 0 => dispatched' <= plan[i].max
      BY <1>1, <2>5, <3>1, <3>2 DEF Dispatch, LesserOf
    <3> QED BY <2>5, <3>1, <3>3 DEF Dispatch
  <2>6. CASE Drained \/ Flushed BY <1>1, <2>6 DEF Drained, Flushed, DispatchDone
  <2> QED BY <1>3, <2>1, <2>2, <2>3, <2>4, <2>5, <2>6 DEF Driver
<1>4. ASSUME UNCHANGED <<plan, i, phase, dispatched>>, ctxDone => ctxDone', timeUp => timeUp'
      PROVE  LimitInv'
  BY <1>1, <1>4 DEF DispatchDone
<1>5. CASE TimeUp \/ Interrupt BY <1>4, <1>5 DEF TimeUp, Interrupt
<1>6. CASE \E c \in Slots : ConvStep(c) \/ ServerStep(c)
  BY <1>1, <1>4, <1>6, ConvFrame DEF driverVars
<1>7. CASE RecordResult \/ UNCHANGED vars BY <1>4, <1>7 DEF RecordResult, driverVars, vars
<1> QED BY <1>3, <1>5, <1>6, <1>7 DEF Next, Returned

\* A conversation that goes on has a turn left, one that is over has none.
LEMMA TurnsStep == IInv /\ [Next]_vars => TurnsInv'
<1> SUFFICES ASSUME IInv, [Next]_vars PROVE TurnsInv' OBVIOUS
<1> USE DEF TurnsInv
<1>1. TypeOK /\ TurnsInv BY DEF IInv
<1>2. pc \in [Slots -> ConvPhases] /\ left \in [Slots -> 0..MaxTurns] /\ MaxTurns \in Nat
  BY <1>1, BoundsAssumption DEF TypeOK
<1>3. ASSUME UNCHANGED <<pc, left>>, ctxDone => ctxDone' PROVE TurnsInv' BY <1>1, <1>3
<1>4. CASE Driver
  <2>1. CASE Dispatch
    <3> DEFINE d == CHOOSE s \in Slots : s \notin Running
    <3>1. pc' = [pc EXCEPT ![d] = "ready"] /\ ctxDone' = ctxDone BY <2>1 DEF Dispatch
    <3>2. PICK turns \in 1..MaxTurns : left' = [left EXCEPT ![d] = turns] BY <2>1 DEF Dispatch
    <3> HIDE DEF d
    <3> QED BY <1>1, <1>2, <3>1, <3>2
  <2>2. CASE ~Dispatch
    BY <1>3, <1>4, <2>2 DEF Driver, LeaveLoop, OnBarrier, NextStage, StopEarly, StartStage,
       StopDispatch, NextArrival, Arrival, Acquire, Drained, Flushed, convVars
  <2> QED BY <2>1, <2>2
<1>5. CASE TimeUp \/ Interrupt BY <1>3, <1>5 DEF TimeUp, Interrupt, convVars
<1>6. ASSUME NEW c \in Slots, ConvStep(c) \/ ServerStep(c) PROVE TurnsInv'
  <2>1. ctxDone => ctxDone' BY <1>1, <1>6, ConvFrame
  <2>2. CASE Send(c) BY <1>1, <1>2, <2>2 DEF Send
  <2>3. CASE RespondOk(c)
    <3>1. /\ pc' = [pc EXCEPT ![c] = IF left[c] > 1 THEN "ready" ELSE "over"]
          /\ left' = [left EXCEPT ![c] = @ - 1] /\ pc[c] = "sent"
      BY <2>3 DEF RespondOk
    <3>2. left[c] \in Nat /\ left[c] > 0 BY <1>1, <1>2, <3>1
    <3> QED BY <1>1, <1>2, <2>1, <3>1, <3>2
  <2>4. CASE RespondError(c)
    <3>1. pc' = [pc EXCEPT ![c] = "over"] /\ left' = [left EXCEPT ![c] = 0]
      BY <2>4 DEF RespondError
    <3> QED BY <1>1, <1>2, <2>1, <3>1
  <2>5. CASE RespondCut(c)
    <3>1. pc' = [pc EXCEPT ![c] = "over"] /\ left' = [left EXCEPT ![c] = 0]
      BY <2>5 DEF RespondCut
    <3> QED BY <1>1, <1>2, <2>1, <3>1
  <2>6. CASE Finish(c) BY <1>1, <1>2, <2>6 DEF Finish
  <2> QED BY <1>6, <2>2, <2>3, <2>4, <2>5, <2>6 DEF ConvStep, ServerStep
<1>7. CASE RecordResult \/ UNCHANGED vars
  BY <1>3, <1>7 DEF RecordResult, driverVars, vars, convVars
<1> QED BY <1>4, <1>5, <1>6, <1>7 DEF Next, Returned

LEMMA InitInv == Init => IInv
<1> SUFFICES ASSUME Init PROVE IInv OBVIOUS
<1>1. Running = {} BY DEF Init, Running
<1>2. TypeOK BY TypeInit
<1>3. QuietInv /\ LimitInv BY <1>1 DEF Init, QuietInv, LimitInv, Dispatching, Waiting
<1>4. SemInv BY <1>2, CapType DEF Init, SemInv
<1>5. TurnsInv BY DEF Init, TurnsInv
<1> QED BY <1>2, <1>3, <1>4, <1>5 DEF IInv

LEMMA Invariant == Spec => []IInv
<1>1. IInv /\ [Next]_vars => IInv'
  BY TypeStep, QuietStep, SemStep, LimitStep, TurnsStep DEF IInv
<1> QED BY <1>1, InitInv, PTL DEF Spec

-----------------------------------------------------------------------------
\* Every variable of the open-loop generator keeps its type.
THEOREM TypeCorrect == Spec => []TypeOK
<1>1. IInv => TypeOK BY DEF IInv
<1> QED BY <1>1, Invariant, PTL

\* With a cap, no more conversations than the worker's share of it are alive, and
\* each has its token in the semaphore: the deferred receive never blocks.
THEOREM InFlightIsCapped == Spec => []InFlightCapped
<1>1. IInv => InFlightCapped
  <2> SUFFICES ASSUME IInv, Cap > 0
      PROVE  Cardinality(Running) <= sem /\ sem <= Cap /\ Cardinality(Running) <= Cap
    BY DEF InFlightCapped
  <2>1. Cap \in Nat /\ sem \in Nat /\ Cardinality(Running) \in Nat
    BY CapType, RunningFinite DEF IInv, TypeOK
  <2>2. sem <= Cap BY DEF IInv, SemInv
  <2>3. Cardinality(Running) <= sem
    <3>1. CASE phase \in {"top", "flush", "complete", "end"}
      <4>1. Cardinality(Running) = 0 BY <3>1, FS_EmptySet DEF IInv, QuietInv
      <4> QED BY <2>1, <4>1
    <3>2. CASE phase \notin {"top", "flush", "complete", "end"}
      BY <2>1, <3>2 DEF IInv, SemInv, TypeOK, Phases
    <3> QED BY <3>1, <3>2
  <2> QED BY <2>1, <2>2, <2>3
<1> QED BY <1>1, Invariant, PTL

\* Between stages, at barriers and at the end nothing is in flight or unrecorded.
THEOREM StagesDrain == Spec => []Drains
<1>1. IInv => Drains BY DEF IInv, QuietInv, Drains
<1> QED BY <1>1, Invariant, PTL

\* A stage starts no more conversations than max_requests, and exactly that many
\* when its dispatch loop ends before its time.
THEOREM DispatchIsExact == Spec => []ExactDispatch
<1>1. IInv => ExactDispatch
  BY DEF IInv, TypeOK, Phases, LimitInv, Dispatching, Waiting, ExactDispatch
<1> QED BY <1>1, Invariant, PTL

\* The end of a stage's arrivals cuts no conversation short.
THEOREM ConversationsRunOut == Spec => []ConversationsFinish
<1>1. IInv => ConversationsFinish BY DEF IInv, TurnsInv, ConversationsFinish
<1> QED BY <1>1, Invariant, PTL

-----------------------------------------------------------------------------
(* The request recorder, for any number of writers and closers and any     *)
(* channel capacity.                                                       *)

\* The flag and the channel are closed together and never under a writer that
\* has passed the check.
ClosedInv ==
  /\ chClosed = closed
  /\ \A w \in Writers : wpc[w] = "send" => ~closed

\* An accepted record is in memory, in drain's hand or in the channel.
KeptInv ==
  /\ Accepted = Elements(records) \cup hand \cup Elements(ch)
  /\ \A x, y \in hand : x = y

\* drain ends with nothing left, and a Close returns only after drain.
DoneInv ==
  /\ done => closed /\ hand = {} /\ ch = <<>>
  /\ once = "done" => done
  /\ \A c \in Closers : cpc[c] = "returned" => done

RecInv == RecorderTypeOK /\ ClosedInv /\ KeptInv /\ DoneInv

-----------------------------------------------------------------------------
(* The elements of a channel or a buffer.                                  *)

LEMMA AppendElements ==
  ASSUME NEW S, NEW q \in Seq(S), NEW x \in S
  PROVE  /\ Append(q, x) \in Seq(S) /\ Len(Append(q, x)) = Len(q) + 1
         /\ Elements(Append(q, x)) = Elements(q) \cup {x}
<1>1. /\ Append(q, x) \in Seq(S) /\ Len(Append(q, x)) = Len(q) + 1
      /\ \A n \in 1..Len(q) : Append(q, x)[n] = q[n]
      /\ Append(q, x)[Len(q) + 1] = x
  OBVIOUS
<1>2. 1..(Len(q) + 1) = 1..Len(q) \cup {Len(q) + 1}
  OBVIOUS
<1> QED
  BY <1>1, <1>2 DEF Elements

LEMMA TailElements ==
  ASSUME NEW S, NEW q \in Seq(S), q # <<>>
  PROVE  /\ Head(q) \in S /\ Tail(q) \in Seq(S) /\ Len(Tail(q)) = Len(q) - 1
         /\ Elements(q) = {Head(q)} \cup Elements(Tail(q))
<1>1. /\ Head(q) = q[1] /\ Head(q) \in S /\ Tail(q) \in Seq(S) /\ Len(q) \in Nat \ {0}
      /\ Len(Tail(q)) = Len(q) - 1
      /\ \A n \in 1..(Len(q) - 1) : Tail(q)[n] = q[n + 1]
  OBVIOUS
<1>2. \A n \in 1..Len(q) : n = 1 \/ (n - 1 \in 1..(Len(q) - 1) /\ q[n] = Tail(q)[n - 1])
  BY <1>1
<1>3. \A n \in 1..(Len(q) - 1) : n + 1 \in 1..Len(q)
  BY <1>1
<1>4. Elements(q) \subseteq {Head(q)} \cup Elements(Tail(q))
  BY <1>1, <1>2 DEF Elements
<1>5. Elements(Tail(q)) \subseteq Elements(q)
  BY <1>1, <1>3 DEF Elements
<1>6. Head(q) \in Elements(q)
  BY <1>1 DEF Elements
<1> QED
  BY <1>1, <1>4, <1>5, <1>6

LEMMA EmptyElements == Elements(<<>>) = {}
  BY DEF Elements

-----------------------------------------------------------------------------
LEMMA RecInit == RecorderInit => RecInv
<1> SUFFICES ASSUME RecorderInit PROVE RecInv
  OBVIOUS
<1>1. RecorderTypeOK
  <2>1. closed \in BOOLEAN /\ chClosed \in BOOLEAN /\ done \in BOOLEAN
    BY Zenon DEF RecorderInit
  <2>2. <<>> \in Seq(Writers) /\ Len(<<>>) <= Capacity
    BY CapacityAssumption
  <2> QED
    BY <2>1, <2>2 DEF RecorderInit, RecorderTypeOK, WritePhases, ClosePhases
<1>2. ClosedInv /\ DoneInv
  BY DEF RecorderInit, ClosedInv, DoneInv
<1>3. KeptInv
  BY EmptyElements DEF RecorderInit, KeptInv, Accepted
<1> QED
  BY <1>1, <1>2, <1>3 DEF RecInv

\* A step of a writer.
LEMMA WriteInv ==
  ASSUME RecInv, NEW w \in Writers, WriteStep(w)
  PROVE  RecInv'
<1> USE DEF RecInv, RecorderTypeOK, ClosedInv, KeptInv, DoneInv, Accepted, WritePhases
<1>1. CASE RLock(w) BY <1>1 DEF RLock
<1>2. CASE CheckClosed(w) BY <1>2 DEF CheckClosed
<1>3. CASE SendRecord(w)
  <2>1. /\ ch' \in Seq(Writers) /\ Len(ch') = Len(ch) + 1
        /\ Elements(ch') = Elements(ch) \cup {w}
    BY <1>3, AppendElements DEF SendRecord
  <2>2. Len(ch') <= Capacity
    BY CapacityAssumption, <1>3, <2>1 DEF SendRecord
  <2>3. /\ wpc' = [wpc EXCEPT ![w] = "ok"] /\ wpc[w] = "send" /\ ~closed /\ ~done
        /\ UNCHANGED <<cpc, once, closed, chClosed, hand, records, file, done, reports>>
    BY <1>3 DEF SendRecord
  <2>4. Accepted' = Accepted \cup {w}
    BY <2>3
  <2>5. wpc' \in [Writers -> WritePhases] /\ \A v \in Writers : wpc'[v] = "send" => ~closed'
    BY <2>3
  <2>6. KeptInv'
    BY <2>1, <2>3, <2>4
  <2> QED
    BY <2>1, <2>2, <2>3, <2>5, <2>6
<1> QED
  BY <1>1, <1>2, <1>3 DEF WriteStep

\* A step of a caller of Close.
LEMMA CloseInv ==
  ASSUME RecInv, NEW c \in Closers, CloseStep(c) \/ Records(c)
  PROVE  RecInv'
<1> USE DEF RecInv, RecorderTypeOK, ClosedInv, KeptInv, DoneInv, Accepted, ClosePhases
<1>1. CASE Close(c) BY <1>1 DEF Close
<1>2. CASE Lock(c) BY <1>2 DEF Lock, Readers
<1>3. CASE CloseReturns(c) BY <1>3 DEF CloseReturns
<1>4. CASE OnceDone(c) BY <1>4 DEF OnceDone
<1>5. CASE Records(c)
  <2>1. Elements(records) \subseteq Writers
    BY DEF Elements
  <2> QED
    BY <1>5, <2>1 DEF Records
<1> QED
  BY <1>1, <1>2, <1>3, <1>4, <1>5 DEF CloseStep

\* A step of drain.
LEMMA DrainInv ==
  ASSUME RecInv, Drain
  PROVE  RecInv'
<1> USE DEF RecInv, RecorderTypeOK, ClosedInv, KeptInv, DoneInv, Accepted
<1>1. CASE Receive
  <2>1. /\ Tail(ch) \in Seq(Writers) /\ Len(Tail(ch)) = Len(ch) - 1 /\ Head(ch) \in Writers
        /\ Elements(ch) = {Head(ch)} \cup Elements(Tail(ch))
    BY <1>1, TailElements DEF Receive
  <2>2. Len(Tail(ch)) <= Capacity
    BY CapacityAssumption, <2>1
  <2> QED
    BY <1>1, <2>1, <2>2 DEF Receive
<1>2. CASE Store
  <2>1. PICK r \in hand : records' = Append(records, r) /\ (file' = Append(file, r) \/ file' = file)
    BY <1>2 DEF Store
  <2>2. r \in Writers /\ hand = {r}
    BY <2>1
  <2>3. records' \in Seq(Writers) /\ Elements(records') = Elements(records) \cup {r}
    BY <2>1, <2>2, AppendElements
  <2>4. file' \in Seq(Writers)
    <3>1. Append(file, r) \in Seq(Writers)
      BY <2>2, AppendElements
    <3> QED
      BY <2>1, <3>1
  <2>5. /\ hand' = {} /\ UNCHANGED <<wpc, cpc, once, closed, chClosed, ch, done, reports>>
    BY <1>2 DEF Store
  <2> QED
    BY <2>2, <2>3, <2>4, <2>5
<1>3. CASE Stop BY <1>3 DEF Stop
<1> QED
  BY <1>1, <1>2, <1>3 DEF Drain

LEMMA RecStep ==
  ASSUME RecInv, [RecorderNext]_recorderVars
  PROVE  RecInv'
<1>1. CASE UNCHANGED recorderVars
  BY <1>1 DEF recorderVars, RecInv, RecorderTypeOK, ClosedInv, KeptInv, DoneInv, Accepted
<1> QED
  BY <1>1, WriteInv, CloseInv, DrainInv DEF RecorderNext

LEMMA RecInvariance == RecorderSpec => []RecInv
  BY RecInit, RecStep, PTL DEF RecorderSpec

\* Every variable of the recorder keeps its type, and the channel its capacity.
THEOREM RecorderTypeCorrect == RecorderSpec => []RecorderTypeOK
<1>1. RecInv => RecorderTypeOK
  BY DEF RecInv
<1> QED
  BY <1>1, RecInvariance, PTL

\* Write never sends on the channel after Close has closed it.
THEOREM NeverSendsOnClosed == RecorderSpec => []NoSendOnClosed
<1>1. RecInv => NoSendOnClosed
  BY DEF RecInv, ClosedInv, NoSendOnClosed
<1> QED
  BY <1>1, RecInvariance, PTL

\* When any caller's Close has returned, memory holds exactly the records whose
\* Write returned nil.
THEOREM CloseKeepsAccepted == RecorderSpec => []AcceptedKept
<1>1. RecInv => AcceptedKept
  BY EmptyElements DEF RecInv, KeptInv, DoneInv, AcceptedKept
<1> QED
  BY <1>1, RecInvariance, PTL

-----------------------------------------------------------------------------
(* The recorder implements RecordLog.                                      *)

\* A writer's step accepts a record into an unsealed log or changes nothing.
LEMMA WriteRefines ==
  ASSUME RecInv, NEW w \in Writers, WriteStep(w)
  PROVE  Log!Accept \/ UNCHANGED <<Accepted, closed, reports>>
<1> USE DEF RecInv, RecorderTypeOK, Accepted
<1>1. CASE RLock(w) BY <1>1 DEF RLock
<1>2. CASE CheckClosed(w) BY <1>2 DEF CheckClosed
<1>3. CASE SendRecord(w)
  <2>1. /\ wpc' = [wpc EXCEPT ![w] = "ok"] /\ wpc[w] = "send" /\ ~closed
        /\ UNCHANGED <<closed, reports>>
    BY <1>3 DEF SendRecord, ClosedInv
  <2>2. Accepted' = Accepted \cup {w} /\ w \in Writers \ Accepted
    BY <2>1
  <2> HIDE DEF Accepted
  <2> QED
    BY <2>1, <2>2 DEF Log!Accept
<1> QED
  BY <1>1, <1>2, <1>3 DEF WriteStep

\* Close seals the log, and Records after Close reads all of it.
LEMMA CloseRefines ==
  ASSUME RecInv, NEW c \in Closers, CloseStep(c) \/ Records(c)
  PROVE  Log!Seal \/ Log!Read \/ UNCHANGED <<Accepted, closed, reports>>
<1> USE DEF Accepted
<1>1. CASE Close(c) \/ CloseReturns(c) \/ OnceDone(c)
  BY <1>1 DEF Close, CloseReturns, OnceDone
<1>2. CASE Lock(c)
  <2>1. closed' = TRUE /\ UNCHANGED <<wpc, reports>> /\ closed \in BOOLEAN
    BY <1>2 DEF Lock, RecInv, RecorderTypeOK
  <2> QED
    BY <2>1 DEF Log!Seal
<1>3. CASE Records(c)
  <2>1. done /\ closed /\ Elements(records) = Accepted
    BY <1>3, EmptyElements DEF Records, RecInv, DoneInv, KeptInv
  <2>2. reports' = reports \cup {Elements(records)} /\ UNCHANGED <<wpc, closed>>
    BY <1>3 DEF Records
  <2> QED
    BY <2>1, <2>2 DEF Log!Read
<1> QED
  BY <1>1, <1>2, <1>3 DEF CloseStep

\* drain is invisible to the recorder's callers.
LEMMA DrainRefines ==
  ASSUME Drain \/ UNCHANGED recorderVars
  PROVE  UNCHANGED <<Accepted, closed, reports>>
  BY DEF Drain, Receive, Store, Stop, recorderVars, Accepted

\* The recorder with its lock, channel, background goroutine and repeated Close
\* implements the simple log: nothing accepted is lost, nothing is accepted
\* after the seal, and Records after Close returns every accepted record.
THEOREM RecorderImplementsLog == RecorderSpec => LogSpec
<1>1. RecorderInit => Log!Init
  BY DEF RecorderInit, Log!Init, Accepted
<1>2. RecInv /\ [RecorderNext]_recorderVars => [Log!Next]_<<Accepted, closed, reports>>
  BY WriteRefines, CloseRefines, DrainRefines DEF RecorderNext, Log!Next
<1> QED
  BY <1>1, <1>2, RecInvariance, PTL DEF RecorderSpec, LogSpec, Log!Spec
=============================================================================
