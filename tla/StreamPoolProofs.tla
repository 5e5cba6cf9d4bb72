-------------------------- MODULE StreamPoolProofs --------------------------
(***************************************************************************)
(* Proofs about StreamPool for every stage list, every number of streams   *)
(* and every bound: its typing, and the inductive invariant from which the *)
(* safety invariants of the model-checked instance follow.                 *)
(***************************************************************************)
EXTENDS StreamPool, FiniteSetTheorems, TLAPS

StagePhases == {"onStage", "wait", "drain", "drainStop", "complete"}
BarrierPhases == {"barrierStop", "barrierFlush", "barrier"}

\* Where the driver is inside the plan, and which counter is then current.
DriverInv ==
  /\ phase \in StagePhases => i \in 1..Len(plan) /\ cur = i
  /\ phase \in BarrierPhases => i \in 1..Len(plan)
  /\ \A s \in Streams : Live(s) \/ fill[s] # Idle => cur \in 1..Len(plan)

\* The counter of a limited stage never passes its limit, because a fill that is
\* about to swap it has seen a value below the limit.
CounterInv ==
  /\ granted = count
  /\ \A k \in 1..Len(plan) : Limit(k) > 0 => count[k] <= Limit(k)
  /\ \A k \in 1..Len(plan) : Limit(k) > 0 /\ done[k] => count[k] = Limit(k)
  /\ \A s \in Streams : fill[s].at \in {"read", "cas"} => Limit(fill[s].st) > 0
  /\ \A s \in Streams : fill[s].at = "cas" => fill[s].seen < Limit(fill[s].st)

\* A fill runs only while the channel it will send into is empty.
ChannelInv ==
  /\ FillNeverBlocks
  /\ \A s \in Streams : pc[s] = "delay" => fill[s] = Idle /\ prefetch[s] = Empty
  /\ \A s \in Streams : pc[s] = "unused" => prefetch[s] = Empty

\* The pool lists exactly live streams, and a live one it does not list was cancelled.
PoolInv ==
  /\ \A s \in streams : Live(s)
  /\ \A s \in Streams : Live(s) => s \in streams \cup cancelled
  /\ phase \in {"wait", "drain"} => Cardinality(streams) <= plan[i].conc

\* Past a wait for the streams none is alive; past a wait for the records none is pending.
DrainInv ==
  /\ phase \in {"flush", "end", "barrierFlush"} => AllGone
  /\ phase = "end" => pending = 0
  /\ phase = "barrier" /\ plan[i].kind = "drain" => AllGone /\ pending = 0

IInv == TypeOK /\ DriverInv /\ CounterInv /\ ChannelInv /\ PoolInv /\ DrainInv
-----------------------------------------------------------------------------
\* The stages of a plan, field by field.
LEMMA PlanFacts ==
  ASSUME plan \in Plans
  PROVE  /\ Len(plan) \in Nat
         /\ \A k \in 1..Len(plan) : /\ plan[k].max \in Nat
                                    /\ plan[k].conc \in Nat
                                    /\ Limit(k) \in Nat
<1>1. plan \in Seq(Stage)
  BY PlansAssumption
<1>2. Len(plan) \in Nat /\ \A k \in 1..Len(plan) : plan[k] \in Stage
  BY <1>1
<1> QED
  BY <1>2 DEF Stage, Limit

\* The states a fill goroutine can be put into are fill states, and distinct.
LEMMA FillFacts ==
  /\ Idle \in FillStates /\ Idle.at = "idle"
  /\ Starting \in FillStates /\ Starting.at = "load" /\ Starting # Idle
  /\ \A k, n \in Nat : /\ Read(k) \in FillStates /\ Read(k).at = "read" /\ Read(k).st = k
                       /\ Cas(k, n) \in FillStates /\ Cas(k, n).at = "cas"
                       /\ Cas(k, n).st = k /\ Cas(k, n).seen = n
  BY DEF Idle, Starting, Read, Cas, FillStates

\* Two arithmetic facts, stated once so that the provers meet them alone.
LEMMA NatSuccessor == \A n \in Nat : n + 1 \in Nat
  OBVIOUS

LEMMA LesserOfType == \A a, b \in Nat : LesserOf(a, b) \in Nat
  BY DEF LesserOf

-----------------------------------------------------------------------------
(* Typing, together with the driver's position it depends on.              *)

\* The driver steps that only move the phase, cancel streams or flush records.
LEMMA MoveTypes ==
  ASSUME TypeOK, DriverInv,
         \/ LeaveLoop \/ EnterBarrier \/ BarrierStopped \/ BarrierFlushed
         \/ StageOver \/ StageExhausted \/ DrainDone \/ DrainGivenUp \/ DrainStopped
         \/ StopEarly \/ FinalStopped \/ Return \/ Interrupt \/ RecordResult
         \/ UNCHANGED vars
  PROVE  TypeOK' /\ DriverInv'
<1> USE BoundsAssumption, PlanFacts
    DEF TypeOK, DriverInv, Live, CancelPool, StagePhases, BarrierPhases, Phases,
        driverVars, counterVars, streamVars, history, vars
<1>1. CASE LeaveLoop BY <1>1 DEF LeaveLoop
<1>2. CASE EnterBarrier BY <1>2, SMTT(60) DEF EnterBarrier
<1>3. CASE BarrierStopped BY <1>3 DEF BarrierStopped
<1>4. CASE BarrierFlushed BY <1>4 DEF BarrierFlushed
<1>5. CASE StageOver BY <1>5 DEF StageOver
<1>6. CASE StageExhausted BY <1>6 DEF StageExhausted
<1>7. CASE DrainDone BY <1>7 DEF DrainDone
<1>8. CASE DrainGivenUp BY <1>8 DEF DrainGivenUp
<1>9. CASE DrainStopped BY <1>9 DEF DrainStopped
<1>10. CASE StopEarly BY <1>10 DEF StopEarly
<1>11. CASE FinalStopped BY <1>11 DEF FinalStopped
<1>12. CASE Return BY <1>12 DEF Return
<1>13. CASE Interrupt BY <1>13 DEF Interrupt
<1>14. CASE RecordResult BY <1>14 DEF RecordResult
<1>15. CASE UNCHANGED vars BY <1>15
<1> QED
  BY <1>1, <1>2, <1>3, <1>4, <1>5, <1>6, <1>7, <1>8, <1>9, <1>10, <1>11, <1>12,
     <1>13, <1>14, <1>15

\* The driver steps that advance the index, store a counter or resize the pool.
LEMMA StageTypes ==
  ASSUME TypeOK, DriverInv,
         OnBarrier \/ NextStage \/ StoreState \/ Grow \/ Shrink
  PROVE  TypeOK' /\ DriverInv'
<1> USE PlanFacts
    DEF TypeOK, DriverInv, Live, StagePhases, BarrierPhases, Phases,
        driverVars, counterVars, streamVars, history
<1>1. CASE OnBarrier
  <2>1. ctxDone' \in BOOLEAN
    BY <1>1, Zenon DEF OnBarrier
  <2>2. /\ phase = "barrier" /\ phase' = "top" /\ i' = i + 1
        /\ UNCHANGED <<plan, cur, count, done, pc, streams, cancelled, left, prefetch, fill, errors, pending, granted, begun, fresh>>
    BY <1>1 DEF OnBarrier
  <2> QED
    BY <2>1, <2>2
<1>2. CASE NextStage BY <1>2 DEF NextStage
<1>3. CASE StoreState
  <2>1. fresh' \in BOOLEAN
    BY <1>3 DEF StoreState
  <2> QED
    BY <1>3, <2>1 DEF StoreState
<1>4. CASE Grow
  <2> DEFINE new == SomeOf(Free, NewCount(plan[i].conc))
             delayed == IF plan[i].rampup THEN new \ {CHOOSE s \in new : TRUE} ELSE {}
  <2>1. new \in SUBSET Free
    BY <1>4 DEF Grow, SomeOf, HasSome
  <2>2. streams' = streams \cup new /\ Free \subseteq Streams
    BY <1>4 DEF Grow, Free
  <2>3. pc' \in [Streams -> StreamPhases]
    BY <1>4 DEF Grow, StreamPhases
  <2>4. /\ fill' \in [Streams -> FillStates]
        /\ \A s \in Streams : fill'[s].at \in {"read", "cas"} => fill'[s].st \in 1..Len(plan)
    BY <1>4, FillFacts DEF Grow
  <2>5. UNCHANGED <<plan, i, ctxDone, cur, count, done, cancelled, left, prefetch, errors, pending, granted, begun, fresh>>
        /\ phase' = "wait" /\ phase = "onStage"
    BY <1>4 DEF Grow
  <2> HIDE DEF new, delayed
  <2> QED
    BY <2>1, <2>2, <2>3, <2>4, <2>5
<1>5. CASE Shrink BY <1>5 DEF Shrink
<1> QED
  BY <1>1, <1>2, <1>3, <1>4, <1>5

\* The steps of a stream and of its fill.
LEMMA StreamTypes ==
  ASSUME TypeOK, DriverInv, NEW s \in Streams,
         StreamStep(s) \/ ServerStep(s) \/ FillStep(s)
  PROVE  TypeOK' /\ DriverInv'
<1> USE BoundsAssumption, PlanFacts, FillFacts
    DEF TypeOK, DriverInv, Live, StagePhases, BarrierPhases, StreamPhases,
        driverVars, counterVars, streamVars, history
<1>0. Live(s) \/ fill[s] # Idle => cur \in 1..Len(plan) /\ Limit(cur) \in Nat
  OBVIOUS
<1>1. CASE Begin(s) BY <1>1, SMTT(60) DEF Begin, LoopHead
<1>2. CASE GiveUp(s) BY <1>2 DEF GiveUp
<1>3. CASE Take(s)
  <2>1. begun' \in Nat
    <3>1. begun' = begun \/ begun' = LesserOf(begun + 1, Limit(cur) + 1)
      BY <1>3 DEF Take
    <3>2. begun \in Nat /\ Limit(cur) \in Nat
      BY <1>3, <1>0 DEF Take
    <3>3. begun + 1 \in Nat /\ Limit(cur) + 1 \in Nat
      BY <3>2, NatSuccessor, Zenon
    <3>4. LesserOf(begun + 1, Limit(cur) + 1) \in Nat
      BY <3>3, LesserOfType
    <3> QED
      BY <3>1, <3>2, <3>4
  <2>2. pc' \in [Streams -> StreamPhases] /\ \A t \in Streams : Live(t)' => Live(t)
    <3>1. \E p \in {"sent", "exited"} : pc' = [pc EXCEPT ![s] = p]
      BY <1>3 DEF Take
    <3>2. pc[s] = "select"
      BY <1>3 DEF Take
    <3> QED
      BY <3>1, <3>2
  <2>3. left' \in [Streams -> 0..MaxTurns]
    BY <1>3 DEF Take
  <2>4. prefetch' \in [Streams -> {Empty, Exhausted} \cup 1..Len(plan)]
    BY <1>3 DEF Take
  <2>5. /\ fill' \in [Streams -> FillStates]
        /\ \A t \in Streams : fill'[t].at \in {"read", "cas"} => fill'[t].st \in 1..Len(plan)
        /\ \A t \in Streams : fill'[t] # Idle => fill[t] # Idle \/ Live(s)
    BY <1>3 DEF Take
  <2>6. UNCHANGED <<plan, i, phase, ctxDone, cur, count, done, streams, cancelled, errors, pending, granted, fresh>>
    BY <1>3 DEF Take
  <2> QED
    BY <2>1, <2>2, <2>3, <2>4, <2>5, <2>6
<1>4. CASE TakeExhausted(s) BY <1>4 DEF TakeExhausted
<1>5. CASE RespondOk(s) BY <1>5, SMTT(60) DEF RespondOk, TrackRequestStatus, LoopHead
<1>6. CASE RespondError(s) BY <1>6 DEF RespondError, TrackRequestStatus, LoopHead, LesserOf
<1>7. CASE RespondCut(s) BY <1>7, SMTT(60) DEF RespondCut, TrackRequestStatus
<1>8. CASE Exit(s) BY <1>8, SMTT(60) DEF Exit
<1>9. ASSUME fill[s].at # "idle"
      PROVE  fill[s] # Idle /\ cur \in 1..Len(plan) /\ cur \in Nat /\ Limit(cur) \in Nat
  BY <1>9, <1>0
<1> DEFINE Items == {Empty, Exhausted} \cup 1..Len(plan)
           GoodFill(f) == f \in FillStates /\ (f.at \in {"read", "cas"} => f.st \in 1..Len(plan))
<1>10. ASSUME NEW f, GoodFill(f), fill' = [fill EXCEPT ![s] = f], plan' = plan
       PROVE  /\ fill' \in [Streams -> FillStates]
              /\ \A t \in Streams : fill'[t].at \in {"read", "cas"} => fill'[t].st \in 1..Len(plan')
  BY <1>10
<1>11. ASSUME NEW v \in Items, prefetch' = [prefetch EXCEPT ![s] = v]
       PROVE  prefetch' \in [Streams -> Items]
  BY <1>11
<1>12. CASE FillLoad(s)
  <2>1. cur \in 1..Len(plan) /\ cur \in Nat
    BY <1>9, <1>12 DEF FillLoad
  <2>2. UNCHANGED <<plan, i, phase, ctxDone, cur, count, done, pc, streams, cancelled, left, errors, pending, granted, begun, fresh>>
    BY <1>12 DEF FillLoad
  <2>3. GoodFill(Read(cur)) /\ GoodFill(Idle)
    BY <2>1
  <2>4. \E f : GoodFill(f) /\ fill' = [fill EXCEPT ![s] = f]
    <3> HIDE DEF GoodFill
    <3> QED BY <1>12, <2>3 DEF FillLoad, Put
  <2>5. prefetch' = prefetch \/ \E v \in Items : prefetch' = [prefetch EXCEPT ![s] = v]
    BY <1>12, <2>1 DEF FillLoad, Put
  <2> QED
    BY <2>1, <2>2, <2>4, <2>5, <1>10, <1>11, SMTT(60)
<1>13. CASE FillRead(s)
  <2> DEFINE k == fill[s].st
  <2>1. k \in 1..Len(plan) /\ k \in Nat /\ count[k] \in Nat /\ cur \in 1..Len(plan)
    BY <1>9, <1>13 DEF FillRead
  <2>2. UNCHANGED <<plan, i, phase, ctxDone, cur, count, pc, streams, cancelled, left, errors, pending, granted, begun, fresh>>
    BY <1>13 DEF FillRead
  <2>3. GoodFill(Cas(k, count[k])) /\ GoodFill(Idle)
    BY <2>1, SMTT(60)
  <2>4. \E f : GoodFill(f) /\ fill' = [fill EXCEPT ![s] = f]
    <3> HIDE DEF GoodFill
    <3> QED BY <1>13, <2>3 DEF FillRead, Put
  <2>5. prefetch' = prefetch \/ \E v \in Items : prefetch' = [prefetch EXCEPT ![s] = v]
    BY <1>13 DEF FillRead, Put
  <2>6. done' \in [1..Len(plan) -> BOOLEAN]
    <3>1. done' = done \/ done' = [done EXCEPT ![k] = TRUE]
      BY <1>13 DEF FillRead
    <3>2. CASE done' = done BY <3>2
    <3>3. CASE done' = [done EXCEPT ![k] = TRUE] BY <3>3, <2>1
    <3> QED BY <3>1, <3>2, <3>3
  <2> QED
    BY <2>1, <2>2, <2>4, <2>5, <2>6, <1>10, <1>11, SMTT(60)
<1>14. CASE FillCas(s)
  <2> DEFINE k == fill[s].st
  <2>1. k \in 1..Len(plan) /\ k \in Nat /\ cur \in 1..Len(plan)
    BY <1>9, <1>14, SMTT(60) DEF FillCas
  <2>2. UNCHANGED <<plan, i, phase, ctxDone, cur, done, pc, streams, cancelled, left, errors, pending, begun, fresh>>
    BY <1>14 DEF FillCas
  <2>3. GoodFill(Read(k)) /\ GoodFill(Idle)
    BY <2>1
  <2>4. \E f : GoodFill(f) /\ fill' = [fill EXCEPT ![s] = f]
    <3> HIDE DEF GoodFill
    <3> QED BY <1>14, <2>3 DEF FillCas, Put
  <2>5. prefetch' = prefetch \/ \E v \in Items : prefetch' = [prefetch EXCEPT ![s] = v]
    BY <1>14, <2>1 DEF FillCas, Put
  <2>6. count' \in [1..Len(plan) -> Nat] /\ granted' \in [1..Len(plan) -> Nat]
    <3>1. \/ UNCHANGED <<count, granted>>
          \/ /\ count' = [count EXCEPT ![k] = @ + 1]
             /\ granted' = [granted EXCEPT ![k] = @ + 1]
      BY <1>14 DEF FillCas
    <3>2. CASE UNCHANGED <<count, granted>> BY <3>2
    <3>3. CASE /\ count' = [count EXCEPT ![k] = @ + 1]
               /\ granted' = [granted EXCEPT ![k] = @ + 1]
      <4> HIDE DEF k
      <4>1. count[k] \in Nat
        BY <2>1
      <4>2. granted[k] \in Nat
        BY <2>1
      <4>3. count[k] + 1 \in Nat /\ granted[k] + 1 \in Nat
        BY <4>1, <4>2, NatSuccessor, Zenon
      <4>4. count' \in [1..Len(plan) -> Nat]
        BY <3>3, <4>3
      <4>5. granted' \in [1..Len(plan) -> Nat]
        BY <3>3, <4>3
      <4> QED BY <4>4, <4>5
    <3> QED BY <3>1, <3>2, <3>3
  <2>7. prefetch' \in [Streams -> Items]
    BY <2>5, <1>11
  <2>8. /\ fill' \in [Streams -> FillStates]
        /\ \A t \in Streams : fill'[t].at \in {"read", "cas"} => fill'[t].st \in 1..Len(plan')
    BY <2>2, <2>4, <1>10
  <2> QED
    BY <2>1, <2>2, <2>6, <2>7, <2>8
<1> QED
  BY <1>1, <1>2, <1>3, <1>4, <1>5, <1>6, <1>7, <1>8, <1>12, <1>13, <1>14
     DEF StreamStep, ServerStep, FillStep

\* Every step keeps the types and the driver's position.
LEMMA TypeStep ==
  ASSUME TypeOK, DriverInv, [Next]_vars
  PROVE  TypeOK' /\ DriverInv'
<1>1. CASE Driver
  BY <1>1, MoveTypes, StageTypes DEF Driver
<1>2. CASE Interrupt \/ RecordResult \/ Returned \/ UNCHANGED vars
  BY <1>2, MoveTypes DEF Returned
<1>3. CASE \E s \in Streams : StreamStep(s) \/ ServerStep(s) \/ FillStep(s)
  BY <1>3, StreamTypes
<1> QED
  BY <1>1, <1>2, <1>3 DEF Next

LEMMA TypeInit == Init => TypeOK /\ DriverInv
<1> SUFFICES ASSUME Init PROVE TypeOK /\ DriverInv
  OBVIOUS
<1>1. Len(plan) \in Nat
  BY PlanFacts DEF Init
<1>2. TypeOK
  <2> USE DEF Init
  <2>1. plan \in Plans /\ i \in 1..(Len(plan) + 1) /\ phase \in Phases /\ cur \in 0..Len(plan)
    BY <1>1 DEF Phases
  <2>2. ctxDone \in BOOLEAN /\ fresh \in BOOLEAN
    BY Zenon
  <2>6. begun \in Nat /\ errors \in 0..ErrorLimit /\ pending \in 0..MaxPending
    BY BoundsAssumption
  <2>3. /\ count \in [1..Len(plan) -> Nat] /\ granted \in [1..Len(plan) -> Nat]
        /\ done \in [1..Len(plan) -> BOOLEAN]
    OBVIOUS
  <2>4. /\ pc \in [Streams -> StreamPhases] /\ left \in [Streams -> 0..MaxTurns]
        /\ prefetch \in [Streams -> {Empty, Exhausted} \cup 1..Len(plan)]
        /\ streams \subseteq Streams /\ cancelled \subseteq Streams
    BY BoundsAssumption DEF StreamPhases
  <2>5. /\ fill \in [Streams -> FillStates]
        /\ \A s \in Streams : fill[s].at \in {"read", "cas"} => fill[s].st \in 1..Len(plan)
    BY FillFacts
  <2> QED
    BY <2>1, <2>2, <2>3, <2>4, <2>5, <2>6 DEF TypeOK
<1>3. DriverInv
  BY <1>1 DEF Init, DriverInv, Live, StagePhases, BarrierPhases
<1> QED
  BY <1>2, <1>3

\* Every variable of the generator keeps its type along every run: in particular
\* the driver's index never leaves the stage list and no fill ever names a
\* counter that does not exist.
THEOREM TypeCorrect == Spec => []TypeOK
<1>1. Init => TypeOK /\ DriverInv
  BY TypeInit
<1>2. (TypeOK /\ DriverInv) /\ [Next]_vars => (TypeOK /\ DriverInv)'
  BY TypeStep
<1> QED
  BY <1>1, <1>2, PTL DEF Spec

-----------------------------------------------------------------------------
(* The request counters.                                                   *)

LEMMA CounterStep ==
  ASSUME TypeOK, DriverInv, CounterInv, [Next]_vars
  PROVE  CounterInv'
<1> USE DEF CounterInv, Limit
<1>1. ASSUME UNCHANGED <<plan, count, done, granted, fill>>
      PROVE  CounterInv'
  BY <1>1
<1>2. CASE Grow
  <2>1. UNCHANGED <<plan, count, done, granted>>
    BY <1>2 DEF Grow, counterVars, history
  <2>2. \A s \in Streams : fill'[s] = Starting \/ fill'[s] = fill[s]
    BY <1>2 DEF Grow
  <2> QED
    BY <2>1, <2>2, FillFacts
<1>3. ASSUME NEW s \in Streams, Begin(s) \/ Take(s)
      PROVE  CounterInv'
  <2>1. UNCHANGED <<plan, count, done, granted>> /\ fill' = [fill EXCEPT ![s] = Starting]
    BY <1>3 DEF Begin, Take, counterVars, driverVars, history
  <2> QED
    BY <2>1, FillFacts, SMTT(60) DEF TypeOK
<1>4. ASSUME NEW s \in Streams, FillLoad(s)
      PROVE  CounterInv'
  <2>1. UNCHANGED <<plan, count, done, granted>>
    BY <1>4 DEF FillLoad, counterVars, driverVars, history
  <2>2. fill' = [fill EXCEPT ![s] = IF Limit(cur) > 0 THEN Read(cur) ELSE Idle]
    BY <1>4 DEF FillLoad, Put
  <2>3. cur \in Nat
    BY PlanFacts DEF TypeOK
  <2> QED
    BY <2>1, <2>2, <2>3, FillFacts, SMTT(60) DEF TypeOK
<1>5. ASSUME NEW s \in Streams, FillRead(s)
      PROVE  CounterInv'
  <2> DEFINE k == fill[s].st
  <2>1. /\ k \in 1..Len(plan) /\ k \in Nat /\ count[k] \in Nat
        /\ Limit(k) > 0 /\ Limit(k) \in Nat /\ count[k] <= Limit(k)
    BY <1>5, PlanFacts DEF FillRead, TypeOK
  <2>2. UNCHANGED <<plan, count, granted>>
    BY <1>5 DEF FillRead, driverVars, history
  <2>3. CASE count[k] >= Limit(k)
    <3>1. done' = [done EXCEPT ![k] = TRUE] /\ fill' = [fill EXCEPT ![s] = Idle]
      BY <1>5, <2>3 DEF FillRead, Put
    <3>2. count[k] = Limit(k)
      BY <2>1, <2>3
    <3>3. \A j \in 1..Len(plan) : Limit(j) > 0 /\ done'[j] => count[j] = Limit(j)
      BY <3>1, <3>2 DEF TypeOK
    <3>4. \A t \in Streams : fill'[t] = Idle \/ fill'[t] = fill[t]
      BY <3>1 DEF TypeOK
    <3> QED
      BY <2>2, <3>3, <3>4, FillFacts
  <2>4. CASE ~(count[k] >= Limit(k))
    <3>1. done' = done /\ fill' = [fill EXCEPT ![s] = Cas(k, count[k])]
      BY <1>5, <2>4 DEF FillRead
    <3>2. count[k] < Limit(k)
      BY <2>1, <2>4
    <3>3. /\ Cas(k, count[k]).st = k /\ Cas(k, count[k]).seen = count[k]
          /\ \A t \in Streams : fill'[t] = Cas(k, count[k]) \/ fill'[t] = fill[t]
      BY <2>1, <3>1, FillFacts, SMTT(60) DEF TypeOK
    <3> HIDE DEF k
    <3> QED
      BY <2>1, <2>2, <3>1, <3>2, <3>3
  <2> QED
    BY <2>3, <2>4
<1>6. ASSUME NEW s \in Streams, FillCas(s)
      PROVE  CounterInv'
  <2> DEFINE k == fill[s].st
  <2>1. /\ k \in 1..Len(plan) /\ k \in Nat /\ count[k] \in Nat
        /\ Limit(k) > 0 /\ Limit(k) \in Nat
        /\ fill[s].seen < Limit(k) /\ fill[s].seen \in Nat
    BY <1>6, PlanFacts DEF FillCas, TypeOK, FillStates
  <2>2. UNCHANGED <<plan, done>>
    BY <1>6 DEF FillCas, driverVars
  <2>3. CASE count[k] = fill[s].seen
    <3>1. /\ count' = [count EXCEPT ![k] = @ + 1]
          /\ granted' = [granted EXCEPT ![k] = @ + 1]
          /\ fill' = [fill EXCEPT ![s] = Idle]
      BY <1>6, <2>3 DEF FillCas, Put
    <3>2. count[k] + 1 <= Limit(k) /\ count[k] # Limit(k)
      BY <2>1, <2>3
    <3>3. granted' = count'
      BY <3>1
    <3>4. \A j \in 1..Len(plan) : Limit(j) > 0 => count'[j] <= Limit(j)
      BY <3>1, <3>2 DEF TypeOK
    <3>5. \A j \in 1..Len(plan) : Limit(j) > 0 /\ done[j] => count'[j] = Limit(j)
      BY <3>1, <3>2, <2>1 DEF TypeOK
    <3>6. \A t \in Streams : fill'[t] = Idle \/ fill'[t] = fill[t]
      BY <3>1 DEF TypeOK
    <3> QED
      BY <2>2, <3>3, <3>4, <3>5, <3>6, FillFacts, SMTT(60)
  <2>4. CASE count[k] # fill[s].seen
    <3>1. UNCHANGED <<count, granted>> /\ fill' = [fill EXCEPT ![s] = Read(k)]
      BY <1>6, <2>4 DEF FillCas
    <3>2. /\ Read(k).st = k /\ Read(k).at = "read"
          /\ \A t \in Streams : fill'[t] = Read(k) \/ fill'[t] = fill[t]
      BY <2>1, <3>1, FillFacts, SMTT(60) DEF TypeOK
    <3> HIDE DEF k
    <3> QED
      BY <2>1, <2>2, <3>1, <3>2
  <2> QED
    BY <2>3, <2>4
<1>7. CASE Driver /\ ~Grow
  BY <1>1, <1>7
     DEF Driver, LeaveLoop, EnterBarrier, BarrierStopped, BarrierFlushed, OnBarrier, StoreState,
         Shrink, StageOver, StageExhausted, DrainDone, DrainGivenUp, DrainStopped, NextStage,
         StopEarly, FinalStopped, Return, counterVars, history
<1>8. CASE Interrupt \/ RecordResult \/ Returned \/ UNCHANGED vars
  BY <1>1, <1>8
     DEF Interrupt, RecordResult, Returned, vars, driverVars, counterVars, history
<1>9. ASSUME NEW s \in Streams,
             \/ GiveUp(s) \/ TakeExhausted(s) \/ RespondCut(s) \/ Exit(s) \/ ServerStep(s)
      PROVE  CounterInv'
  BY <1>1, <1>9
     DEF GiveUp, TakeExhausted, RespondCut, Exit, ServerStep, RespondOk, RespondError,
         driverVars, counterVars, history
<1> QED
  BY <1>2, <1>3, <1>4, <1>5, <1>6, <1>7, <1>8, <1>9 DEF Next, StreamStep, FillStep

\* However the fills of any number of streams interleave on a stage's counter, it
\* hands out at most max_requests reservations, and its done channel is closed
\* only when it has handed out all of them.
THEOREM ReservationsAreBounded == Spec => []ReservationsBounded
<1> DEFINE J == TypeOK /\ DriverInv /\ CounterInv
<1>1. Init => J
  <2> SUFFICES ASSUME Init PROVE CounterInv
    BY TypeInit
  <2>1. granted = count /\ \A k \in 1..Len(plan) : count[k] = 0 /\ ~done[k]
    BY DEF Init
  <2>2. \A s \in Streams : fill[s].at = "idle"
    BY FillFacts DEF Init
  <2>3. \A k \in 1..Len(plan) : Limit(k) \in Nat
    BY PlanFacts DEF Init
  <2> QED
    BY <2>1, <2>2, <2>3 DEF CounterInv
<1>2. J /\ [Next]_vars => J'
  BY TypeStep, CounterStep
<1>3. J => ReservationsBounded
  BY DEF CounterInv, ReservationsBounded
<1> QED
  BY <1>1, <1>2, <1>3, PTL DEF Spec

-----------------------------------------------------------------------------
(* The prefetch channel.                                                   *)

\* Every step leaves each channel empty while a fill is on its way to it.
LEMMA ChannelStep ==
  ASSUME TypeOK, DriverInv, ChannelInv, [Next]_vars
  PROVE  ChannelInv'
<1> USE FillFacts DEF ChannelInv, FillNeverBlocks
<1>1. ASSUME UNCHANGED <<pc, prefetch, fill>>
      PROVE  ChannelInv'
  BY <1>1
<1>2. CASE Grow
  <2> DEFINE new == SomeOf(Free, NewCount(plan[i].conc))
  <2>1. new \in SUBSET Free
    BY <1>2 DEF Grow, SomeOf, HasSome
  <2>2. \A s \in Streams : \/ s \notin new /\ pc'[s] = pc[s] /\ fill'[s] = fill[s]
                           \/ s \in new /\ pc'[s] = "delay" /\ fill'[s] = fill[s]
                           \/ s \in new /\ pc'[s] \in {"select", "exited"}
    <3> DEFINE delayed == IF plan[i].rampup THEN new \ {CHOOSE s \in new : TRUE} ELSE {}
    <3>1. /\ pc' = [s \in Streams |->
                     CASE s \in delayed -> "delay"
                       [] s \in new \ delayed -> IF ctxDone THEN "exited" ELSE "select"
                       [] OTHER -> pc[s]]
          /\ fill' = [s \in Streams |-> IF s \in new \ delayed THEN Starting ELSE fill[s]]
      BY <1>2 DEF Grow
    <3>2. delayed \subseteq new
      OBVIOUS
    <3> HIDE DEF new, delayed
    <3> QED
      BY <3>1, <3>2
  <2>3. \A s \in new : s \in Streams /\ pc[s] = "unused" /\ fill[s] = Idle
    BY <2>1 DEF Free, Live
  <2>4. prefetch' = prefetch
    BY <1>2 DEF Grow
  <2>5. \A s \in new : prefetch'[s] = Empty
    BY <2>3, <2>4
  <2>6. \A s \in Streams : fill'[s] # Idle => s \in new \/ fill[s] # Idle
    BY <1>2 DEF Grow
  <2> HIDE DEF new
  <2> QED
    BY <2>2, <2>3, <2>4, <2>5, <2>6
<1>3. ASSUME NEW s \in Streams, Begin(s) \/ Take(s)
      PROVE  ChannelInv'
  <2>1. /\ fill' = [fill EXCEPT ![s] = Starting]
        /\ prefetch' = [prefetch EXCEPT ![s] = Empty]
        /\ \E p \in {"select", "sent", "exited"} : pc' = [pc EXCEPT ![s] = p]
    BY <1>3 DEF Begin, Take, LoopHead, TypeOK
  <2> QED
    BY <2>1 DEF TypeOK
<1>4. ASSUME NEW s \in Streams, GiveUp(s) \/ RespondCut(s) \/ ServerStep(s)
      PROVE  ChannelInv'
  <2>1. /\ UNCHANGED <<fill, prefetch>>
        /\ \E p \in {"select", "sent", "exited"} : pc' = [pc EXCEPT ![s] = p]
    BY <1>4 DEF GiveUp, RespondCut, ServerStep, RespondOk, RespondError, LoopHead
  <2> QED
    BY <2>1 DEF TypeOK
<1>5. ASSUME NEW s \in Streams, TakeExhausted(s) \/ Exit(s)
      PROVE  ChannelInv'
  <2>1. /\ UNCHANGED fill
        /\ prefetch' = [prefetch EXCEPT ![s] = Empty]
        /\ \E p \in {"unused", "exited"} : pc' = [pc EXCEPT ![s] = p]
    BY <1>5 DEF TakeExhausted, Exit
  <2> QED
    BY <2>1 DEF TypeOK
<1>6. ASSUME NEW s \in Streams, FillStep(s)
      PROVE  ChannelInv'
  <2>1. fill[s] # Idle /\ prefetch[s] = Empty /\ pc[s] # "delay" /\ pc' = pc
    BY <1>6 DEF FillStep, FillLoad, FillRead, FillCas
  <2>2. \/ prefetch' = prefetch /\ \A t \in Streams : t # s => fill'[t] = fill[t]
        \/ /\ fill' = [fill EXCEPT ![s] = Idle]
           /\ \E item : prefetch' = [prefetch EXCEPT ![s] = IF Live(s) THEN item ELSE Empty]
    <3>1. CASE FillLoad(s)
      BY <3>1, ZenonT(60) DEF FillLoad, Put, TypeOK
    <3>2. CASE FillRead(s)
      BY <3>2, ZenonT(60) DEF FillRead, Put, TypeOK
    <3>3. CASE FillCas(s)
      BY <3>3, ZenonT(60) DEF FillCas, Put, TypeOK
    <3> QED
      BY <1>6, <3>1, <3>2, <3>3 DEF FillStep
  <2>3. CASE prefetch' = prefetch /\ \A t \in Streams : t # s => fill'[t] = fill[t]
    BY <2>1, <2>3
  <2>4. CASE /\ fill' = [fill EXCEPT ![s] = Idle]
             /\ \E item : prefetch' = [prefetch EXCEPT ![s] = IF Live(s) THEN item ELSE Empty]
    <3>1. PICK item : prefetch' = [prefetch EXCEPT ![s] = IF Live(s) THEN item ELSE Empty]
      BY <2>4
    <3>2. /\ \A t \in Streams : t # s => fill'[t] = fill[t] /\ prefetch'[t] = prefetch[t]
          /\ fill'[s] = Idle
          /\ pc[s] = "unused" => prefetch'[s] = Empty
      BY <2>4, <3>1 DEF TypeOK, Live
    <3> QED
      BY <2>1, <3>2
  <2> QED
    BY <2>2, <2>3, <2>4
<1>7. CASE Driver /\ ~Grow
  BY <1>1, <1>7
     DEF Driver, LeaveLoop, EnterBarrier, BarrierStopped, BarrierFlushed, OnBarrier, StoreState,
         Shrink, StageOver, StageExhausted, DrainDone, DrainGivenUp, DrainStopped, NextStage,
         StopEarly, FinalStopped, Return, streamVars
<1>8. CASE Interrupt \/ RecordResult \/ Returned \/ UNCHANGED vars
  BY <1>1, <1>8 DEF Interrupt, RecordResult, Returned, vars, streamVars
<1> QED
  BY <1>2, <1>3, <1>4, <1>5, <1>6, <1>7, <1>8 DEF Next, StreamStep

\* A fill goroutine is never at work on a stream whose channel is full, so its
\* one send into the one-slot channel cannot block, not even after the stream
\* has returned: no fill goroutine leaks.
THEOREM FillsNeverBlock == Spec => []FillNeverBlocks
<1> DEFINE J == TypeOK /\ DriverInv /\ ChannelInv
<1>1. Init => J
  <2>1. Init => ChannelInv
    BY DEF Init, ChannelInv, FillNeverBlocks
  <2> QED
    BY <2>1, TypeInit
<1>2. J /\ [Next]_vars => J'
  BY TypeStep, ChannelStep
<1>3. J => FillNeverBlocks
  BY DEF ChannelInv
<1> QED
  BY <1>1, <1>2, <1>3, PTL DEF Spec

-----------------------------------------------------------------------------
(* The pool's size.                                                        *)

\* Resize starts or cancels exactly as many streams as the stage asks for.
LEMMA ResizeSize ==
  ASSUME TypeOK, DriverInv, PoolInv, Grow \/ Shrink
  PROVE  Cardinality(streams') <= plan[i].conc /\ IsFiniteSet(streams')
<1>1. /\ IsFiniteSet(streams) /\ Cardinality(streams) \in Nat /\ plan[i].conc \in Nat
  <2>1. IsFiniteSet(streams)
    BY StreamsAssumption, FS_Subset DEF TypeOK
  <2>2. i \in 1..Len(plan) /\ plan \in Plans
    BY DEF TypeOK, DriverInv, StagePhases, Grow, Shrink
  <2> QED
    BY <2>1, <2>2, FS_CardinalityType, PlanFacts
<1>2. CASE Grow
  <2> DEFINE new == SomeOf(Free, NewCount(plan[i].conc))
  <2>1. new \in SUBSET Free /\ Cardinality(new) = plan[i].conc - Cardinality(streams)
    BY <1>2 DEF Grow, SomeOf, HasSome, NewCount
  <2>2. streams' = streams \cup new
    BY <1>2 DEF Grow
  <2>3. streams \cap new = {}
    BY <2>1 DEF PoolInv, Free
  <2> HIDE DEF new
  <2>4. IsFiniteSet(new)
    BY <2>1, StreamsAssumption, FS_Subset DEF Free
  <2>5. /\ IsFiniteSet(streams \cup new)
        /\ Cardinality(streams \cup new) = Cardinality(streams) + Cardinality(new) - 0
    BY <1>1, <2>3, <2>4, FS_Union, FS_EmptySet
  <2> QED
    BY <1>1, <2>1, <2>2, <2>5
<1>3. CASE Shrink
  <2>1. PICK out \in SUBSET streams : /\ Cardinality(out) = Cardinality(streams) - plan[i].conc
                                      /\ streams' = streams \ out
    BY <1>1, <1>3 DEF Shrink, NewCount
  <2>2. streams \cap out = out
    OBVIOUS
  <2>3. /\ IsFiniteSet(streams \ out)
        /\ Cardinality(streams \ out) = Cardinality(streams) - Cardinality(out)
    BY <1>1, <2>2, FS_Difference
  <2> QED
    BY <1>1, <2>1, <2>3
<1> QED
  BY <1>2, <1>3

LEMMA PoolStep ==
  ASSUME TypeOK, DriverInv, PoolInv, [Next]_vars
  PROVE  PoolInv'
<1> USE DEF PoolInv, Live
<1>1. ASSUME UNCHANGED <<plan, i, pc, streams, cancelled>>,
             phase' = phase \/ phase' \notin {"wait", "drain"} \/ (phase = "wait" /\ phase' = "drain")
      PROVE  PoolInv'
  BY <1>1
<1>2. ASSUME UNCHANGED pc, CancelPool, phase' \notin {"wait", "drain"}
      PROVE  PoolInv'
  BY <1>2 DEF CancelPool
<1>3. CASE Grow
  <2> DEFINE new == SomeOf(Free, NewCount(plan[i].conc))
  <2>1. /\ streams' = streams \cup new /\ cancelled' = cancelled /\ plan' = plan /\ i' = i
        /\ \A s \in Streams : (pc'[s] # "unused") <=> (s \in new \/ pc[s] # "unused")
    <3> DEFINE delayed == IF plan[i].rampup THEN new \ {CHOOSE s \in new : TRUE} ELSE {}
    <3>1. /\ pc' = [s \in Streams |->
                     CASE s \in delayed -> "delay"
                       [] s \in new \ delayed -> IF ctxDone THEN "exited" ELSE "select"
                       [] OTHER -> pc[s]]
          /\ streams' = streams \cup new /\ cancelled' = cancelled /\ plan' = plan /\ i' = i
      BY <1>3 DEF Grow
    <3>2. delayed \subseteq new
      OBVIOUS
    <3> HIDE DEF new, delayed
    <3> QED
      BY <3>1, <3>2
  <2>2. new \subseteq Streams
    BY <1>3 DEF Grow, SomeOf, HasSome, Free
  <2>3. Cardinality(streams') <= plan[i].conc
    BY <1>3, ResizeSize
  <2> HIDE DEF new
  <2> QED
    BY <2>1, <2>2, <2>3 DEF TypeOK
<1>4. CASE Shrink
  <2>1. Cardinality(streams') <= plan[i].conc
    BY <1>4, ResizeSize
  <2>2. \E out : streams' = streams \ out /\ cancelled' = cancelled \cup out
    BY <1>4 DEF Shrink
  <2>3. UNCHANGED <<plan, i, pc>>
    BY <1>4 DEF Shrink
  <2> QED
    BY <2>1, <2>2, <2>3
<1>5. CASE LeaveLoop \/ DrainGivenUp \/ StopEarly
  BY <1>2, <1>5 DEF LeaveLoop, DrainGivenUp, StopEarly
<1>6. CASE EnterBarrier
  BY <1>1, <1>2, <1>6 DEF EnterBarrier
<1>7. CASE \/ BarrierStopped \/ BarrierFlushed \/ StoreState \/ StageOver \/ StageExhausted
           \/ DrainDone \/ DrainStopped \/ FinalStopped \/ Return
  BY <1>1, <1>7
     DEF BarrierStopped, BarrierFlushed, StoreState, StageOver, StageExhausted, DrainDone,
         DrainStopped, FinalStopped, Return, streamVars
<1>8. CASE OnBarrier \/ NextStage
  <2>1. UNCHANGED <<pc, streams, cancelled>> /\ phase' = "top"
    BY <1>8 DEF OnBarrier, NextStage, streamVars
  <2> QED
    BY <2>1
<1>9. CASE Interrupt \/ RecordResult \/ Returned \/ UNCHANGED vars
  BY <1>1, <1>9 DEF Interrupt, RecordResult, Returned, vars, driverVars, streamVars
<1>10. ASSUME NEW s \in Streams, FillStep(s)
       PROVE  PoolInv'
  BY <1>1, <1>10 DEF FillStep, FillLoad, FillRead, FillCas, driverVars
<1>11. ASSUME NEW s \in Streams,
              \/ Begin(s) \/ GiveUp(s) \/ Take(s) \/ TakeExhausted(s) \/ RespondCut(s)
              \/ ServerStep(s)
       PROVE  PoolInv'
  <2>1. /\ UNCHANGED <<plan, i, phase, streams, cancelled>>
        /\ pc[s] # "unused"
        /\ \E p \in {"select", "sent", "exited"} : pc' = [pc EXCEPT ![s] = p]
    BY <1>11 DEF Begin, GiveUp, Take, TakeExhausted, RespondCut, ServerStep, RespondOk,
                 RespondError, LoopHead, driverVars
  <2>2. \A t \in Streams : (pc'[t] # "unused") <=> (pc[t] # "unused")
    BY <2>1 DEF TypeOK
  <2> QED
    BY <2>1, <2>2 DEF TypeOK
<1>12. ASSUME NEW s \in Streams, Exit(s)
       PROVE  PoolInv'
  <2>1. /\ UNCHANGED <<plan, i, phase>>
        /\ streams' = streams \ {s} /\ cancelled' = cancelled \ {s}
        /\ pc' = [pc EXCEPT ![s] = "unused"]
    BY <1>12 DEF Exit, driverVars
  <2>2. Cardinality(streams') <= Cardinality(streams)
        /\ Cardinality(streams') \in Nat /\ Cardinality(streams) \in Nat
    BY <2>1, StreamsAssumption, FS_Subset, FS_CardinalityType DEF TypeOK
  <2>3. phase \in {"wait", "drain"} => plan[i].conc \in Nat
    BY PlanFacts DEF TypeOK, DriverInv, StagePhases
  <2>4. phase' \in {"wait", "drain"} => Cardinality(streams') <= plan'[i'].conc
    BY <2>1, <2>2, <2>3
  <2>5. \A t \in Streams : pc'[t] # "unused" <=> t # s /\ pc[t] # "unused"
    BY <2>1 DEF TypeOK
  <2> QED
    BY <2>1, <2>4, <2>5 DEF TypeOK
<1> QED
  BY <1>3, <1>4, <1>5, <1>6, <1>7, <1>8, <1>9, <1>10, <1>11, <1>12
     DEF Next, Driver, StreamStep

\* While a stage runs, at most its concurrency many streams are alive and not yet
\* told to stop, whatever the stages before it left behind.
THEOREM ConcurrencyIsCapped == Spec => []ConcurrencyCap
<1> DEFINE J == TypeOK /\ DriverInv /\ PoolInv
<1>1. Init => J
  <2>1. Init => PoolInv
    BY DEF Init, PoolInv, Live
  <2> QED
    BY <2>1, TypeInit
<1>2. J /\ [Next]_vars => J'
  BY TypeStep, PoolStep
<1>3. J => ConcurrencyCap
  <2> SUFFICES ASSUME J, phase \in {"wait", "drain"}
               PROVE  Cardinality({s \in Streams : Live(s) /\ s \notin cancelled}) <= plan[i].conc
    BY DEF ConcurrencyCap
  <2> DEFINE running == {s \in Streams : Live(s) /\ s \notin cancelled}
  <2>1. running \in SUBSET streams /\ IsFiniteSet(streams)
    BY StreamsAssumption, FS_Subset DEF TypeOK, PoolInv
  <2>2. /\ Cardinality(running) <= Cardinality(streams)
        /\ Cardinality(running) \in Nat /\ Cardinality(streams) \in Nat
    BY <2>1, FS_Subset, FS_CardinalityType
  <2>3. plan[i].conc \in Nat /\ Cardinality(streams) <= plan[i].conc
    BY PlanFacts DEF TypeOK, DriverInv, StagePhases, PoolInv
  <2> QED
    BY <2>2, <2>3
<1> QED
  BY <1>1, <1>2, <1>3, PTL DEF Spec

-----------------------------------------------------------------------------
(* The waits.                                                              *)

LEMMA DrainStep ==
  ASSUME TypeOK, DriverInv, DrainInv, [Next]_vars
  PROVE  DrainInv'
<1> USE DEF DrainInv, AllGone, Live
<1>1. ASSUME UNCHANGED <<plan, i, phase, pc, pending>>
      PROVE  DrainInv'
  BY <1>1
<1>2. CASE \/ LeaveLoop \/ StoreState \/ Grow \/ Shrink \/ StageOver \/ StageExhausted \/ DrainDone
           \/ DrainGivenUp \/ DrainStopped \/ NextStage \/ StopEarly \/ OnBarrier
  <2>1. phase' \in {"finalStop", "onStage", "wait", "complete", "drain", "drainStop", "top"}
    BY <1>2 DEF LeaveLoop, StoreState, Grow, Shrink, StageOver, StageExhausted, DrainDone,
                DrainGivenUp, DrainStopped, NextStage, StopEarly, OnBarrier
  <2> QED
    BY <2>1
<1>3. CASE EnterBarrier BY <1>3 DEF EnterBarrier
<1>4. CASE BarrierStopped \/ FinalStopped BY <1>4 DEF BarrierStopped, FinalStopped, streamVars
<1>5. CASE BarrierFlushed \/ Return BY <1>5 DEF BarrierFlushed, Return, streamVars
<1>6. CASE Interrupt \/ Returned \/ UNCHANGED vars
  BY <1>1, <1>6 DEF Interrupt, Returned, vars, driverVars, streamVars
<1>7. CASE RecordResult BY <1>7 DEF RecordResult, driverVars, streamVars
<1>8. ASSUME NEW s \in Streams, FillStep(s)
      PROVE  DrainInv'
  BY <1>1, <1>8 DEF FillStep, FillLoad, FillRead, FillCas, driverVars
<1>9. ASSUME NEW s \in Streams, StreamStep(s) \/ ServerStep(s)
      PROVE  DrainInv'
  <2>1. pc[s] # "unused" /\ UNCHANGED <<plan, i, phase>>
    BY <1>9 DEF StreamStep, ServerStep, Begin, GiveUp, Take, TakeExhausted, RespondCut, RespondOk,
                RespondError, Exit, driverVars
  <2> QED
    BY <2>1
<1> QED
  BY <1>2, <1>3, <1>4, <1>5, <1>6, <1>7, <1>8, <1>9 DEF Next, Driver

\* When RunStagesUntil returns, and while workers meet at a drain barrier, no
\* stream is alive and no result is still on its way to the recorder.
THEOREM EndsQuiescent == Spec => []Quiescent
<1> DEFINE J == TypeOK /\ DriverInv /\ DrainInv
<1>1. Init => J
  <2>1. Init => DrainInv
    BY DEF Init, DrainInv
  <2> QED
    BY <2>1, TypeInit
<1>2. J /\ [Next]_vars => J'
  BY TypeStep, DrainStep
<1>3. J => Quiescent
  BY DEF DrainInv, Quiescent
<1> QED
  BY <1>1, <1>2, <1>3, PTL DEF Spec

-----------------------------------------------------------------------------
(* Exact stages.                                                           *)

\* Conversations that are reserved and prefetched, and not yet begun.
Holding == {s \in Streams : prefetch[s] > Empty}

\* Counters are used in the order of the stages: none is touched before its stage
\* has stored it. Only live streams count as cancelled, and a drain begins only
\* when every request of the stage is reserved.
OrderInv ==
  /\ cur <= i
  /\ phase \in BarrierPhases \cup {"top"} => cur < i
  /\ \A s \in Streams : fill[s].at \in {"read", "cas"} => fill[s].st <= cur
  /\ \A k \in 1..Len(plan) : k > cur => count[k] = 0
  /\ \A s \in cancelled : Live(s)
  /\ phase = "drain" => Limit(i) > 0 /\ done[i]

\* A limited stage that took over nothing and that nothing has cancelled.
OwnStage == fresh /\ ~ctxDone /\ phase \in {"onStage", "wait", "drain"} /\ Limit(i) > 0

\* In such a stage no stream has been cancelled, so none leaves before it takes the
\* exhausted marker, its last prefetch; every reservation is the stage's own, and
\* is a conversation begun or one still in a channel.
OwnInv ==
  OwnStage =>
    /\ cancelled = {}
    /\ phase = "onStage" => streams = {}
    /\ \A s \in Streams : pc[s] \in {"unused", "exited"} => fill[s] = Idle /\ prefetch[s] = Empty
    /\ \A s \in Streams : fill[s].at \in {"read", "cas"} => fill[s].st = i
    /\ count[i] = begun + Cardinality(Holding)
\* Fills: which counter they work on, and the counters no stage has stored yet.
LEMMA OrderFill ==
  ASSUME TypeOK, DriverInv, OrderInv, NEW s \in Streams, FillStep(s)
  PROVE  OrderInv'
<1> DEFINE k == fill[s].st
<1>1. /\ UNCHANGED <<plan, i, phase, cur, pc, cancelled>>
      /\ done' = done \/ done' = [done EXCEPT ![k] = TRUE]
      /\ count' = count \/ (fill[s].at = "cas" /\ count' = [count EXCEPT ![k] = @ + 1])
  <2> USE DEF driverVars, counterVars, history
  <2>1. CASE FillLoad(s) BY <2>1 DEF FillLoad
  <2>2. CASE FillRead(s) BY <2>2 DEF FillRead
  <2>3. CASE FillCas(s) BY <2>3 DEF FillCas
  <2> QED
    BY <2>1, <2>2, <2>3 DEF FillStep
<1>2. \/ fill' = [fill EXCEPT ![s] = Idle]
      \/ fill' = [fill EXCEPT ![s] = Read(cur)]
      \/ fill[s].at = "cas" /\ fill' = [fill EXCEPT ![s] = Read(k)]
      \/ fill[s].at = "read" /\ fill' = [fill EXCEPT ![s] = Cas(k, count[k])]
  <2>1. CASE FillLoad(s) BY <2>1, Zenon DEF FillLoad, Put
  <2>2. CASE FillRead(s) BY <2>2, Zenon DEF FillRead, Put
  <2>3. CASE FillCas(s) BY <2>3, Zenon DEF FillCas, Put
  <2> QED
    BY <2>1, <2>2, <2>3 DEF FillStep
<1>3. /\ fill[s].at \in {"read", "cas"} => k <= cur /\ k \in 1..Len(plan) /\ count[k] \in Nat
      /\ cur \in Nat /\ k \in Nat
  BY DEF TypeOK, OrderInv, FillStates
<1>4. \A t \in Streams : fill'[t].at \in {"read", "cas"} => fill'[t].st <= cur
  <2>1. \A f : fill' = [fill EXCEPT ![s] = f] => \A t \in Streams : fill'[t] = IF t = s THEN f ELSE fill[t]
    BY DEF TypeOK
  <2>2. CASE fill' = [fill EXCEPT ![s] = Idle]
    BY <2>1, <2>2, FillFacts DEF OrderInv
  <2>3. CASE fill' = [fill EXCEPT ![s] = Read(cur)]
    BY <2>1, <2>3, <1>3, FillFacts DEF OrderInv
  <2>4. CASE fill[s].at = "cas" /\ fill' = [fill EXCEPT ![s] = Read(k)]
    BY <2>1, <2>4, <1>3, FillFacts DEF OrderInv
  <2>5. CASE fill[s].at = "read" /\ fill' = [fill EXCEPT ![s] = Cas(k, count[k])]
    BY <2>1, <2>5, <1>3, FillFacts DEF OrderInv
  <2> QED
    BY <1>2, <2>2, <2>3, <2>4, <2>5
<1>5. \A j \in 1..Len(plan) : j > cur => count'[j] = 0
  BY <1>1, <1>3 DEF TypeOK, OrderInv
<1>6. phase = "drain" => done'[i]
  <2> SUFFICES ASSUME phase = "drain" PROVE done'[i]
    OBVIOUS
  <2>1. i \in 1..Len(plan) /\ done[i]
    BY DEF DriverInv, StagePhases, OrderInv
  <2> QED
    BY <1>1, <2>1 DEF TypeOK
<1> QED
  BY <1>1, <1>4, <1>5, <1>6 DEF OrderInv, Live, Limit, BarrierPhases

\* Every step keeps the counters in order.
LEMMA OrderStep ==
  ASSUME TypeOK, DriverInv, PoolInv, OrderInv, [Next]_vars
  PROVE  OrderInv'
<1> USE PlanFacts, FillFacts
    DEF OrderInv, TypeOK, Live, BarrierPhases, driverVars, counterVars, streamVars, history, Limit
<1>1. ASSUME UNCHANGED <<plan, i, cur, count, done, pc, cancelled, fill>>,
             phase' \in BarrierPhases \cup {"top"} => phase \in BarrierPhases \cup {"top"},
             phase' = "drain" => phase = "drain"
      PROVE  OrderInv'
  BY <1>1
<1>2. ASSUME UNCHANGED <<plan, i, cur, count, done, pc, fill>>, CancelPool,
             phase' \in BarrierPhases => phase = "top", phase' \notin {"top", "drain"}
      PROVE  OrderInv'
  BY <1>2 DEF CancelPool, PoolInv
<1>3. CASE LeaveLoop \/ DrainGivenUp \/ StopEarly
  BY <1>2, <1>3 DEF LeaveLoop, DrainGivenUp, StopEarly
<1>4. CASE EnterBarrier
  BY <1>1, <1>2, <1>4 DEF EnterBarrier
<1>5. CASE \/ BarrierStopped \/ BarrierFlushed \/ StageOver \/ DrainDone
           \/ DrainStopped \/ FinalStopped \/ Return
  BY <1>1, <1>5
     DEF BarrierStopped, BarrierFlushed, StageOver, DrainDone, DrainStopped, FinalStopped, Return
<1>6. CASE StageExhausted
  BY <1>6 DEF StageExhausted
<1>7. CASE OnBarrier \/ NextStage
  <2>1. /\ UNCHANGED <<plan, cur, count, done, pc, cancelled, fill>>
        /\ i' = i + 1 /\ phase' = "top"
    BY <1>7 DEF OnBarrier, NextStage
  <2> QED
    BY <2>1
<1>8. CASE StoreState
  BY <1>8 DEF StoreState
<1>9. CASE Grow
  <2> DEFINE new == SomeOf(Free, NewCount(plan[i].conc))
             delayed == IF plan[i].rampup THEN new \ {CHOOSE s \in new : TRUE} ELSE {}
  <2>1. /\ pc' = [s \in Streams |->
                   CASE s \in delayed -> "delay"
                     [] s \in new \ delayed -> IF ctxDone THEN "exited" ELSE "select"
                     [] OTHER -> pc[s]]
        /\ fill' = [s \in Streams |-> IF s \in new \ delayed THEN Starting ELSE fill[s]]
        /\ UNCHANGED <<plan, i, cur, count, done, cancelled>>
        /\ phase' = "wait"
    BY <1>9 DEF Grow
  <2> HIDE DEF new, delayed
  <2>2. /\ \A s \in Streams : pc[s] # "unused" => pc'[s] # "unused"
        /\ \A s \in Streams : fill'[s] = fill[s] \/ fill'[s] = Starting
    BY <2>1
  <2> QED
    BY <2>1, <2>2
<1>10. CASE Shrink
  <2>1. /\ UNCHANGED <<plan, i, cur, count, done, pc, fill>> /\ phase' = "wait"
        /\ \A s \in cancelled' : s \in cancelled \cup streams
    BY <1>10 DEF Shrink
  <2> QED
    BY <2>1 DEF PoolInv
<1>11. CASE Interrupt \/ RecordResult \/ Returned \/ UNCHANGED vars
  BY <1>1, <1>11 DEF Interrupt, RecordResult, Returned, vars
<1>12. ASSUME NEW s \in Streams,
              \/ Begin(s) \/ GiveUp(s) \/ Take(s) \/ TakeExhausted(s) \/ RespondCut(s)
              \/ ServerStep(s)
       PROVE  OrderInv'
  <2>1. /\ UNCHANGED <<plan, i, phase, cur, count, done, cancelled>>
        /\ fill' = fill \/ fill' = [fill EXCEPT ![s] = Starting]
        /\ \E p \in {"select", "sent", "exited"} : pc' = [pc EXCEPT ![s] = p]
    BY <1>12 DEF Begin, GiveUp, Take, TakeExhausted, RespondCut, ServerStep, RespondOk,
                 RespondError, LoopHead
  <2>2. \A t \in Streams : pc[t] # "unused" => pc'[t] # "unused"
    BY <2>1
  <2>3. \A t \in Streams : fill'[t] = fill[t] \/ fill'[t] = Starting
    BY <2>1
  <2> QED
    BY <2>1, <2>2, <2>3
<1>13. ASSUME NEW s \in Streams, Exit(s)
       PROVE  OrderInv'
  BY <1>13 DEF Exit
<1>14. ASSUME NEW s \in Streams, FillStep(s)
       PROVE  OrderInv'
  BY <1>14, OrderFill
<1> QED
  BY <1>3, <1>4, <1>5, <1>6, <1>7, <1>8, <1>9, <1>10, <1>11, <1>12, <1>13, <1>14
     DEF Next, Driver, StreamStep
\* The conversations in the channels, when one channel changes.
LEMMA HoldingFacts ==
  ASSUME TypeOK
  PROVE  /\ IsFiniteSet(Holding) /\ Cardinality(Holding) \in Nat
         /\ \A s \in Streams :
              /\ s \in Holding => /\ Cardinality(Holding \ {s}) = Cardinality(Holding) - 1
                                  /\ Cardinality(Holding) > 0
              /\ s \notin Holding => Cardinality(Holding \cup {s}) = Cardinality(Holding) + 1
<1>1. IsFiniteSet(Holding)
  BY StreamsAssumption, FS_Subset DEF Holding
<1>2. Cardinality(Holding) \in Nat
  BY <1>1, FS_CardinalityType
<1>3. ASSUME NEW s \in Holding
      PROVE  Cardinality(Holding \ {s}) = Cardinality(Holding) - 1 /\ Cardinality(Holding) > 0
  <2>1. Cardinality(Holding \ {s}) = Cardinality(Holding) - 1 /\ IsFiniteSet(Holding \ {s})
    BY <1>1, FS_RemoveElement
  <2>2. Cardinality(Holding \ {s}) \in Nat
    BY <2>1, FS_CardinalityType
  <2> QED
    BY <1>2, <2>1, <2>2
<1>4. ASSUME NEW s \in Streams, s \notin Holding
      PROVE  Cardinality(Holding \cup {s}) = Cardinality(Holding) + 1
  BY <1>1, <1>4, FS_AddElement
<1> QED
  BY <1>1, <1>2, <1>3, <1>4

\* A stage that stores its counter in an idle pool, and its Resize.
LEMMA OwnResize ==
  ASSUME TypeOK, DriverInv, ChannelInv, PoolInv, OrderInv, OwnInv,
         StoreState \/ Grow \/ Shrink
  PROVE  OwnInv'
<1> SUFFICES ASSUME OwnStage'
             PROVE  /\ cancelled' = {}
                    /\ phase' = "onStage" => streams' = {}
                    /\ \A s \in Streams :
                         pc'[s] \in {"unused", "exited"} => fill'[s] = Idle /\ prefetch'[s] = Empty
                    /\ \A s \in Streams : fill'[s].at \in {"read", "cas"} => fill'[s].st = i'
                    /\ count'[i'] = begun' + Cardinality(Holding')
  BY DEF OwnInv
<1>1. CASE StoreState
  <2>1. /\ UNCHANGED <<plan, i, ctxDone, count, pc, streams, cancelled, prefetch, fill>>
        /\ begun' = 0 /\ phase = "top" /\ i \in 1..Len(plan) /\ Free = Streams
    BY <1>1, PlanFacts DEF StoreState, OwnStage, streamVars, TypeOK
  <2>2. \A s \in Streams : pc[s] = "unused" /\ fill[s] = Idle /\ prefetch[s] = Empty
    BY <2>1 DEF Free, Live, ChannelInv
  <2>3. cancelled = {} /\ streams = {}
    BY <2>2 DEF OrderInv, PoolInv, Live, TypeOK
  <2>4. count[i] = 0
    BY <2>1 DEF OrderInv, TypeOK
  <2>5. Holding' = {}
    BY <2>1, <2>2 DEF Holding, Empty
  <2>6. Cardinality(Holding') = 0
    BY <2>5, FS_EmptySet
  <2> QED
    BY <2>1, <2>2, <2>3, <2>4, <2>6, FillFacts
<1>2. ASSUME Grow \/ Shrink
      PROVE  /\ OwnStage /\ phase = "onStage" /\ phase' = "wait" /\ cancelled = {} /\ streams = {}
             /\ UNCHANGED <<i, count, begun, prefetch>> /\ Holding' = Holding /\ ~ctxDone
  <2>1. phase = "onStage" /\ phase' = "wait"
        /\ UNCHANGED <<plan, i, ctxDone, count, begun, fresh, prefetch>>
    BY <1>2 DEF Grow, Shrink, counterVars, history
  <2>2. OwnStage /\ ~ctxDone
    BY <2>1 DEF OwnStage, Limit
  <2> QED
    BY <2>1, <2>2 DEF OwnInv, Holding
<1>3. CASE Grow
  <2> DEFINE new == SomeOf(Free, NewCount(plan[i].conc))
             delayed == IF plan[i].rampup THEN new \ {CHOOSE s \in new : TRUE} ELSE {}
  <2>1. /\ pc' = [s \in Streams |->
                   CASE s \in delayed -> "delay"
                     [] s \in new \ delayed -> IF ctxDone THEN "exited" ELSE "select"
                     [] OTHER -> pc[s]]
        /\ fill' = [s \in Streams |-> IF s \in new \ delayed THEN Starting ELSE fill[s]]
        /\ cancelled' = cancelled
    BY <1>3 DEF Grow
  <2>2. delayed \subseteq new
    OBVIOUS
  <2> HIDE DEF new, delayed
  <2>3. \A s \in Streams : \/ pc'[s] = pc[s] /\ fill'[s] = fill[s]
                           \/ pc'[s] \in {"delay", "select"} /\ fill'[s] \in {fill[s], Starting}
    BY <1>2, <1>3, <2>1, <2>2
  <2> QED
    BY <1>2, <1>3, <2>1, <2>3, FillFacts DEF OwnInv
<1>4. CASE Shrink
  <2>1. Cardinality(streams) = 0 /\ plan[i].conc \in Nat
    BY <1>2, <1>4, FS_EmptySet, PlanFacts DEF TypeOK, DriverInv, StagePhases
  <2> QED
    BY <1>4, <2>1 DEF Shrink, NewCount
<1> QED
  BY <1>1, <1>3, <1>4

\* The steps of a stream in such a stage: it leaves only on the exhausted marker.
LEMMA OwnStream ==
  ASSUME TypeOK, DriverInv, CounterInv, ChannelInv, OrderInv, OwnInv,
         NEW s \in Streams, StreamStep(s) \/ ServerStep(s), OwnStage'
  PROVE  OwnInv'
<1>1. /\ UNCHANGED <<plan, i, phase, cur, count, fresh>>
      /\ ctxDone => ctxDone'
  <2>1. CASE Begin(s) \/ GiveUp(s) \/ TakeExhausted(s) \/ Exit(s)
    BY <2>1 DEF Begin, GiveUp, TakeExhausted, Exit, driverVars, counterVars, history
  <2>2. CASE Take(s)
    BY <2>2 DEF Take, driverVars, counterVars
  <2>3. CASE RespondCut(s) \/ RespondOk(s) \/ RespondError(s)
    BY <2>3, Zenon DEF RespondCut, RespondOk, RespondError, TrackRequestStatus, driverVars,
                       counterVars, history
  <2> QED
    BY <2>1, <2>2, <2>3 DEF StreamStep, ServerStep
<1>2. OwnStage /\ ~ctxDone /\ cancelled = {} /\ ~Cancelled(s)
      /\ i \in 1..Len(plan) /\ cur = i /\ Limit(i) \in Nat /\ Limit(i) > 0
  BY <1>1, PlanFacts DEF OwnStage, OwnInv, Cancelled, Limit, DriverInv, StagePhases, TypeOK
<1>3. /\ \A t \in Streams : pc[t] \in {"unused", "exited"} => fill[t] = Idle /\ prefetch[t] = Empty
      /\ \A t \in Streams : fill[t].at \in {"read", "cas"} => fill[t].st = i
      /\ count[i] = begun + Cardinality(Holding)
      /\ phase = "onStage" => streams = {}
  BY <1>2 DEF OwnInv
<1> SUFFICES /\ cancelled' = {}
             /\ phase = "onStage" => streams' = {}
             /\ \A t \in Streams :
                  pc'[t] \in {"unused", "exited"} => fill'[t] = Idle /\ prefetch'[t] = Empty
             /\ \A t \in Streams : fill'[t].at \in {"read", "cas"} => fill'[t].st = i
             /\ count[i] = begun' + Cardinality(Holding')
  BY <1>1 DEF OwnInv
<1>4. CASE Begin(s)
  <2>1. /\ fill' = [fill EXCEPT ![s] = Starting] /\ pc' = [pc EXCEPT ![s] = "select"]
        /\ UNCHANGED <<streams, cancelled, prefetch, begun>>
    BY <1>2, <1>4 DEF Begin, LoopHead, history
  <2>2. Holding' = Holding
    BY <2>1 DEF Holding
  <2> QED
    BY <1>2, <1>3, <2>1, <2>2, FillFacts DEF TypeOK
<1>5. CASE GiveUp(s) \/ RespondCut(s)
  BY <1>2, <1>5 DEF GiveUp, RespondCut
<1>6. CASE Take(s)
  <2>1. /\ prefetch[s] > Empty /\ prefetch' = [prefetch EXCEPT ![s] = Empty]
        /\ fill' = [fill EXCEPT ![s] = Starting] /\ pc' = [pc EXCEPT ![s] = "sent"]
        /\ begun' = LesserOf(begun + 1, Limit(i) + 1)
        /\ UNCHANGED <<streams, cancelled>>
    BY <1>2, <1>6 DEF Take
  <2>2. s \in Holding /\ Holding' = Holding \ {s}
    BY <2>1 DEF Holding, TypeOK, Empty
  <2>3. /\ Cardinality(Holding') = Cardinality(Holding) - 1
        /\ Cardinality(Holding) \in Nat /\ Cardinality(Holding) > 0
    BY <2>2, HoldingFacts
  <2>4. count[i] <= Limit(i) /\ count[i] \in Nat /\ begun \in Nat
    BY <1>2 DEF CounterInv, TypeOK
  <2>5. begun' = begun + 1
    BY <1>2, <1>3, <2>1, <2>3, <2>4 DEF LesserOf
  <2>6. count[i] = begun' + Cardinality(Holding')
    BY <1>3, <2>3, <2>4, <2>5
  <2> QED
    BY <1>2, <1>3, <2>1, <2>6, FillFacts DEF TypeOK
<1>7. CASE TakeExhausted(s)
  <2>1. /\ prefetch[s] = Exhausted /\ prefetch' = [prefetch EXCEPT ![s] = Empty]
        /\ pc' = [pc EXCEPT ![s] = "exited"]
        /\ UNCHANGED <<streams, cancelled, fill, begun>>
    BY <1>7 DEF TakeExhausted, history
  <2>2. Holding' = Holding
    BY <2>1 DEF Holding, TypeOK, Empty, Exhausted
  <2>3. fill[s] = Idle
    BY <2>1 DEF ChannelInv, FillNeverBlocks, Empty, Exhausted
  <2> QED
    BY <1>2, <1>3, <2>1, <2>2, <2>3 DEF TypeOK
<1>8. CASE ServerStep(s)
  <2>1. /\ \E p \in {"sent", "select"} : pc' = [pc EXCEPT ![s] = p]
        /\ UNCHANGED <<streams, cancelled, prefetch, fill, begun>>
    BY <1>2, <1>8 DEF ServerStep, RespondOk, RespondError, LoopHead, OwnStage, history
  <2>2. Holding' = Holding
    BY <2>1 DEF Holding
  <2> QED
    BY <1>2, <1>3, <2>1, <2>2 DEF TypeOK
<1>9. CASE Exit(s)
  <2>1. /\ pc[s] = "exited" /\ pc' = [pc EXCEPT ![s] = "unused"]
        /\ streams' = streams \ {s} /\ cancelled' = cancelled \ {s}
        /\ prefetch' = [prefetch EXCEPT ![s] = Empty]
        /\ UNCHANGED <<fill, begun>>
    BY <1>9 DEF Exit, history
  <2>2. prefetch' = prefetch
    BY <1>3, <2>1 DEF TypeOK
  <2>3. Holding' = Holding
    BY <2>2 DEF Holding
  <2> QED
    BY <1>2, <1>3, <2>1, <2>2, <2>3 DEF TypeOK
<1> QED
  BY <1>4, <1>5, <1>6, <1>7, <1>8, <1>9 DEF StreamStep
\* The steps of a fill in such a stage: what it puts into its channel is reserved
\* under the stage's own counter.
LEMMA OwnFill ==
  ASSUME TypeOK, DriverInv, ChannelInv, OwnInv, NEW s \in Streams, FillStep(s), OwnStage'
  PROVE  OwnInv'
<1>1. UNCHANGED <<plan, i, phase, ctxDone, cur, fresh, pc, streams, cancelled, begun>>
  <2> USE DEF driverVars, counterVars, history
  <2>1. CASE FillLoad(s) BY <2>1 DEF FillLoad
  <2>2. CASE FillRead(s) BY <2>2 DEF FillRead
  <2>3. CASE FillCas(s) BY <2>3 DEF FillCas
  <2> QED
    BY <2>1, <2>2, <2>3 DEF FillStep
<1>2. /\ OwnStage /\ cancelled = {} /\ i \in 1..Len(plan) /\ i \in Nat /\ cur = i /\ Limit(i) > 0
      /\ count[i] \in Nat /\ begun \in Nat
  BY <1>1, PlanFacts DEF OwnStage, OwnInv, Limit, DriverInv, StagePhases, TypeOK
<1>3. /\ \A t \in Streams : pc[t] \in {"unused", "exited"} => fill[t] = Idle /\ prefetch[t] = Empty
      /\ \A t \in Streams : fill[t].at \in {"read", "cas"} => fill[t].st = i
      /\ count[i] = begun + Cardinality(Holding)
      /\ phase = "onStage" => streams = {}
  BY <1>2 DEF OwnInv
<1>4. fill[s] # Idle /\ prefetch[s] = Empty /\ Live(s) /\ pc[s] \notin {"unused", "exited"}
  <2>1. fill[s].at # "idle"
    BY DEF FillStep, FillLoad, FillRead, FillCas
  <2> QED
    BY <2>1, <1>3, FillFacts DEF ChannelInv, FillNeverBlocks, Live
<1> SUFFICES /\ \A t \in Streams :
                  pc[t] \in {"unused", "exited"} => fill'[t] = Idle /\ prefetch'[t] = Empty
             /\ \A t \in Streams : fill'[t].at \in {"read", "cas"} => fill'[t].st = i
             /\ count'[i] = begun + Cardinality(Holding')
  BY <1>1, <1>2, <1>3 DEF OwnInv
\* A fill that only goes from one of its steps to the next ...
<1>5. ASSUME NEW f, f \in {Read(i), Cas(i, count[i])}, fill' = [fill EXCEPT ![s] = f],
             UNCHANGED <<prefetch, count>>
      PROVE  /\ \A t \in Streams :
                  pc[t] \in {"unused", "exited"} => fill'[t] = Idle /\ prefetch'[t] = Empty
             /\ \A t \in Streams : fill'[t].at \in {"read", "cas"} => fill'[t].st = i
             /\ count'[i] = begun + Cardinality(Holding')
  <2>1. Holding' = Holding
    BY <1>5 DEF Holding
  <2>2. f.st = i
    BY <1>2, <1>5, FillFacts
  <2> QED
    BY <1>2, <1>3, <1>4, <1>5, <2>1, <2>2 DEF TypeOK
\* ... and one that ends.
<1>6. ASSUME NEW item, fill' = [fill EXCEPT ![s] = Idle], prefetch' = [prefetch EXCEPT ![s] = item],
             count'[i] = begun + Cardinality(Holding')
      PROVE  /\ \A t \in Streams :
                  pc[t] \in {"unused", "exited"} => fill'[t] = Idle /\ prefetch'[t] = Empty
             /\ \A t \in Streams : fill'[t].at \in {"read", "cas"} => fill'[t].st = i
             /\ count'[i] = begun + Cardinality(Holding')
  BY <1>2, <1>3, <1>4, <1>6, FillFacts DEF TypeOK
<1>7. CASE FillLoad(s)
  <2>1. fill' = [fill EXCEPT ![s] = Read(i)] /\ UNCHANGED <<prefetch, count>>
    BY <1>2, <1>7 DEF FillLoad, counterVars
  <2> QED
    BY <1>5, <2>1
<1>8. CASE FillRead(s)
  <2>1. fill[s].st = i /\ count' = count
    BY <1>3, <1>8 DEF FillRead
  <2>2. CASE count[i] >= Limit(i)
    <3>1. fill' = [fill EXCEPT ![s] = Idle] /\ prefetch' = [prefetch EXCEPT ![s] = Exhausted]
      BY <1>4, <1>8, <2>1, <2>2 DEF FillRead, Put
    <3>2. Holding' = Holding
      BY <1>4, <3>1 DEF Holding, TypeOK, Empty, Exhausted
    <3> QED
      BY <1>3, <1>6, <2>1, <3>1, <3>2
  <2>3. CASE ~(count[i] >= Limit(i))
    <3>1. fill' = [fill EXCEPT ![s] = Cas(i, count[i])] /\ prefetch' = prefetch
      BY <1>8, <2>1, <2>3 DEF FillRead
    <3> QED
      BY <1>5, <2>1, <3>1
  <2> QED
    BY <2>2, <2>3
<1>9. CASE FillCas(s)
  <2>1. fill[s].st = i
    BY <1>3, <1>9 DEF FillCas
  <2>2. CASE count[i] = fill[s].seen
    <3>1. /\ fill' = [fill EXCEPT ![s] = Idle] /\ prefetch' = [prefetch EXCEPT ![s] = i]
          /\ count' = [count EXCEPT ![i] = @ + 1]
      BY <1>4, <1>9, <2>1, <2>2 DEF FillCas, Put
    <3>2. s \notin Holding /\ Holding' = Holding \cup {s}
      BY <1>2, <1>4, <3>1 DEF Holding, TypeOK, Empty
    <3>3. Cardinality(Holding') = Cardinality(Holding) + 1 /\ Cardinality(Holding) \in Nat
      BY <3>2, HoldingFacts
    <3>4. count'[i] = count[i] + 1
      BY <1>2, <3>1 DEF TypeOK
    <3>5. count'[i] = begun + Cardinality(Holding')
      BY <1>2, <1>3, <3>3, <3>4
    <3> QED
      BY <1>6, <3>1, <3>5
  <2>3. CASE count[i] # fill[s].seen
    <3>1. fill' = [fill EXCEPT ![s] = Read(i)] /\ UNCHANGED <<prefetch, count>>
      BY <1>9, <2>1, <2>3 DEF FillCas
    <3> QED
      BY <1>5, <3>1
  <2> QED
    BY <2>2, <2>3
<1> QED
  BY <1>7, <1>8, <1>9 DEF FillStep

\* Every step keeps the account of the reservations.
LEMMA OwnStep ==
  ASSUME TypeOK, DriverInv, CounterInv, ChannelInv, PoolInv, OrderInv, OwnInv, [Next]_vars
  PROVE  OwnInv'
<1> SUFFICES ASSUME OwnStage' PROVE OwnInv'
  BY DEF OwnInv
<1>1. CASE StoreState \/ Grow \/ Shrink
  BY <1>1, OwnResize
<1>2. CASE \/ LeaveLoop \/ EnterBarrier \/ BarrierStopped \/ BarrierFlushed \/ OnBarrier
           \/ StageOver \/ DrainDone \/ DrainGivenUp \/ DrainStopped \/ NextStage \/ StopEarly
           \/ FinalStopped \/ Return
  <2>1. phase' \notin {"onStage", "wait", "drain"}
    BY <1>2 DEF LeaveLoop, EnterBarrier, BarrierStopped, BarrierFlushed, OnBarrier, StageOver,
                DrainDone, DrainGivenUp, DrainStopped, NextStage, StopEarly, FinalStopped, Return
  <2> QED
    BY <2>1 DEF OwnStage
<1>3. CASE StageExhausted \/ Interrupt \/ RecordResult \/ Returned \/ UNCHANGED vars
  <2>1. /\ UNCHANGED <<plan, i, count, pc, streams, cancelled, prefetch, fill, begun, fresh>>
        /\ phase' = phase \/ (phase = "wait" /\ phase' = "drain")
        /\ ctxDone => ctxDone'
    <3> USE DEF driverVars, counterVars, streamVars, history
    <3>1. CASE StageExhausted BY <3>1 DEF StageExhausted
    <3>2. CASE Interrupt BY <3>2 DEF Interrupt
    <3>3. CASE RecordResult BY <3>3 DEF RecordResult
    <3>4. CASE Returned \/ UNCHANGED vars BY <3>4 DEF Returned, vars
    <3> QED
      BY <1>3, <3>1, <3>2, <3>3, <3>4
  <2>2. OwnStage /\ Holding' = Holding
    BY <2>1 DEF OwnStage, Limit, Holding
  <2> QED
    BY <2>1, <2>2 DEF OwnInv
<1>4. ASSUME NEW s \in Streams, StreamStep(s) \/ ServerStep(s) \/ FillStep(s)
      PROVE  OwnInv'
  BY <1>4, OwnStream, OwnFill
<1> QED
  BY <1>1, <1>2, <1>3, <1>4 DEF Next, Driver

\* A stage with a request limit that took over no stream and no fill, and whose
\* drain ends by itself, has begun exactly max_requests conversations, however its
\* fills raced for the counter: none is lost in a channel and none is sent twice.
THEOREM FreshStagesAreExact == Spec => ExactWhenFresh
<1> DEFINE J == TypeOK /\ DriverInv /\ CounterInv /\ ChannelInv /\ PoolInv /\ OrderInv /\ OwnInv
<1>1. Init => J
  <2> SUFFICES ASSUME Init PROVE J
    OBVIOUS
  <2>1. TypeOK /\ DriverInv
    BY TypeInit
  <2>2. /\ plan \in Plans /\ i = 1 /\ phase = "top" /\ cur = 0 /\ fresh = FALSE
        /\ count = [k \in 1..Len(plan) |-> 0] /\ granted = count
        /\ done = [k \in 1..Len(plan) |-> FALSE]
        /\ \A s \in Streams : pc[s] = "unused" /\ prefetch[s] = Empty /\ fill[s] = Idle
        /\ streams = {} /\ cancelled = {}
    BY DEF Init
  <2>3. \A s \in Streams : fill[s].at = "idle"
    BY <2>2, FillFacts
  <2>4. CounterInv
    BY <2>2, <2>3, PlanFacts DEF CounterInv
  <2>5. ChannelInv /\ PoolInv
    BY <2>2 DEF ChannelInv, FillNeverBlocks, PoolInv, Live
  <2>6. OrderInv /\ OwnInv
    BY <2>2, <2>3 DEF OrderInv, OwnInv, OwnStage
  <2> QED
    BY <2>1, <2>4, <2>5, <2>6
<1>2. J /\ [Next]_vars => J'
  BY TypeStep, CounterStep, ChannelStep, PoolStep, OrderStep, OwnStep
<1>3. J /\ [Next]_vars =>
        [(phase = "drain" /\ phase' = "complete" /\ fresh /\ ~ctxDone) => begun = Limit(i)]_vars
  <2> SUFFICES ASSUME J, [Next]_vars, phase = "drain", phase' = "complete", fresh, ~ctxDone
               PROVE  begun = Limit(i)
    OBVIOUS
  <2>1. AllGone
    <3>1. \A s \in Streams : StreamStep(s) \/ ServerStep(s) \/ FillStep(s) => phase' = phase
      BY DEF StreamStep, ServerStep, FillStep, Begin, GiveUp, Take, TakeExhausted, RespondCut,
             RespondOk, RespondError, Exit, FillLoad, FillRead, FillCas, driverVars
    <3>2. Interrupt \/ RecordResult \/ Returned \/ UNCHANGED vars => phase' = phase
      BY DEF Interrupt, RecordResult, Returned, vars, driverVars
    <3>3. Driver
      BY <3>1, <3>2 DEF Next
    <3>4. DrainDone
      BY <3>3 DEF Driver, LeaveLoop, EnterBarrier, BarrierStopped, BarrierFlushed, OnBarrier,
                  StoreState, Grow, Shrink, StageOver, StageExhausted, DrainGivenUp, DrainStopped,
                  NextStage, StopEarly, FinalStopped, Return
    <3> QED
      BY <3>4 DEF DrainDone
  <2>2. i \in 1..Len(plan) /\ Limit(i) > 0 /\ done[i] /\ OwnStage
    BY DEF DriverInv, StagePhases, OrderInv, OwnStage
  <2>3. Holding = {}
    BY <2>1 DEF AllGone, Live, Holding, ChannelInv, Empty
  <2>4. count[i] = begun + 0 /\ begun \in Nat
    BY <2>2, <2>3, FS_EmptySet DEF OwnInv, TypeOK
  <2>5. count[i] = Limit(i)
    BY <2>2 DEF CounterInv
  <2> QED
    BY <2>4, <2>5
<1> QED
  BY <1>1, <1>2, <1>3, PTL DEF Spec, ExactWhenFresh
=============================================================================
