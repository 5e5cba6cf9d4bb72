--------------------------- MODULE ScenarioProofs ---------------------------
(***************************************************************************)
(* Proofs about Scenario for any set of workers and any stage lists: the   *)
(* workers meet at the same barriers as long as no generator gives up,     *)
(* every measured stage is stamped, and a warmup that is kept apart is not *)
(* measured.                                                               *)
(***************************************************************************)
EXTENDS Scenario, FiniteSetTheorems, WellFoundedInduction, TLAPS

AtBarrier == {"drain", "barrier", "waiting"}
AtLoad == {"running", "outstanding", "complete"}
Generating == {"top", "stop"} \cup AtBarrier \cup AtLoad   \* the generator runs

\* The stages whose load the worker's stream is sending or has results of.
Live(w) == {cur[w], fly[w], pending[w]} \ {0}

\* The barriers before stage p.
Before(p) == {j \in 1..(p - 1) : ~IsLoad(j)}

\* Where a worker is in the stage list: in the run it generates, or between runs.
Place(w) ==
  /\ pc[w] \in {"boot", "run"} => pos[w] = Len(plan) + 1 \/ RunStart(pos[w])
  /\ pc[w] = "dataset" => pos[w] <= Len(plan) /\ RunStart(pos[w])
  /\ pc[w] \in Generating =>
       /\ run[w] <= Len(plan) /\ RunStart(run[w])
       /\ run[w] <= pos[w] /\ pos[w] <= RunEnd(run[w]) + 1
  /\ pc[w] \in AtBarrier => pos[w] <= RunEnd(run[w]) /\ ~IsLoad(pos[w])
  /\ pc[w] \in AtLoad => pos[w] <= RunEnd(run[w]) /\ IsLoad(pos[w])
  /\ pc[w] = "stop" => pos[w] = RunEnd(run[w]) + 1 \/ genDone[w] \/ stopped[w]
  /\ stopped[w] => pc[w] \in {"stop", "finish", "done", "failed"}

\* Only a generator that gave up has its context cancelled on its own.
Context(w) ==
  /\ ctxDone[w] => genDone[w]
  /\ genDone[w] => ctxDone[w] \/ w \in aborted

\* The stage a worker has started and not stamped is the one it is at, or the one
\* its cancelled context has interrupted.
Stamped(w) ==
  /\ pc[w] \in AtLoad /\ ~IsWarmup(pos[w]) => last[w] = pos[w]
  /\ w \notin aborted =>
       /\ pc[w] \in AtLoad /\ IsWarmup(pos[w]) => last[w] = 0
       /\ pc[w] \notin AtLoad /\ last[w] # 0 => ctxDone[w]
       /\ pc[w] \notin {"done", "failed"} =>
            started[w] = IF last[w] = 0 THEN stamps[w] ELSE Append(stamps[w], last[w])
       /\ pc[w] = "done" => stamps[w] = started[w]

\* The load of a stage lives until the next draining barrier, in an open-loop run
\* only until the stage is over; and the main recorder is set by a measured stage
\* that has started since.
Flight(w) ==
  \A x \in Live(w) :
    /\ pc[w] \in Generating
    /\ run[w] <= x /\ x <= pos[w] /\ x <= RunEnd(run[w])
    /\ \A d \in x..(pos[w] - 1) : plan[d].kind # "drain"
    /\ pc[w] \in {"barrier", "waiting"} => plan[pos[w]].kind # "drain"
    /\ Mode(run[w]) = "rate" => x = pos[w] /\ pc[w] \in {"running", "outstanding"}
    /\ rec[w] = "main" =>
         \E j \in x..pos[w] : j <= RunEnd(run[w]) /\ IsLoad(j) /\ ~IsWarmup(j)

\* What is recorded of the warmups.
Measured(w) == \A k \in main[w] : IsWarmup(k) => ~Isolated(k)

\* A worker that nothing has stopped has passed every barrier before its stage, so
\* the number it registers under tells the barrier it is at.
Numbered(w) ==
  /\ barrierIdx[w] < pos[w]
  /\ w \notin aborted /\ ~ctxDone[w] /\ ~stopped[w] => barrierIdx[w] = Cardinality(Before(pos[w]))
  /\ w \notin aborted =>
       \A k \in 0..Len(plan) : \A p \in 1..Len(plan) :
         <<w, p>> \in registered[k] => ~IsLoad(p) /\ k = Cardinality(Before(p))

Local(w) == Place(w) /\ Context(w) /\ Stamped(w) /\ Flight(w) /\ Measured(w) /\ Numbered(w)

IInv == TypeOK /\ \A w \in Workers : Local(w)

-----------------------------------------------------------------------------
(* The operators on the stage list.                                        *)

LEMMA NatMin ==
  ASSUME NEW S, S \subseteq Nat, S # {}
  PROVE  \E x \in S : \A y \in S : x <= y
<1> DEFINE R == OpToRel(<, Nat)
<1>1. \E x \in S : \A y \in S : ~(<<y, x>> \in R) BY NatLessThanWellFounded, WFMin, Zenon
<1>2. PICK x \in S : \A y \in S : ~(<<y, x>> \in R) BY <1>1, Zenon
<1>3. \A y \in S : x <= y
  <2> SUFFICES ASSUME NEW y \in S, ~(x <= y) PROVE FALSE OBVIOUS
  <2>1. x \in Nat /\ y \in Nat /\ y < x OBVIOUS
  <2>2. <<y, x>> \in R BY <2>1, Zenon DEF OpToRel
  <2> QED BY <2>2, <1>2, Zenon
<1> QED BY <1>3

\* The stage list is a list of stages.
LEMMA PlanType ==
  ASSUME plan \in {InsertImplicitBarrier(p) : p \in Plans}
  PROVE  plan \in Seq(Stage) /\ Len(plan) \in Nat
<1>1. PICK p \in Plans : plan = InsertImplicitBarrier(p) OBVIOUS
<1>2. p \in Seq(Stage) BY ScenarioAssumption
<1>3. ImplicitBarrier \in Stage BY ScenarioAssumption DEF ImplicitBarrier, Stage
<1> HIDE DEF Stage
<1>4. <<ImplicitBarrier>> \o p \in Seq(Stage) BY <1>2, <1>3
<1>5. plan \in Seq(Stage) BY <1>1, <1>2, <1>4 DEF InsertImplicitBarrier
<1> QED BY <1>5

\* The operators depend on the stage list alone.
LEMMA PlanFixed ==
  ASSUME plan' = plan
  PROVE  /\ \A k : (IsLoad(k)' <=> IsLoad(k)) /\ (IsWarmup(k)' <=> IsWarmup(k))
         /\ \A k : (RunStart(k)' <=> RunStart(k)) /\ RunEnd(k)' = RunEnd(k)
         /\ \A k : Mode(k)' = Mode(k) /\ (Isolated(k)' <=> Isolated(k))
         /\ \A k : Before(k)' = Before(k)
<1>1. \A k : (IsLoad(k)' <=> IsLoad(k)) /\ (IsWarmup(k)' <=> IsWarmup(k))
  BY SMT DEF IsLoad, IsWarmup
<1>2. \A k : Key(k)' = Key(k) BY SMT DEF Key, IsLoad
<1>3. \A k : RunStart(k)' <=> RunStart(k) BY <1>2, Zenon DEF RunStart
<1>4. \A k : RunEnd(k)' = RunEnd(k) BY SMT DEF RunEnd, RunStart, Key, IsLoad
<1>5. \A k : RunOf(k)' = RunOf(k) BY SMT DEF RunOf, RunStart, Key, IsLoad
<1>6. \A k : Mode(k)' = Mode(k) BY SMT DEF Mode, IsLoad
<1>7. \A k : Isolated(k)' <=> Isolated(k)
  BY SMT DEF Isolated, IsWarmup, IsLoad, Mode, RunOf, RunEnd, RunStart, Key
<1>8. \A k : Before(k)' = Before(k) BY SMT DEF Before, IsLoad
<1> QED BY <1>1, <1>3, <1>4, <1>6, <1>7, <1>8, Zenon

\* A run ends before the next one starts.
LEMMA RunEndFacts ==
  ASSUME Len(plan) \in Nat, NEW k \in 1..Len(plan)
  PROVE  /\ RunEnd(k) \in k..Len(plan)
         /\ RunEnd(k) = Len(plan) \/ RunStart(RunEnd(k) + 1)
         /\ \A h \in (k + 1)..RunEnd(k) : ~RunStart(h)
<1> DEFINE S == {j \in k..Len(plan) : j = Len(plan) \/ RunStart(j + 1)}
           P(j) == /\ j = Len(plan) \/ RunStart(j + 1)
                   /\ \A h \in (k + 1)..j : ~RunStart(h)
<1>1. S \subseteq Nat /\ Len(plan) \in S OBVIOUS
<1>2. PICK m \in S : \A y \in S : m <= y
  <2> HIDE DEF S
  <2> QED BY <1>1, NatMin
<1>3. \A h \in (k + 1)..m : ~RunStart(h)
  <2> SUFFICES ASSUME NEW h \in (k + 1)..m, RunStart(h) PROVE FALSE OBVIOUS
  <2>1. h - 1 \in k..Len(plan) /\ (h - 1) + 1 = h OBVIOUS
  <2>2. h - 1 \in S BY <2>1
  <2>3. m \in k..Len(plan) OBVIOUS
  <2>4. m <= h - 1
    <3> HIDE DEF S
    <3> QED BY <1>2, <2>2
  <2> HIDE DEF S
  <2> QED BY <2>3, <2>4
<1>4. m \in k..Len(plan) /\ P(m) BY <1>2, <1>3
<1> HIDE DEF P
<1>5. (CHOOSE j \in k..Len(plan) : P(j)) \in k..Len(plan) /\ P(CHOOSE j \in k..Len(plan) : P(j))
  BY <1>4, Zenon
<1>6. RunEnd(k) = CHOOSE j \in k..Len(plan) : P(j) BY Zenon DEF RunEnd, P
<1> QED BY <1>5, <1>6, Zenon DEF P

\* All stages of a run have its first stage and its end.
LEMMA RunUnique ==
  ASSUME Len(plan) \in Nat, NEW r \in 1..Len(plan), RunStart(r), NEW k \in r..RunEnd(r)
  PROVE  RunOf(k) = r /\ RunEnd(k) = RunEnd(r)
<1>1. /\ RunEnd(r) \in r..Len(plan)
      /\ RunEnd(r) = Len(plan) \/ RunStart(RunEnd(r) + 1)
      /\ \A h \in (r + 1)..RunEnd(r) : ~RunStart(h)
  BY RunEndFacts
<1>2. k \in 1..Len(plan) BY <1>1
<1>3. /\ RunEnd(k) \in k..Len(plan)
      /\ RunEnd(k) = Len(plan) \/ RunStart(RunEnd(k) + 1)
      /\ \A h \in (k + 1)..RunEnd(k) : ~RunStart(h)
  BY <1>2, RunEndFacts
<1>4. RunEnd(k) = RunEnd(r)
  <2>1. CASE RunEnd(k) < RunEnd(r)
    <3>1. RunEnd(k) + 1 \in (r + 1)..RunEnd(r) BY <1>1, <1>3, <2>1
    <3> QED BY <3>1, <1>1, <1>3, <2>1
  <2>2. CASE RunEnd(r) < RunEnd(k)
    <3>1. RunEnd(r) + 1 \in (k + 1)..RunEnd(k) BY <1>1, <1>3, <2>2
    <3> QED BY <3>1, <1>1, <1>3, <2>2
  <2> QED BY <1>1, <1>3, <2>1, <2>2
<1>5. RunOf(k) = r
  <2> DEFINE P(j) == RunStart(j) /\ \A h \in (j + 1)..k : ~RunStart(h)
  <2>1. r \in 1..k /\ P(r) BY <1>1
  <2>2. \A j \in 1..k : P(j) => j = r
    <3> SUFFICES ASSUME NEW j \in 1..k, P(j), j # r PROVE FALSE OBVIOUS
    <3>1. CASE j < r BY <3>1, <2>1
    <3>2. CASE r < j
      <4>1. j \in (r + 1)..RunEnd(r) BY <3>2, <1>1
      <4> QED BY <4>1, <1>1
    <3> QED BY <3>1, <3>2
  <2>3. RunOf(k) = CHOOSE j \in 1..k : P(j) BY Zenon DEF RunOf
  <2> HIDE DEF P
  <2>4. (CHOOSE j \in 1..k : P(j)) \in 1..k /\ P(CHOOSE j \in 1..k : P(j)) BY <2>1, Zenon
  <2> QED BY <2>2, <2>3, <2>4, Zenon
<1> QED BY <1>4, <1>5

\* The two kinds of generators.
LEMMA ModeType ==
  ASSUME plan \in Seq(Stage), NEW k \in 1..Len(plan)
  PROVE  Mode(k) \in {"closed", "rate"}
<1> DEFINE loads == {j \in k..Len(plan) : IsLoad(j)}
           first == CHOOSE j \in loads : \A h \in loads : j <= h
<1>1. CASE loads = {} BY <1>1 DEF Mode
<1>2. CASE loads # {}
  <2>1. loads \subseteq Nat OBVIOUS
  <2>2. \E x \in loads : \A y \in loads : x <= y
    <3> HIDE DEF loads
    <3> QED BY <1>2, <2>1, NatMin
  <2>3. first \in loads
    <3> HIDE DEF loads
    <3> QED BY <2>2, Zenon
  <2>4. Mode(k) = plan[first].mode BY <1>2, Zenon DEF Mode
  <2>5. first \in 1..Len(plan) BY <2>3
  <2>6. plan[first] \in Stage
    <3> HIDE DEF first
    <3> QED BY <2>5
  <2> QED BY <2>4, <2>6 DEF Stage
<1> QED BY <1>1, <1>2

\* The barriers before a stage number the barriers.
LEMMA BeforeFacts ==
  ASSUME Len(plan) \in Nat, NEW p \in 1..(Len(plan) + 1)
  PROVE  /\ IsFiniteSet(Before(p)) /\ Cardinality(Before(p)) \in Nat
         /\ Before(1) = {}
         /\ IsLoad(p) => Before(p + 1) = Before(p)
         /\ ~IsLoad(p) => Cardinality(Before(p + 1)) = Cardinality(Before(p)) + 1
<1>1. IsFiniteSet(1..(p - 1)) BY FS_Interval
<1>2. Before(p) \subseteq 1..(p - 1) BY DEF Before
<1>3. IsFiniteSet(Before(p)) BY <1>1, <1>2, FS_Subset
<1>4. Before(1) = {} BY DEF Before
<1>5. IsLoad(p) => Before(p + 1) = Before(p) BY DEF Before
<1>6. ~IsLoad(p) => Before(p + 1) = Before(p) \cup {p} BY DEF Before
<1>7. p \notin Before(p) BY DEF Before
<1>8. Cardinality(Before(p) \cup {p}) = Cardinality(Before(p)) + 1 BY <1>3, <1>7, FS_AddElement
<1>9. Cardinality(Before(p)) \in Nat BY <1>3, FS_CardinalityType
<1> QED BY <1>3, <1>4, <1>5, <1>6, <1>8, <1>9

LEMMA BeforeNumbers ==
  ASSUME Len(plan) \in Nat, NEW p \in 1..Len(plan), NEW q \in 1..Len(plan),
         ~IsLoad(p), ~IsLoad(q), Cardinality(Before(p)) = Cardinality(Before(q))
  PROVE  p = q
<1>1. ASSUME NEW a \in 1..Len(plan), NEW b \in 1..Len(plan), ~IsLoad(a), a < b
      PROVE  Cardinality(Before(a)) < Cardinality(Before(b))
  <2>1. a + 1 \in 1..(Len(plan) + 1) /\ a \in 1..(Len(plan) + 1) /\ b \in 1..(Len(plan) + 1)
    BY <1>1
  <2>2. Before(a + 1) \subseteq Before(b) BY <1>1 DEF Before
  <2>3. Cardinality(Before(a)) \in Nat /\ Cardinality(Before(b)) \in Nat
        /\ IsFiniteSet(Before(b)) /\ Cardinality(Before(a + 1)) = Cardinality(Before(a)) + 1
    BY <1>1, <2>1, BeforeFacts
  <2>4. Cardinality(Before(a + 1)) <= Cardinality(Before(b)) BY <2>2, <2>3, FS_Subset
  <2> QED BY <2>3, <2>4
<1>2. Cardinality(Before(p)) \in Nat
  <2>1. p \in 1..(Len(plan) + 1) OBVIOUS
  <2> QED BY <2>1, BeforeFacts
<1>3. CASE p < q BY <1>1, <1>2, <1>3
<1>4. CASE q < p BY <1>1, <1>2, <1>4
<1> QED BY <1>3, <1>4

-----------------------------------------------------------------------------
(* Frames: a step of one worker leaves the others' facts alone.            *)

\* Everything Local says of worker v.
SameAt(v) ==
  /\ pc'[v] = pc[v] /\ run'[v] = run[v] /\ pos'[v] = pos[v] /\ stopped'[v] = stopped[v]
  /\ ctxDone'[v] = ctxDone[v] /\ genDone'[v] = genDone[v] /\ (v \in aborted' <=> v \in aborted)
  /\ last'[v] = last[v] /\ stamps'[v] = stamps[v] /\ started'[v] = started[v]
  /\ rec'[v] = rec[v] /\ cur'[v] = cur[v] /\ fly'[v] = fly[v] /\ pending'[v] = pending[v]
  /\ main'[v] = main[v] /\ barrierIdx'[v] = barrierIdx[v]
  /\ \A k \in 0..Len(plan) : \A p \in 1..Len(plan) :
       <<v, p>> \in registered'[k] => <<v, p>> \in registered[k]

LEMMA Frame ==
  ASSUME NEW v \in Workers, plan' = plan, SameAt(v), Local(v)
  PROVE  Local(v)'
<1> USE PlanFixed DEF SameAt
<1>1. Place(v)' BY DEF Local, Place
<1>2. Context(v)' BY DEF Local, Context
<1>3. Stamped(v)' BY DEF Local, Stamped
<1>4. Flight(v)' BY ZenonT(60) DEF Local, Flight, Live
<1>5. Measured(v)' BY DEF Local, Measured
<1>6. Numbered(v)' BY DEF Local, Numbered
<1> QED BY <1>1, <1>2, <1>3, <1>4, <1>5, <1>6 DEF Local

LEMMA OneWorker ==
  ASSUME IInv, NEW w \in Workers, plan' = plan, TypeOK', Local(w)',
         \A v \in Workers \ {w} : SameAt(v)
  PROVE  IInv'
<1>1. \A v \in Workers \ {w} : Local(v)' BY Frame DEF IInv
<1> QED BY <1>1 DEF IInv

\* What the type invariant says of a worker.
LEMMA WorkerTypes ==
  ASSUME TypeOK, NEW w \in Workers
  PROVE  /\ plan \in Seq(Stage) /\ Len(plan) \in Nat
         /\ run[w] \in 1..(Len(plan) + 1) /\ pos[w] \in 1..(Len(plan) + 1) /\ pc[w] \in PCs
         /\ ctxDone[w] \in BOOLEAN /\ genDone[w] \in BOOLEAN /\ stopped[w] \in BOOLEAN
         /\ barrierIdx[w] \in 0..Len(plan) /\ rec[w] \in {"main", "warmup"}
         /\ cur[w] \in 0..Len(plan) /\ fly[w] \in 0..Len(plan)
         /\ pending[w] \in 0..Len(plan) /\ last[w] \in 0..Len(plan)
         /\ main[w] \subseteq 1..Len(plan)
         /\ stamps[w] \in Seq(1..Len(plan)) /\ started[w] \in Seq(1..Len(plan))
<1>1. plan \in Seq(Stage) /\ Len(plan) \in Nat BY PlanType DEF TypeOK
<1> QED BY <1>1 DEF TypeOK

\* A run's end, as its worker sees it.
LEMMA RunFacts ==
  ASSUME IInv, NEW w \in Workers, pc[w] \in Generating
  PROVE  /\ run[w] \in 1..Len(plan) /\ RunEnd(run[w]) \in run[w]..Len(plan)
         /\ RunEnd(run[w]) = Len(plan) \/ RunStart(RunEnd(run[w]) + 1)
         /\ pos[w] \in run[w]..(RunEnd(run[w]) + 1)
         /\ Mode(run[w]) \in {"closed", "rate"}
<1>1. Local(w) /\ TypeOK BY DEF IInv
<1>2. plan \in Seq(Stage) /\ Len(plan) \in Nat /\ run[w] \in 1..(Len(plan) + 1)
      /\ pos[w] \in 1..(Len(plan) + 1)
  BY <1>1, WorkerTypes
<1>3. run[w] <= Len(plan) /\ run[w] <= pos[w] /\ pos[w] <= RunEnd(run[w]) + 1
  BY <1>1 DEF Local, Place
<1>4. run[w] \in 1..Len(plan) BY <1>2, <1>3
<1>5. /\ RunEnd(run[w]) \in run[w]..Len(plan)
      /\ RunEnd(run[w]) = Len(plan) \/ RunStart(RunEnd(run[w]) + 1)
  BY <1>2, <1>4, RunEndFacts
<1>6. Mode(run[w]) \in {"closed", "rate"} BY <1>2, <1>4, ModeType
<1> QED BY <1>2, <1>3, <1>4, <1>5, <1>6

\* Outside its run a worker has no load.
LEMMA NoLoad ==
  ASSUME IInv, NEW w \in Workers, pc[w] \notin Generating
  PROVE  Live(w) = {} /\ cur[w] = 0 /\ fly[w] = 0 /\ pending[w] = 0
<1>1. Live(w) = {} BY DEF IInv, Local, Flight
<1> QED BY <1>1 DEF Live

-----------------------------------------------------------------------------
(* The worker's steps between its runs and stages.                         *)

\* A step of the worker's program counter alone.
LEMMA GotoKeeps ==
  ASSUME IInv, NEW w \in Workers, NEW q \in PCs, Goto(w, q),
         UNCHANGED <<where, control, genVars, stampVars>>,
         Place(w)', Stamped(w)', Flight(w)'
  PROVE  IInv'
<1>1. TypeOK /\ Local(w) BY DEF IInv
<1>2. plan' = plan BY DEF where
<1>3. TypeOK' BY <1>1 DEF TypeOK, Goto, where, control, genVars, stampVars
<1>4. \A v \in Workers \ {w} : SameAt(v)
  BY <1>1 DEF TypeOK, SameAt, Goto, where, control, genVars, stampVars
<1>5. Context(w)' BY <1>1 DEF Local, Context, control
<1>6. Measured(w)' BY <1>1, <1>2, PlanFixed DEF Local, Measured, genVars
<1>7. Numbered(w)' BY <1>1, <1>2, PlanFixed DEF Local, Numbered, control, where
<1>8. Local(w)' BY <1>5, <1>6, <1>7 DEF Local
<1> QED BY <1>2, <1>3, <1>4, <1>8, OneWorker

\* A step of the program counter where the worker has no load, outside the stages.
LEMMA IdleGotoKeeps ==
  ASSUME IInv, NEW w \in Workers, NEW q \in PCs, Goto(w, q),
         UNCHANGED <<where, control, genVars, stampVars>>,
         pc[w] \in {"boot", "run", "dataset"}, q \in {"run", "dataset", "finish", "failed"},
         q = "run" => pc[w] = "boot",
         q = "dataset" => pc[w] = "run" /\ pos[w] <= Len(plan)
  PROVE  IInv'
<1>1. TypeOK /\ Local(w) BY DEF IInv
<1>2. plan' = plan BY DEF where
<1>3. pc'[w] = q BY <1>1 DEF TypeOK, Goto
<1>4. Place(w)'
  <2>1. q = "dataset" => pos[w] <= Len(plan) /\ RunStart(pos[w])
    <3>1. Len(plan) \in Nat BY WorkerTypes
    <3> QED BY <1>1, <3>1 DEF Local, Place
  <2> QED BY <1>1, <1>2, <1>3, <2>1, PlanFixed
          DEF Local, Place, AtBarrier, AtLoad, Generating, where, control
<1>5. Stamped(w)' BY <1>1, <1>2, <1>3, PlanFixed DEF Local, Stamped, AtLoad, where, control, stampVars
<1>6. Flight(w)'
  <2>1. cur[w] = 0 /\ fly[w] = 0 /\ pending[w] = 0 BY NoLoad DEF Generating, AtBarrier, AtLoad
  <2> QED BY <2>1 DEF Flight, Live, genVars
<1> QED BY <1>4, <1>5, <1>6, GotoKeeps

LEMMA BootKeeps == ASSUME IInv, NEW w \in Workers, Boot(w) PROVE IInv'
<1>1. pc[w] = "boot" /\ UNCHANGED <<where, control, genVars, stampVars>> BY DEF Boot
<1>2. CASE Goto(w, "run") BY <1>1, <1>2, IdleGotoKeeps DEF PCs
<1>3. CASE Goto(w, "failed") BY <1>1, <1>3, IdleGotoKeeps DEF PCs
<1> QED BY <1>2, <1>3 DEF Boot

LEMMA NextRunKeeps == ASSUME IInv, NEW w \in Workers, NextRun(w) PROVE IInv'
BY IdleGotoKeeps DEF NextRun, PCs

LEMMA RunFailsKeeps == ASSUME IInv, NEW w \in Workers, RunFails(w) PROVE IInv'
BY IdleGotoKeeps DEF RunFails, PCs

LEMMA NoMoreRunsKeeps == ASSUME IInv, NEW w \in Workers, NoMoreRuns(w) PROVE IInv'
BY IdleGotoKeeps DEF NoMoreRuns, PCs

LEMMA LeaveLoopKeeps == ASSUME IInv, NEW w \in Workers, LeaveLoop(w) PROVE IInv'
<1>1. TypeOK /\ Local(w) BY DEF IInv
<1>2. pc[w] = "top" /\ Goto(w, "stop") /\ UNCHANGED <<where, control, genVars, stampVars>>
  BY DEF LeaveLoop
<1>3. plan' = plan BY <1>2 DEF where
<1>4. pc'[w] = "stop" BY <1>1, <1>2 DEF TypeOK, Goto
<1> USE <1>1, <1>2, <1>3, <1>4, PlanFixed DEF Local, AtBarrier, AtLoad, Generating
<1>5. Place(w)'
  <2>1. pos[w] = RunEnd(run[w]) + 1 \/ genDone[w]
    <3>1. pos[w] \in run[w]..(RunEnd(run[w]) + 1) /\ RunEnd(run[w]) \in run[w]..Len(plan)
      BY RunFacts
    <3>2. Len(plan) \in Nat /\ run[w] \in 1..(Len(plan) + 1) BY WorkerTypes
    <3> QED BY <3>1, <3>2 DEF LeaveLoop
  <2> QED BY <2>1 DEF Place, where, control
<1>6. Stamped(w)' BY DEF Stamped, where, control, stampVars
<1>7. Flight(w)' BY DEF Flight, Live, where, genVars
<1> QED BY <1>5, <1>6, <1>7, GotoKeeps DEF PCs

LEMMA EnterBarrierKeeps == ASSUME IInv, NEW w \in Workers, EnterBarrier(w) PROVE IInv'
<1>1. TypeOK /\ Local(w) BY DEF IInv
<1> DEFINE q == IF plan[pos[w]].kind = "drain" /\ Mode(run[w]) = "closed" THEN "drain" ELSE "barrier"
<1>2. /\ pc[w] = "top" /\ pos[w] <= RunEnd(run[w]) /\ ~IsLoad(pos[w])
      /\ Goto(w, q) /\ UNCHANGED <<where, control, genVars, stampVars>>
  BY DEF EnterBarrier, InRun
<1>3. plan' = plan BY <1>2 DEF where
<1>4. pc'[w] = q BY <1>1, <1>2 DEF TypeOK, Goto
<1>5. q \in {"drain", "barrier"} OBVIOUS
<1>6. Mode(run[w]) \in {"closed", "rate"} BY <1>2, RunFacts DEF Generating
<1>7. q = "barrier" /\ plan[pos[w]].kind = "drain" => Mode(run[w]) = "rate" BY <1>6
<1> HIDE DEF q
<1> USE <1>1, <1>2, <1>3, <1>4, <1>5, PlanFixed DEF Local, AtBarrier, AtLoad, Generating
<1>8. Place(w)' BY DEF Place, where, control
<1>9. Stamped(w)' BY DEF Stamped, where, control, stampVars
<1>10. Flight(w)' BY <1>7 DEF Flight, Live, where, genVars
<1> QED BY <1>8, <1>9, <1>10, GotoKeeps DEF PCs

LEMMA StageEndsKeeps == ASSUME IInv, NEW w \in Workers, StageEnds(w) PROVE IInv'
<1>1. TypeOK /\ Local(w) BY DEF IInv
<1> DEFINE q == IF Mode(run[w]) = "rate" THEN "outstanding" ELSE "complete"
<1>2. pc[w] = "running" /\ Goto(w, q) /\ UNCHANGED <<where, control, genVars, stampVars>>
  BY DEF StageEnds
<1>3. plan' = plan BY <1>2 DEF where
<1>4. pc'[w] = q BY <1>1, <1>2 DEF TypeOK, Goto
<1>5. q \in {"outstanding", "complete"} /\ (Mode(run[w]) = "rate" => q = "outstanding") OBVIOUS
<1> HIDE DEF q
<1> USE <1>1, <1>2, <1>3, <1>4, <1>5, PlanFixed DEF Local, AtBarrier, AtLoad, Generating
<1>6. Place(w)' BY DEF Place, where, control
<1>7. Stamped(w)' BY DEF Stamped, where, control, stampVars
<1>8. Flight(w)' BY DEF Flight, Live, where, genVars
<1> QED BY <1>6, <1>7, <1>8, GotoKeeps DEF PCs

LEMMA StartRunKeeps == ASSUME IInv, NEW w \in Workers, StartRun(w) PROVE IInv'
<1>1. TypeOK /\ Local(w) BY DEF IInv
<1>2. plan' = plan BY DEF StartRun
<1>3. /\ pc[w] = "dataset"
      /\ pc'[w] = "top" /\ run'[w] = pos[w] /\ genDone'[w] = ctxDone[w] /\ rec'[w] = "main"
      /\ UNCHANGED <<plan, registered, pos, ctxDone, barrierIdx, stopped, aborted,
                     cur, fly, pending, main, stampVars>>
  BY <1>1 DEF StartRun, Goto, TypeOK
<1>4. TypeOK'
  <2>1. pc' \in [Workers -> PCs] BY <1>1 DEF TypeOK, StartRun, Goto, PCs
  <2>2. run' \in [Workers -> 1..(Len(plan) + 1)] BY <1>1 DEF TypeOK, StartRun
  <2>3. genDone' \in [Workers -> BOOLEAN] /\ rec' \in [Workers -> {"main", "warmup"}]
    BY <1>1 DEF TypeOK, StartRun
  <2>4. UNCHANGED <<plan, registered, pos, ctxDone, barrierIdx, stopped, aborted,
                    cur, fly, pending, main, stampVars>>
    BY <1>3
  <2> QED BY <1>1, <2>1, <2>2, <2>3, <2>4, ZenonT(60) DEF TypeOK, stampVars
<1>5. \A v \in Workers \ {w} : SameAt(v) BY <1>1 DEF TypeOK, SameAt, StartRun, Goto, stampVars
<1>6. Place(w)'
  <2>1. pos[w] \in 1..Len(plan) /\ Len(plan) \in Nat BY <1>1, <1>3, WorkerTypes DEF Local, Place
  <2>2. RunStart(pos[w]) BY <1>1, <1>3, <2>1 DEF Local, Place
  <2>3. RunEnd(pos[w]) \in pos[w]..Len(plan) BY <2>1, RunEndFacts
  <2> QED BY <1>1, <1>2, <1>3, <2>1, <2>2, <2>3, PlanFixed
          DEF Local, Place, Generating, AtBarrier, AtLoad
<1>7. Context(w)' BY <1>3 DEF Context
<1>8. Stamped(w)' BY <1>1, <1>2, <1>3, PlanFixed DEF Local, Stamped, AtLoad, stampVars
<1>9. Flight(w)'
  <2>1. cur[w] = 0 /\ fly[w] = 0 /\ pending[w] = 0 BY <1>3, NoLoad DEF Generating, AtBarrier, AtLoad
  <2> QED BY <2>1, <1>3 DEF Flight, Live
<1>10. Measured(w)' BY <1>1, <1>2, <1>3, PlanFixed DEF Local, Measured
<1>11. Numbered(w)' BY <1>1, <1>2, <1>3, PlanFixed DEF Local, Numbered
<1>12. Local(w)' BY <1>6, <1>7, <1>8, <1>9, <1>10, <1>11 DEF Local
<1> QED BY <1>2, <1>4, <1>5, <1>12, OneWorker

LEMMA ReturnKeeps == ASSUME IInv, NEW w \in Workers, Return(w) PROVE IInv'
<1>1. TypeOK /\ Local(w) BY DEF IInv
<1> DEFINE q == IF stopped[w] THEN "finish" ELSE "run"
<1>2. /\ pc[w] = "stop" /\ fly[w] = 0 /\ pending[w] = 0
      /\ pc' = [pc EXCEPT ![w] = q] /\ pos' = [pos EXCEPT ![w] = RunEnd(run[w]) + 1]
      /\ cur' = [cur EXCEPT ![w] = 0]
      /\ UNCHANGED <<plan, registered, run, control, rec, fly, pending, main, stampVars>>
  BY DEF Return, GeneratorReturns, Goto
<1>3. q \in {"finish", "run"} /\ (stopped[w] => q = "finish") OBVIOUS
<1> HIDE DEF q
<1>4. /\ run[w] \in 1..Len(plan) /\ RunEnd(run[w]) \in run[w]..Len(plan)
      /\ RunEnd(run[w]) = Len(plan) \/ RunStart(RunEnd(run[w]) + 1)
      /\ pos[w] \in run[w]..(RunEnd(run[w]) + 1)
  BY <1>2, RunFacts DEF Generating
<1>5. Len(plan) \in Nat BY <1>1, WorkerTypes
<1> DEFINE e == RunEnd(run[w]) + 1
<1>6. e \in 1..(Len(plan) + 1) /\ (e = Len(plan) + 1 \/ RunStart(e)) /\ pos[w] <= e
  BY <1>4, <1>5
<1>7. pc'[w] = q /\ pos'[w] = e /\ cur'[w] = 0 BY <1>1, <1>2 DEF TypeOK
<1>8. pos' = [pos EXCEPT ![w] = e] BY <1>2
<1>9. pos[w] # e => ctxDone[w] \/ stopped[w] \/ w \in aborted
  BY <1>1, <1>2 DEF Local, Place, Context
<1> HIDE DEF e
<1>10. TypeOK'
  <2>1. e \in 1..(Len(plan) + 1) /\ q \in PCs /\ 0 \in 0..Len(plan) BY <1>3, <1>5, <1>6 DEF PCs
  <2>2. pos' \in [Workers -> 1..(Len(plan) + 1)] BY <1>1, <1>8, <2>1 DEF TypeOK
  <2>3. pc' \in [Workers -> PCs] BY <1>1, <1>2, <2>1 DEF TypeOK
  <2>4. cur' \in [Workers -> 0..Len(plan)] BY <1>1, <1>2, <2>1 DEF TypeOK
  <2>5. UNCHANGED <<plan, registered, run, control, rec, fly, pending, main, stampVars>> BY <1>2
  <2> QED BY <1>1, <2>2, <2>3, <2>4, <2>5, ZenonT(60) DEF TypeOK, control, stampVars
<1>11. \A v \in Workers \ {w} : SameAt(v) BY <1>1, <1>2 DEF TypeOK, SameAt, control, stampVars
<1>12. plan' = plan /\ UNCHANGED <<registered, run, control, rec, fly, pending, main, stampVars>>
  BY <1>2
<1>13. Place(w)'
  BY <1>1, <1>3, <1>6, <1>7, <1>12, PlanFixed
  DEF Local, Place, Generating, AtBarrier, AtLoad, control
<1>14. Context(w)' BY <1>1, <1>12 DEF Local, Context, control
<1>15. Stamped(w)'
  BY <1>1, <1>2, <1>3, <1>7, <1>12, PlanFixed DEF Local, Stamped, AtLoad, control, stampVars
<1>16. Flight(w)' BY <1>2, <1>7, <1>12 DEF Flight, Live
<1>17. Measured(w)' BY <1>1, <1>12, PlanFixed DEF Local, Measured
<1>18. Numbered(w)'
  <2>1. barrierIdx'[w] < pos'[w]
    <3>1. barrierIdx[w] < pos[w] BY <1>1 DEF Local, Numbered
    <3>2. barrierIdx[w] \in Nat /\ pos[w] \in Nat /\ e \in Nat BY <1>1, <1>6, WorkerTypes
    <3> QED BY <1>6, <1>7, <1>12, <3>1, <3>2 DEF control
  <2>2. ASSUME w \notin aborted', ~ctxDone'[w], ~stopped'[w]
        PROVE  barrierIdx'[w] = Cardinality(Before(pos[w])')
    <3>1. pos'[w] = pos[w] /\ w \notin aborted /\ ~ctxDone[w] /\ ~stopped[w]
      BY <1>7, <1>9, <1>12, <2>2 DEF control
    <3> QED BY <1>1, <1>12, <3>1, PlanFixed DEF Local, Numbered, control
  <2> QED BY <1>1, <1>12, <2>1, <2>2, PlanFixed DEF Local, Numbered, control
<1>19. Local(w)' BY <1>13, <1>14, <1>15, <1>16, <1>17, <1>18 DEF Local
<1> QED BY <1>10, <1>11, <1>12, <1>19, OneWorker

LEMMA FinishKeeps == ASSUME IInv, NEW w \in Workers, Finish(w) PROVE IInv'
<1>1. TypeOK /\ Local(w) BY DEF IInv
<1>2. PICK q \in {"done", "failed"} : pc' = [pc EXCEPT ![w] = q] BY DEF Finish, Goto
<1> DEFINE t == IF last[w] = 0 THEN stamps[w] ELSE Append(stamps[w], last[w])
<1>3. pc[w] = "finish" /\ stamps' = [stamps EXCEPT ![w] = t]
      /\ UNCHANGED <<where, control, genVars, last, started>>
  BY DEF Finish
<1>4. t \in Seq(1..Len(plan))
  <2>1. last[w] \in 0..Len(plan) /\ stamps[w] \in Seq(1..Len(plan)) /\ Len(plan) \in Nat
    BY <1>1, WorkerTypes
  <2>2. CASE last[w] = 0 BY <2>1, <2>2
  <2>3. CASE last[w] # 0
    <3>1. last[w] \in 1..Len(plan) BY <2>1, <2>3
    <3>2. Append(stamps[w], last[w]) \in Seq(1..Len(plan)) BY <2>1, <3>1
    <3> QED BY <2>3, <3>2
  <2> QED BY <2>2, <2>3
<1>5. plan' = plan BY <1>3 DEF where
<1>6. w \notin aborted => started[w] = t BY <1>1, <1>3 DEF Local, Stamped
<1> HIDE DEF t
<1>7. TypeOK'
  <2>1. stamps' \in [Workers -> Seq(1..Len(plan))] BY <1>1, <1>3, <1>4 DEF TypeOK
  <2>2. pc' \in [Workers -> PCs] BY <1>1, <1>2 DEF TypeOK, PCs
  <2> QED BY <1>1, <1>3, <2>1, <2>2, ZenonT(60) DEF TypeOK, where, control, genVars
<1>8. \A v \in Workers \ {w} : SameAt(v)
  BY <1>1, <1>2, <1>3 DEF TypeOK, SameAt, where, control, genVars
<1>9. pc'[w] = q /\ stamps'[w] = t BY <1>1, <1>2, <1>3 DEF TypeOK
<1>10. Place(w)'
  BY <1>1, <1>3, <1>5, <1>9, PlanFixed DEF Local, Place, Generating, AtBarrier, AtLoad, where, control
<1>11. Context(w)' BY <1>1, <1>3 DEF Local, Context, control
<1>12. Stamped(w)' BY <1>1, <1>3, <1>5, <1>6, <1>9, PlanFixed DEF Local, Stamped, AtLoad, where, control
<1>13. Flight(w)'
  <2>1. cur[w] = 0 /\ fly[w] = 0 /\ pending[w] = 0 BY <1>3, NoLoad DEF Generating, AtBarrier, AtLoad
  <2> QED BY <2>1, <1>3 DEF Flight, Live, genVars
<1>14. Measured(w)' BY <1>1, <1>3, <1>5, PlanFixed DEF Local, Measured, genVars
<1>15. Numbered(w)' BY <1>1, <1>3, <1>5, PlanFixed DEF Local, Numbered, control, where
<1>16. Local(w)' BY <1>10, <1>11, <1>12, <1>13, <1>14, <1>15 DEF Local
<1> QED BY <1>5, <1>7, <1>8, <1>16, OneWorker

-----------------------------------------------------------------------------
(* The barriers.                                                           *)

\* A wait for the stream's requests: nothing is in flight or unrecorded, and the
\* worker goes on without load.
LEMMA EmptyGotoKeeps ==
  ASSUME IInv, NEW w \in Workers, NEW q \in PCs, Goto(w, q),
         \/ pc[w] = "drain" /\ q = "barrier"
         \/ pc[w] = "outstanding" /\ q = "complete",
         fly[w] = 0, pending[w] = 0, cur' = [cur EXCEPT ![w] = 0],
         UNCHANGED <<where, control, rec, fly, pending, main, stampVars>>
  PROVE  IInv'
<1>1. TypeOK /\ Local(w) BY DEF IInv
<1>2. plan' = plan BY DEF where
<1>3. Len(plan) \in Nat BY <1>1, WorkerTypes
<1>4. TypeOK'
  <2>1. pc' \in [Workers -> PCs] BY <1>1 DEF TypeOK, Goto
  <2>2. cur' \in [Workers -> 0..Len(plan)] BY <1>1, <1>3 DEF TypeOK
  <2> QED BY <1>1, <2>1, <2>2, ZenonT(60) DEF TypeOK, where, control, stampVars
<1>5. \A v \in Workers \ {w} : SameAt(v) BY <1>1 DEF TypeOK, SameAt, Goto, where, control, stampVars
<1>6. pc'[w] = q /\ cur'[w] = 0 BY <1>1 DEF TypeOK, Goto
<1>7. Place(w)'
  BY <1>1, <1>2, <1>6, PlanFixed DEF Local, Place, Generating, AtBarrier, AtLoad, where, control
<1>8. Context(w)' BY <1>1 DEF Local, Context, control
<1>9. Stamped(w)' BY <1>1, <1>2, <1>6, PlanFixed DEF Local, Stamped, AtLoad, where, control, stampVars
<1>10. Flight(w)' BY <1>6 DEF Flight, Live
<1>11. Measured(w)' BY <1>1, <1>2, PlanFixed DEF Local, Measured
<1>12. Numbered(w)' BY <1>1, <1>2, PlanFixed DEF Local, Numbered, control, where
<1>13. Local(w)' BY <1>7, <1>8, <1>9, <1>10, <1>11, <1>12 DEF Local
<1> QED BY <1>2, <1>4, <1>5, <1>13, OneWorker

LEMMA DrainedKeeps == ASSUME IInv, NEW w \in Workers, Drained(w) PROVE IInv'
BY EmptyGotoKeeps DEF Drained, PCs

LEMMA NothingOutstandingKeeps == ASSUME IInv, NEW w \in Workers, NothingOutstanding(w) PROVE IInv'
BY EmptyGotoKeeps DEF NothingOutstanding, PCs

\* The worker registers under the number of barriers before its own.
LEMMA RegisterKeeps == ASSUME IInv, NEW w \in Workers, Register(w) PROVE IInv'
<1>1. TypeOK /\ Local(w) BY DEF IInv
<1>2. /\ pc[w] = "barrier" /\ ~ctxDone[w] /\ pc' = [pc EXCEPT ![w] = "waiting"]
      /\ registered' = [registered EXCEPT ![barrierIdx[w]] = @ \cup {<<w, pos[w]>>}]
      /\ UNCHANGED <<plan, run, pos, control, genVars, stampVars>>
  BY DEF Register, Goto
<1>3. plan' = plan BY <1>2
<1>4. Len(plan) \in Nat /\ barrierIdx[w] \in 0..Len(plan) BY <1>1, WorkerTypes
<1>5. pos[w] \in 1..Len(plan)
  <2>1. /\ run[w] \in 1..Len(plan) /\ RunEnd(run[w]) \in run[w]..Len(plan)
        /\ pos[w] \in run[w]..(RunEnd(run[w]) + 1)
    BY <1>2, RunFacts DEF Generating, AtBarrier
  <2>2. pos[w] <= RunEnd(run[w]) BY <1>1, <1>2 DEF Local, Place, AtBarrier
  <2> QED BY <2>1, <2>2, <1>4
<1>6. \A k \in 0..Len(plan) : registered'[k] =
        IF k = barrierIdx[w] THEN registered[k] \cup {<<w, pos[w]>>} ELSE registered[k]
  BY <1>1, <1>2 DEF TypeOK
<1>7. TypeOK'
  <2>1. pc' \in [Workers -> PCs] BY <1>1, <1>2 DEF TypeOK, PCs
  <2>2. registered' \in [0..Len(plan) -> SUBSET (Workers \X (1..Len(plan)))]
    <3> DEFINE T == Workers \X (1..Len(plan))
               new == registered[barrierIdx[w]] \cup {<<w, pos[w]>>}
    <3>1. <<w, pos[w]>> \in T BY <1>5
    <3>2. registered \in [0..Len(plan) -> SUBSET T] BY <1>1 DEF TypeOK
    <3>3. registered' = [registered EXCEPT ![barrierIdx[w]] = new] BY <1>2
    <3> HIDE DEF T
    <3>4. new \in SUBSET T BY <1>4, <3>1, <3>2
    <3> HIDE DEF new
    <3>5. registered' \in [0..Len(plan) -> SUBSET T] BY <1>4, <3>2, <3>3, <3>4
    <3> QED BY <3>5 DEF T
  <2>3. UNCHANGED <<plan, run, pos, control, genVars, stampVars>> BY <1>2
  <2> QED BY <1>1, <2>1, <2>2, <2>3, ZenonT(60) DEF TypeOK, control, genVars, stampVars
<1>8. \A v \in Workers \ {w} : SameAt(v)
  <2> SUFFICES ASSUME NEW v \in Workers \ {w} PROVE SameAt(v) OBVIOUS
  <2>1. \A k \in 0..Len(plan) : \A p \in 1..Len(plan) :
          <<v, p>> \in registered'[k] => <<v, p>> \in registered[k]
    <3> SUFFICES ASSUME NEW k \in 0..Len(plan), NEW p \in 1..Len(plan), <<v, p>> \in registered'[k]
                 PROVE  <<v, p>> \in registered[k]
      OBVIOUS
    <3>1. <<v, p>> # <<w, pos[w]>> OBVIOUS
    <3> QED BY <1>6, <3>1, Zenon
  <2> QED BY <1>1, <1>2, <2>1 DEF TypeOK, SameAt, control, genVars, stampVars
<1>9. pc'[w] = "waiting" BY <1>1, <1>2 DEF TypeOK
<1>10. Place(w)'
  BY <1>1, <1>2, <1>3, <1>9, PlanFixed DEF Local, Place, Generating, AtBarrier, AtLoad, control
<1>11. Context(w)' BY <1>1, <1>2 DEF Local, Context, control
<1>12. Stamped(w)'
  BY <1>1, <1>2, <1>3, <1>9, PlanFixed DEF Local, Stamped, AtLoad, control, stampVars
<1>13. Flight(w)'
  BY <1>1, <1>2, <1>3, <1>9, PlanFixed DEF Local, Flight, Live, Generating, AtBarrier, AtLoad, genVars
<1>14. Measured(w)' BY <1>1, <1>2, <1>3, PlanFixed DEF Local, Measured, genVars
<1>15. Numbered(w)'
  <2>1. w \notin aborted => ~IsLoad(pos[w]) /\ barrierIdx[w] = Cardinality(Before(pos[w]))
    BY <1>1, <1>2 DEF Local, Place, Numbered, AtBarrier
  <2>2. ASSUME w \notin aborted, NEW k \in 0..Len(plan), NEW p \in 1..Len(plan),
               <<w, p>> \in registered'[k]
        PROVE  ~IsLoad(p) /\ k = Cardinality(Before(p))
    <3>1. CASE <<w, p>> \in registered[k] BY <1>1, <2>2, <3>1 DEF Local, Numbered
    <3>2. CASE <<w, p>> \notin registered[k]
      <4>1. k = barrierIdx[w] /\ <<w, p>> = <<w, pos[w]>> BY <1>6, <2>2, <3>2, Zenon
      <4>2. p = pos[w] BY <4>1
      <4> QED BY <2>1, <2>2, <4>1, <4>2
    <3> QED BY <3>1, <3>2
  <2> QED BY <1>1, <1>2, <1>3, <2>2, PlanFixed DEF Local, Numbered, control
<1>16. Local(w)' BY <1>10, <1>11, <1>12, <1>13, <1>14, <1>15 DEF Local
<1> QED BY <1>3, <1>7, <1>8, <1>16, OneWorker

\* The worker goes on to the next stage of its run.
LEMMA Advance ==
  ASSUME IInv, NEW w \in Workers, pc[w] \in {"barrier", "waiting", "complete"},
         plan' = plan, pc'[w] = "top", pos'[w] = pos[w] + 1, run'[w] = run[w],
         stopped'[w] = stopped[w],
         rec'[w] = rec[w], cur'[w] = cur[w], fly'[w] = fly[w], pending'[w] = pending[w]
  PROVE  /\ pos[w] \in 1..Len(plan) /\ pos[w] + 1 \in 1..(Len(plan) + 1)
         /\ Place(w)' /\ Flight(w)'
<1>1. TypeOK /\ Local(w) /\ pc[w] \in Generating BY DEF IInv, Generating, AtBarrier, AtLoad
<1>2. Len(plan) \in Nat BY <1>1, WorkerTypes
<1>3. /\ run[w] \in 1..Len(plan) /\ RunEnd(run[w]) \in run[w]..Len(plan)
      /\ pos[w] \in run[w]..(RunEnd(run[w]) + 1)
  BY <1>1, RunFacts
<1>4. pos[w] <= RunEnd(run[w]) BY <1>1 DEF Local, Place, AtBarrier, AtLoad
<1>5. pos[w] \in 1..Len(plan) /\ pos[w] + 1 \in 1..(Len(plan) + 1) BY <1>2, <1>3, <1>4
<1>6. Place(w)'
  <2>1. run[w] <= pos[w] + 1 /\ pos[w] + 1 <= RunEnd(run[w]) + 1 BY <1>2, <1>3, <1>4
  <2> QED BY <1>1, <2>1, PlanFixed DEF Local, Place, Generating, AtBarrier, AtLoad
<1>7. Flight(w)'
  <2> SUFFICES ASSUME NEW x \in Live(w)
               PROVE  /\ run[w] <= x /\ x <= pos[w] + 1 /\ x <= RunEnd(run[w])
                      /\ \A d \in x..((pos[w] + 1) - 1) : plan[d].kind # "drain"
                      /\ Mode(run[w]) # "rate"
                      /\ rec[w] = "main" =>
                           \E j \in x..(pos[w] + 1) : j <= RunEnd(run[w]) /\ IsLoad(j) /\ ~IsWarmup(j)
    <3>1. Live(w)' = Live(w) BY DEF Live
    <3> QED BY <3>1, PlanFixed DEF Flight, Generating
  <2>1. Flight(w) BY <1>1 DEF Local
  <2>2. run[w] <= x /\ x <= pos[w] /\ x <= RunEnd(run[w]) BY <2>1 DEF Flight
  <2>3. x \in 0..Len(plan) BY <1>1, WorkerTypes DEF Live
  <2>4. Mode(run[w]) # "rate" BY <2>1 DEF Flight
  <2>5. plan[pos[w]].kind # "drain"
    <3>1. CASE pc[w] = "complete"
      <4>1. IsLoad(pos[w]) BY <1>1, <3>1 DEF Local, Place, AtLoad
      <4> QED BY <4>1 DEF IsLoad
    <3>2. CASE pc[w] # "complete" BY <2>1, <3>2 DEF Flight
    <3> QED BY <3>1, <3>2
  <2>6. \A d \in x..((pos[w] + 1) - 1) : plan[d].kind # "drain"
    <3> SUFFICES ASSUME NEW d \in x..((pos[w] + 1) - 1) PROVE plan[d].kind # "drain" OBVIOUS
    <3>1. d = pos[w] \/ d \in x..(pos[w] - 1) BY <1>5, <2>3
    <3> QED BY <2>1, <2>5, <3>1 DEF Flight
  <2>7. ASSUME rec[w] = "main"
        PROVE  \E j \in x..(pos[w] + 1) : j <= RunEnd(run[w]) /\ IsLoad(j) /\ ~IsWarmup(j)
    <3>1. PICK j \in x..pos[w] : j <= RunEnd(run[w]) /\ IsLoad(j) /\ ~IsWarmup(j)
      BY <2>1, <2>7 DEF Flight
    <3>2. j \in x..(pos[w] + 1) BY <1>5, <2>3
    <3> QED BY <3>1, <3>2
  <2>8. x <= pos[w] + 1 BY <2>2, <2>3, <1>5
  <2> QED BY <2>2, <2>4, <2>6, <2>7, <2>8
<1> QED BY <1>5, <1>6, <1>7

LEMMA PassKeeps == ASSUME IInv, NEW w \in Workers, Pass(w) PROVE IInv'
<1>1. TypeOK /\ Local(w) BY DEF IInv
<1>2. /\ pc[w] = "waiting" /\ pc' = [pc EXCEPT ![w] = "top"]
      /\ barrierIdx' = [barrierIdx EXCEPT ![w] = @ + 1] /\ pos' = [pos EXCEPT ![w] = @ + 1]
      /\ UNCHANGED <<plan, registered, run, ctxDone, genDone, stopped, aborted, genVars, stampVars>>
  BY DEF Pass, Goto
<1>3. pc'[w] = "top" /\ pos'[w] = pos[w] + 1 /\ barrierIdx'[w] = barrierIdx[w] + 1
  BY <1>1, <1>2 DEF TypeOK
<1>4. pos[w] \in 1..Len(plan) /\ pos[w] + 1 \in 1..(Len(plan) + 1) /\ Place(w)' /\ Flight(w)'
  BY <1>2, <1>3, Advance DEF genVars
<1>5. Len(plan) \in Nat /\ barrierIdx[w] \in 0..Len(plan) BY <1>1, WorkerTypes
<1>6. barrierIdx[w] < pos[w] BY <1>1 DEF Local, Numbered
<1>7. TypeOK'
  <2>1. pc' \in [Workers -> PCs] BY <1>1, <1>2 DEF TypeOK, PCs
  <2>2. pos' \in [Workers -> 1..(Len(plan) + 1)] BY <1>1, <1>2, <1>4 DEF TypeOK
  <2>3. barrierIdx[w] + 1 \in 0..Len(plan) BY <1>4, <1>5, <1>6
  <2>4. barrierIdx' \in [Workers -> 0..Len(plan)] BY <1>1, <1>2, <2>3 DEF TypeOK
  <2>5. UNCHANGED <<plan, registered, run, ctxDone, genDone, stopped, aborted, genVars, stampVars>>
    BY <1>2
  <2> QED BY <1>1, <2>1, <2>2, <2>4, <2>5, ZenonT(60) DEF TypeOK, genVars, stampVars
<1>8. \A v \in Workers \ {w} : SameAt(v) BY <1>1, <1>2 DEF TypeOK, SameAt, genVars, stampVars
<1>9. Context(w)' BY <1>1, <1>2 DEF Local, Context
<1>10. Stamped(w)' BY <1>1, <1>2, <1>3, PlanFixed DEF Local, Stamped, AtLoad, stampVars
<1>11. Measured(w)' BY <1>1, <1>2, PlanFixed DEF Local, Measured, genVars
<1>12. Numbered(w)'
  <2>1. barrierIdx[w] + 1 < pos[w] + 1 BY <1>4, <1>5, <1>6
  <2>2. ~IsLoad(pos[w]) BY <1>1, <1>2 DEF Local, Place, AtBarrier
  <2>3. pos[w] \in 1..(Len(plan) + 1) BY <1>4, <1>5
  <2>4. Cardinality(Before(pos[w] + 1)) = Cardinality(Before(pos[w])) + 1
    BY <1>5, <2>2, <2>3, BeforeFacts
  <2> QED BY <1>1, <1>2, <1>3, <2>1, <2>4, PlanFixed DEF Local, Numbered
<1>13. Local(w)' BY <1>4, <1>9, <1>10, <1>11, <1>12 DEF Local
<1> QED BY <1>2, <1>7, <1>8, <1>13, OneWorker

LEMMA BarrierFailsKeeps == ASSUME IInv, NEW w \in Workers, BarrierFails(w) PROVE IInv'
<1>1. TypeOK /\ Local(w) BY DEF IInv
<1>2. /\ pc[w] \in {"barrier", "waiting"} /\ pc' = [pc EXCEPT ![w] = "top"]
      /\ ctxDone' = [ctxDone EXCEPT ![w] = TRUE] /\ genDone' = [genDone EXCEPT ![w] = TRUE]
      /\ pos' = [pos EXCEPT ![w] = @ + 1]
      /\ UNCHANGED <<plan, registered, run, barrierIdx, stopped, aborted, genVars, stampVars>>
  BY DEF BarrierFails, BarrierError, Goto
<1>3. pc'[w] = "top" /\ pos'[w] = pos[w] + 1 /\ ctxDone'[w] = TRUE /\ genDone'[w] = TRUE
  BY <1>1, <1>2 DEF TypeOK
<1>4. pos[w] \in 1..Len(plan) /\ pos[w] + 1 \in 1..(Len(plan) + 1) /\ Place(w)' /\ Flight(w)'
  BY <1>2, <1>3, Advance DEF genVars
<1>5. Len(plan) \in Nat /\ barrierIdx[w] \in 0..Len(plan) BY <1>1, WorkerTypes
<1>6. TypeOK'
  <2>1. pc' \in [Workers -> PCs] BY <1>1, <1>2 DEF TypeOK, PCs
  <2>2. pos' \in [Workers -> 1..(Len(plan) + 1)] BY <1>1, <1>2, <1>4 DEF TypeOK
  <2>3. ctxDone' \in [Workers -> BOOLEAN] /\ genDone' \in [Workers -> BOOLEAN] BY <1>1, <1>2 DEF TypeOK
  <2>4. UNCHANGED <<plan, registered, run, barrierIdx, stopped, aborted, genVars, stampVars>> BY <1>2
  <2> QED BY <1>1, <2>1, <2>2, <2>3, <2>4, ZenonT(60) DEF TypeOK, genVars, stampVars
<1>7. \A v \in Workers \ {w} : SameAt(v) BY <1>1, <1>2 DEF TypeOK, SameAt, genVars, stampVars
<1>8. Context(w)' BY <1>3 DEF Context
<1>9. Stamped(w)' BY <1>1, <1>2, <1>3, PlanFixed DEF Local, Stamped, AtLoad, stampVars
<1>10. Measured(w)' BY <1>1, <1>2, PlanFixed DEF Local, Measured, genVars
<1>11. Numbered(w)'
  <2>1. barrierIdx[w] < pos[w] + 1 BY <1>1, <1>4, <1>5 DEF Local, Numbered
  <2> QED BY <1>1, <1>2, <1>3, <2>1, PlanFixed DEF Local, Numbered
<1>12. Local(w)' BY <1>4, <1>8, <1>9, <1>10, <1>11 DEF Local
<1> QED BY <1>2, <1>6, <1>7, <1>12, OneWorker

-----------------------------------------------------------------------------
(* The stages.                                                             *)

LEMMA SkipCompleteKeeps == ASSUME IInv, NEW w \in Workers, SkipComplete(w) PROVE IInv'
<1>1. TypeOK /\ Local(w) BY DEF IInv
<1>2. /\ pc[w] = "complete" /\ genDone[w] /\ pc' = [pc EXCEPT ![w] = "top"]
      /\ pos' = [pos EXCEPT ![w] = @ + 1]
      /\ UNCHANGED <<plan, registered, run, control, genVars, stampVars>>
  BY DEF SkipComplete, Goto
<1>3. pc'[w] = "top" /\ pos'[w] = pos[w] + 1 BY <1>1, <1>2 DEF TypeOK
<1>4. pos[w] \in 1..Len(plan) /\ pos[w] + 1 \in 1..(Len(plan) + 1) /\ Place(w)' /\ Flight(w)'
  BY <1>2, <1>3, Advance DEF genVars, control
<1>5. Len(plan) \in Nat /\ barrierIdx[w] \in 0..Len(plan) BY <1>1, WorkerTypes
<1>6. TypeOK'
  <2>1. pc' \in [Workers -> PCs] BY <1>1, <1>2 DEF TypeOK, PCs
  <2>2. pos' \in [Workers -> 1..(Len(plan) + 1)] BY <1>1, <1>2, <1>4 DEF TypeOK
  <2> QED BY <1>1, <1>2, <2>1, <2>2, ZenonT(60) DEF TypeOK, control, genVars, stampVars
<1>7. \A v \in Workers \ {w} : SameAt(v) BY <1>1, <1>2 DEF TypeOK, SameAt, control, genVars, stampVars
<1>8. Context(w)' BY <1>1, <1>2 DEF Local, Context, control
<1>9. ctxDone[w] \/ w \in aborted BY <1>1, <1>2 DEF Local, Context
<1>10. Stamped(w)' BY <1>1, <1>2, <1>3, <1>9, PlanFixed DEF Local, Stamped, AtLoad, control, stampVars
<1>11. Measured(w)' BY <1>1, <1>2, PlanFixed DEF Local, Measured, genVars
<1>12. Numbered(w)'
  <2>1. barrierIdx[w] < pos[w] + 1 BY <1>1, <1>4, <1>5 DEF Local, Numbered
  <2> QED BY <1>1, <1>2, <1>3, <1>9, <2>1, PlanFixed DEF Local, Numbered, control
<1>13. Local(w)' BY <1>4, <1>8, <1>10, <1>11, <1>12 DEF Local
<1> QED BY <1>2, <1>6, <1>7, <1>13, OneWorker

LEMMA OnStageKeeps == ASSUME IInv, NEW w \in Workers, OnStage(w) PROVE IInv'
<1>1. TypeOK /\ Local(w) BY DEF IInv
<1>2. /\ pc[w] = "top" /\ ~genDone[w] /\ pos[w] <= RunEnd(run[w]) /\ IsLoad(pos[w])
      /\ pc' = [pc EXCEPT ![w] = "running"] /\ cur' = [cur EXCEPT ![w] = pos[w]]
      /\ rec' = [rec EXCEPT ![w] = IF IsWarmup(pos[w]) THEN "warmup" ELSE "main"]
      /\ UNCHANGED <<where, control, fly, pending, main, stamps>>
  BY DEF OnStage, InRun, Goto
<1>3. plan' = plan BY <1>2 DEF where
<1>4. /\ run[w] \in 1..Len(plan) /\ RunEnd(run[w]) \in run[w]..Len(plan)
      /\ pos[w] \in run[w]..(RunEnd(run[w]) + 1)
  BY <1>2, RunFacts DEF Generating
<1>5. Len(plan) \in Nat BY <1>1, WorkerTypes
<1>6. pos[w] \in 1..Len(plan) BY <1>2, <1>4, <1>5
<1>7. pc'[w] = "running" /\ cur'[w] = pos[w]
      /\ rec'[w] = IF IsWarmup(pos[w]) THEN "warmup" ELSE "main"
  BY <1>1, <1>2 DEF TypeOK
<1>8. /\ IsWarmup(pos[w]) => UNCHANGED <<last, started>>
      /\ ~IsWarmup(pos[w]) => /\ last' = [last EXCEPT ![w] = pos[w]]
                              /\ started' = [started EXCEPT ![w] = Append(@, pos[w])]
  BY DEF OnStage
<1>9. TypeOK'
  <2>1. pc' \in [Workers -> PCs] BY <1>1, <1>2 DEF TypeOK, PCs
  <2>2. cur' \in [Workers -> 0..Len(plan)] BY <1>1, <1>2, <1>6 DEF TypeOK
  <2>3. rec' \in [Workers -> {"main", "warmup"}] BY <1>1, <1>2 DEF TypeOK
  <2>4. last' \in [Workers -> 0..Len(plan)]
    <3>1. last \in [Workers -> 0..Len(plan)] /\ pos[w] \in 0..Len(plan) BY <1>1, <1>6 DEF TypeOK
    <3> QED BY <1>8, <3>1
  <2>5. started' \in [Workers -> Seq(1..Len(plan))]
    <3>1. Append(started[w], pos[w]) \in Seq(1..Len(plan))
      <4>1. started[w] \in Seq(1..Len(plan)) BY <1>1, WorkerTypes
      <4> QED BY <4>1, <1>6
    <3>2. started \in [Workers -> Seq(1..Len(plan))] BY <1>1 DEF TypeOK
    <3> QED BY <1>8, <3>1, <3>2
  <2>6. UNCHANGED <<where, control, fly, pending, main, stamps>> BY <1>2
  <2> QED BY <1>1, <2>1, <2>2, <2>3, <2>4, <2>5, <2>6, ZenonT(60) DEF TypeOK, where, control
<1>10. \A v \in Workers \ {w} : SameAt(v)
  BY <1>1, <1>2, <1>8, ZenonT(60) DEF TypeOK, SameAt, where, control
<1>11. Place(w)'
  BY <1>1, <1>2, <1>3, <1>7, PlanFixed DEF Local, Place, Generating, AtBarrier, AtLoad, where, control
<1>12. Context(w)' BY <1>1, <1>2 DEF Local, Context, control
<1>13. Stamped(w)'
  <2>1. w \notin aborted => last[w] = 0 /\ started[w] = stamps[w]
    BY <1>1, <1>2 DEF Local, Stamped, Context, AtLoad
  <2>2. CASE IsWarmup(pos[w])
    BY <1>2, <1>3, <1>7, <1>8, <2>1, <2>2, PlanFixed DEF Stamped, AtLoad, where, control
  <2>3. CASE ~IsWarmup(pos[w])
    <3>1. last'[w] = pos[w] /\ started'[w] = Append(started[w], pos[w]) /\ pos[w] # 0
      BY <1>1, <1>6, <1>8, <2>3 DEF TypeOK
    <3> QED BY <1>2, <1>3, <1>7, <2>1, <2>3, <3>1, PlanFixed DEF Stamped, AtLoad, where, control
  <2> QED BY <2>2, <2>3
<1>14. Flight(w)'
  <2> SUFFICES ASSUME NEW x \in Live(w) \cup {pos[w]}
               PROVE  /\ run[w] <= x /\ x <= pos[w] /\ x <= RunEnd(run[w])
                      /\ \A d \in x..(pos[w] - 1) : plan[d].kind # "drain"
                      /\ Mode(run[w]) = "rate" => x = pos[w]
                      /\ ~IsWarmup(pos[w]) => pos[w] \in x..pos[w]
    <3>1. Live(w)' \subseteq Live(w) \cup {pos[w]} BY <1>2, <1>7 DEF Live
    <3>2. run'[w] = run[w] /\ pos'[w] = pos[w] BY <1>2 DEF where
    <3>3. rec'[w] = "main" => ~IsWarmup(pos[w]) BY <1>7
    <3> QED BY <1>2, <1>3, <1>7, <3>1, <3>2, <3>3, PlanFixed DEF Flight, Generating, AtLoad
  <2>1. CASE x = pos[w]
    BY <1>2, <1>4, <1>6, <2>1
  <2>2. CASE x \in Live(w)
    <3>1. /\ run[w] <= x /\ x <= pos[w] /\ x <= RunEnd(run[w])
          /\ \A d \in x..(pos[w] - 1) : plan[d].kind # "drain"
          /\ Mode(run[w]) # "rate"
      BY <1>1, <1>2, <2>2 DEF Local, Flight
    <3>2. x \in 0..Len(plan) BY <1>1, <2>2, WorkerTypes DEF Live
    <3> QED BY <3>1, <3>2, <1>6
  <2> QED BY <2>1, <2>2
<1>15. Measured(w)' BY <1>1, <1>2, <1>3, PlanFixed DEF Local, Measured
<1>16. Numbered(w)' BY <1>1, <1>2, <1>3, PlanFixed DEF Local, Numbered, control, where
<1>17. Local(w)' BY <1>11, <1>12, <1>13, <1>14, <1>15, <1>16 DEF Local
<1> QED BY <1>3, <1>9, <1>10, <1>17, OneWorker

LEMMA OnStageCompleteKeeps == ASSUME IInv, NEW w \in Workers, OnStageComplete(w) PROVE IInv'
<1>1. TypeOK /\ Local(w) BY DEF IInv
<1>2. /\ pc[w] = "complete" /\ ~genDone[w]
      /\ UNCHANGED <<plan, registered, run, ctxDone, genDone, barrierIdx, aborted, genVars, started>>
  BY DEF OnStageComplete
<1>3. /\ IsWarmup(pos[w]) => UNCHANGED <<stamps, last>>
      /\ ~IsWarmup(pos[w]) => /\ stamps' = [stamps EXCEPT ![w] = Append(@, last[w])]
                              /\ last' = [last EXCEPT ![w] = 0]
  BY DEF OnStageComplete, Stamp
<1>4. Len(plan) \in Nat /\ barrierIdx[w] \in 0..Len(plan) BY <1>1, WorkerTypes
<1>5. IsLoad(pos[w]) /\ pos[w] <= RunEnd(run[w]) BY <1>1, <1>2 DEF Local, Place, AtLoad
<1>6. pos[w] \in 1..Len(plan)
  <2>1. /\ run[w] \in 1..Len(plan) /\ RunEnd(run[w]) \in run[w]..Len(plan)
        /\ pos[w] \in run[w]..(RunEnd(run[w]) + 1)
    BY <1>2, RunFacts DEF Generating, AtLoad
  <2> QED BY <1>4, <1>5, <2>1
<1>7. last' \in [Workers -> 0..Len(plan)] /\ stamps' \in [Workers -> Seq(1..Len(plan))]
  <2>1. last \in [Workers -> 0..Len(plan)] /\ stamps \in [Workers -> Seq(1..Len(plan))]
    BY <1>1 DEF TypeOK
  <2>2. CASE IsWarmup(pos[w]) BY <1>3, <2>1, <2>2
  <2>3. CASE ~IsWarmup(pos[w])
    <3>1. last[w] = pos[w] BY <1>1, <1>2, <2>3 DEF Local, Stamped, AtLoad
    <3>2. stamps[w] \in Seq(1..Len(plan)) BY <1>1, WorkerTypes
    <3>3. Append(stamps[w], last[w]) \in Seq(1..Len(plan)) BY <1>6, <3>1, <3>2
    <3>4. 0 \in 0..Len(plan) BY <1>4
    <3> QED BY <1>3, <2>1, <2>3, <3>3, <3>4
  <2> QED BY <2>2, <2>3
<1>8. /\ w \notin aborted => last'[w] = 0 /\ stamps'[w] = started[w]
      /\ \A v \in Workers \ {w} : last'[v] = last[v] /\ stamps'[v] = stamps[v]
  <2>1. CASE IsWarmup(pos[w])
    BY <1>1, <1>2, <1>3, <2>1 DEF Local, Stamped, AtLoad
  <2>2. CASE ~IsWarmup(pos[w])
    <3>1. last[w] = pos[w] BY <1>1, <1>2, <2>2 DEF Local, Stamped, AtLoad
    <3>2. last[w] # 0 BY <1>6, <3>1
    <3>3. w \notin aborted => started[w] = Append(stamps[w], last[w])
      BY <1>1, <1>2, <3>2 DEF Local, Stamped
    <3>4. last'[w] = 0 /\ stamps'[w] = Append(stamps[w], last[w]) BY <1>1, <1>3, <2>2 DEF TypeOK
    <3> QED BY <1>1, <1>3, <2>2, <3>3, <3>4 DEF TypeOK
  <2> QED BY <2>1, <2>2
<1>9. Context(w)' BY <1>1, <1>2 DEF Local, Context
<1>10. Measured(w)' BY <1>1, <1>2, PlanFixed DEF Local, Measured, genVars
<1>11. CASE /\ pos' = [pos EXCEPT ![w] = @ + 1] /\ Goto(w, "top") /\ UNCHANGED stopped
  <2>1. pc'[w] = "top" /\ pos'[w] = pos[w] + 1 BY <1>1, <1>11 DEF TypeOK, Goto
  <2>2. pos[w] + 1 \in 1..(Len(plan) + 1) /\ Place(w)' /\ Flight(w)'
    BY <1>2, <1>11, <2>1, Advance DEF genVars
  <2>3. TypeOK'
    <3>1. pc' \in [Workers -> PCs] BY <1>1, <1>11 DEF TypeOK, PCs, Goto
    <3>2. pos' \in [Workers -> 1..(Len(plan) + 1)] BY <1>1, <1>11, <2>2 DEF TypeOK
    <3>3. UNCHANGED <<plan, registered, run, ctxDone, genDone, barrierIdx, aborted, genVars, started, stopped>>
      BY <1>2, <1>11
    <3> QED BY <1>1, <1>7, <3>1, <3>2, <3>3, ZenonT(60) DEF TypeOK, genVars
  <2>4. \A v \in Workers \ {w} : SameAt(v)
    BY <1>1, <1>2, <1>8, <1>11 DEF TypeOK, SameAt, Goto, genVars
  <2>5. Stamped(w)' BY <1>2, <1>8, <2>1 DEF Stamped, AtLoad
  <2>6. Numbered(w)'
    <3>1. barrierIdx[w] < pos[w] + 1 BY <1>1, <1>4, <1>6 DEF Local, Numbered
    <3>2. pos[w] \in 1..(Len(plan) + 1) BY <1>4, <1>6
    <3>3. Before(pos[w] + 1) = Before(pos[w]) BY <1>4, <1>5, <3>2, BeforeFacts
    <3> QED BY <1>1, <1>2, <1>11, <2>1, <3>1, <3>3, PlanFixed DEF Local, Numbered
  <2>7. Local(w)' BY <1>9, <1>10, <2>2, <2>5, <2>6 DEF Local
  <2> QED BY <1>2, <2>3, <2>4, <2>7, OneWorker
<1>12. CASE stopped' = [stopped EXCEPT ![w] = TRUE] /\ Goto(w, "stop") /\ UNCHANGED pos
  <2>1. pc'[w] = "stop" /\ stopped'[w] = TRUE BY <1>1, <1>12 DEF TypeOK, Goto
  <2>2. TypeOK'
    <3>1. pc' \in [Workers -> PCs] BY <1>1, <1>12 DEF TypeOK, PCs, Goto
    <3>2. stopped' \in [Workers -> BOOLEAN] BY <1>1, <1>12 DEF TypeOK
    <3>3. UNCHANGED <<plan, registered, run, pos, ctxDone, genDone, barrierIdx, aborted, genVars, started>>
      BY <1>2, <1>12
    <3> QED BY <1>1, <1>7, <3>1, <3>2, <3>3, ZenonT(60) DEF TypeOK, genVars
  <2>3. \A v \in Workers \ {w} : SameAt(v)
    BY <1>1, <1>2, <1>8, <1>12 DEF TypeOK, SameAt, Goto, genVars
  <2>4. Place(w)'
    BY <1>1, <1>2, <1>12, <2>1, PlanFixed DEF Local, Place, Generating, AtBarrier, AtLoad
  <2>5. Stamped(w)' BY <1>2, <1>8, <2>1 DEF Stamped, AtLoad
  <2>6. Flight(w)'
    BY <1>1, <1>2, <1>12, <2>1, PlanFixed DEF Local, Flight, Live, Generating, AtBarrier, AtLoad, genVars
  <2>7. Numbered(w)' BY <1>1, <1>2, <1>12, <2>1, PlanFixed DEF Local, Numbered
  <2>8. Local(w)' BY <1>9, <1>10, <2>4, <2>5, <2>6, <2>7 DEF Local
  <2> QED BY <1>2, <2>2, <2>3, <2>8, OneWorker
<1> QED BY <1>11, <1>12 DEF OnStageComplete

-----------------------------------------------------------------------------
(* The stream, and the outside.                                            *)

\* What is sent and recorded is of a stage whose load was live, by the recorder
\* that was set.
LEMMA StreamKeeps ==
  ASSUME IInv, NEW w \in Workers, TypeOK', UNCHANGED <<where, pc, stopped, rec, stampVars, ctxDone, barrierIdx>>,
         \A v \in Workers \ {w} : SameAt(v),
         Live(w)' \subseteq Live(w), Context(w)', Measured(w)',
         genDone[w] => genDone'[w], aborted \subseteq aborted'
  PROVE  IInv'
<1>1. TypeOK /\ Local(w) /\ plan' = plan BY DEF IInv, where
<1>2. Place(w)' BY <1>1, PlanFixed DEF Local, Place, where
<1>3. Stamped(w)' BY <1>1, PlanFixed DEF Local, Stamped, where, stampVars
<1>4. Flight(w)'
  <2> SUFFICES ASSUME NEW x \in Live(w)
               PROVE  (/\ pc[w] \in Generating
                       /\ run[w] <= x /\ x <= pos[w] /\ x <= RunEnd(run[w])
                       /\ \A d \in x..(pos[w] - 1) : plan[d].kind # "drain"
                       /\ pc[w] \in {"barrier", "waiting"} => plan[pos[w]].kind # "drain"
                       /\ Mode(run[w]) = "rate" => x = pos[w] /\ pc[w] \in {"running", "outstanding"}
                       /\ rec[w] = "main" =>
                            \E j \in x..pos[w] : j <= RunEnd(run[w]) /\ IsLoad(j) /\ ~IsWarmup(j))'
    BY DEF Flight
  <2> QED BY <1>1, PlanFixed DEF Local, Flight, where
<1>5. Numbered(w)' BY <1>1, PlanFixed DEF Local, Numbered, where
<1>6. Local(w)' BY <1>2, <1>3, <1>4, <1>5 DEF Local
<1> QED BY <1>1, <1>6, OneWorker

LEMMA SendKeeps == ASSUME IInv, NEW w \in Workers, Send(w) PROVE IInv'
<1>1. TypeOK /\ Local(w) BY DEF IInv
<1>2. /\ cur[w] # 0 /\ fly' = [fly EXCEPT ![w] = cur[w]]
      /\ UNCHANGED <<where, pc, control, rec, cur, pending, main, stampVars>>
  BY DEF Send
<1>3. cur[w] \in 0..Len(plan) BY <1>1, WorkerTypes
<1>4. TypeOK'
  <2>1. fly' \in [Workers -> 0..Len(plan)] BY <1>1, <1>2, <1>3 DEF TypeOK
  <2>2. UNCHANGED <<where, pc, control, rec, cur, pending, main, stampVars>> BY <1>2
  <2> QED BY <1>1, <2>1, <2>2, ZenonT(60) DEF TypeOK, where, control, stampVars
<1>5. \A v \in Workers \ {w} : SameAt(v) BY <1>1, <1>2 DEF TypeOK, SameAt, where, control, stampVars
<1>6. Live(w)' \subseteq Live(w) BY <1>1, <1>2 DEF Live, TypeOK
<1>7. Context(w)' BY <1>1, <1>2 DEF Local, Context, control
<1>8. Measured(w)' BY <1>1, <1>2, PlanFixed DEF Local, Measured, where
<1> QED BY <1>2, <1>4, <1>5, <1>6, <1>7, <1>8, StreamKeeps DEF control

LEMMA AnswerKeeps == ASSUME IInv, NEW w \in Workers, Answer(w) PROVE IInv'
<1>1. TypeOK /\ Local(w) BY DEF IInv
<1>2. /\ fly[w] # 0 /\ pending[w] = 0
      /\ pending' = [pending EXCEPT ![w] = fly[w]] /\ fly' = [fly EXCEPT ![w] = 0]
      /\ UNCHANGED <<where, pc, ctxDone, barrierIdx, stopped, rec, cur, main, stampVars>>
  BY DEF Answer
<1>3. \/ UNCHANGED <<genDone, aborted>>
      \/ genDone' = [genDone EXCEPT ![w] = TRUE] /\ aborted' = aborted \cup {w}
  BY DEF Answer
<1>4. fly[w] \in 0..Len(plan) /\ Len(plan) \in Nat BY <1>1, WorkerTypes
<1>5. TypeOK'
  <2>1. fly' \in [Workers -> 0..Len(plan)]
    <3>1. 0 \in 0..Len(plan) BY <1>4
    <3> QED BY <1>1, <1>2, <3>1 DEF TypeOK
  <2>2. pending' \in [Workers -> 0..Len(plan)] BY <1>1, <1>2, <1>4 DEF TypeOK
  <2>3. genDone' \in [Workers -> BOOLEAN] /\ aborted' \subseteq Workers BY <1>1, <1>3 DEF TypeOK
  <2>4. UNCHANGED <<where, pc, ctxDone, barrierIdx, stopped, rec, cur, main, stampVars>> BY <1>2
  <2> QED BY <1>1, <2>1, <2>2, <2>3, <2>4, ZenonT(60) DEF TypeOK, where, stampVars
<1>6. \A v \in Workers \ {w} : SameAt(v)
  BY <1>1, <1>2, <1>3 DEF TypeOK, SameAt, where, stampVars
<1>7. Live(w)' \subseteq Live(w) BY <1>1, <1>2 DEF Live, TypeOK
<1>8. /\ genDone[w] => genDone'[w]
      /\ aborted \subseteq aborted'
      /\ Context(w)'
  BY <1>1, <1>2, <1>3 DEF Local, Context, TypeOK
<1>9. Measured(w)' BY <1>1, <1>2, PlanFixed DEF Local, Measured, where
<1> QED BY <1>2, <1>5, <1>6, <1>7, <1>8, <1>9, StreamKeeps

LEMMA CutKeeps == ASSUME IInv, NEW w \in Workers, Cut(w) PROVE IInv'
<1>1. TypeOK /\ Local(w) BY DEF IInv
<1>2. /\ fly' = [fly EXCEPT ![w] = 0]
      /\ UNCHANGED <<where, pc, control, rec, cur, pending, main, stampVars>>
  BY DEF Cut
<1>3. 0 \in 0..Len(plan) BY <1>1, WorkerTypes
<1>4. TypeOK'
  <2>1. fly' \in [Workers -> 0..Len(plan)] BY <1>1, <1>2, <1>3 DEF TypeOK
  <2>2. UNCHANGED <<where, pc, control, rec, cur, pending, main, stampVars>> BY <1>2
  <2> QED BY <1>1, <2>1, <2>2, ZenonT(60) DEF TypeOK, where, control, stampVars
<1>5. \A v \in Workers \ {w} : SameAt(v) BY <1>1, <1>2 DEF TypeOK, SameAt, where, control, stampVars
<1>6. Live(w)' \subseteq Live(w) BY <1>1, <1>2 DEF Live, TypeOK
<1>7. Context(w)' BY <1>1, <1>2 DEF Local, Context, control
<1>8. Measured(w)' BY <1>1, <1>2, PlanFixed DEF Local, Measured, where
<1> QED BY <1>2, <1>4, <1>5, <1>6, <1>7, <1>8, StreamKeeps DEF control

\* While a result of an isolated warmup can be recorded the recorder is the
\* warmup's.
LEMMA IsolatedWarmup ==
  ASSUME IInv, NEW w \in Workers, NEW x \in Live(w), rec[w] = "main", IsWarmup(x)
  PROVE  ~Isolated(x)
<1>1. TypeOK /\ Flight(w) /\ Place(w) BY DEF IInv, Local
<1>2. /\ pc[w] \in Generating
      /\ run[w] <= x /\ x <= pos[w] /\ x <= RunEnd(run[w])
      /\ \A d \in x..(pos[w] - 1) : plan[d].kind # "drain"
      /\ Mode(run[w]) = "rate" => x = pos[w]
  BY <1>1 DEF Flight
<1>3. PICK j \in x..pos[w] : j <= RunEnd(run[w]) /\ IsLoad(j) /\ ~IsWarmup(j)
  BY <1>1 DEF Flight
<1>4. /\ run[w] \in 1..Len(plan) /\ RunEnd(run[w]) \in run[w]..Len(plan)
      /\ pos[w] \in run[w]..(RunEnd(run[w]) + 1) /\ Len(plan) \in Nat
  BY <1>1, <1>2, RunFacts, WorkerTypes
<1>5. x \in 0..Len(plan) BY <1>1, WorkerTypes DEF Live
<1>6. x \in run[w]..RunEnd(run[w]) BY <1>2, <1>4, <1>5
<1>7. RunStart(run[w]) BY <1>1, <1>2 DEF Place
<1>8. RunOf(x) = run[w] /\ RunEnd(x) = RunEnd(run[w]) BY <1>4, <1>6, <1>7, RunUnique
<1>9. Mode(run[w]) # "rate"
  <2>1. CASE Mode(run[w]) = "rate"
    <3>1. x = pos[w] BY <1>2, <2>1
    <3>2. j = x BY <1>4, <3>1
    <3> QED BY <1>3, <3>2
  <2> QED BY <2>1
<1>10. j \in x..RunEnd(x) BY <1>3, <1>4, <1>5, <1>8
<1>11. ~\E d \in x..j : plan[d].kind = "drain"
  <2> SUFFICES ASSUME NEW d \in x..j, plan[d].kind = "drain" PROVE FALSE OBVIOUS
  <2>1. d # j BY <1>3 DEF IsLoad
  <2>2. d \in x..(pos[w] - 1) BY <1>4, <1>5, <2>1
  <2> QED BY <1>2, <2>2
<1> QED BY <1>3, <1>8, <1>9, <1>10, <1>11 DEF Isolated

LEMMA RecordResultKeeps == ASSUME IInv, NEW w \in Workers, RecordResult(w) PROVE IInv'
<1>1. TypeOK /\ Local(w) BY DEF IInv
<1> DEFINE m == IF rec[w] = "main" THEN main[w] \cup {pending[w]} ELSE main[w]
<1>2. /\ pending[w] # 0 /\ main' = [main EXCEPT ![w] = m]
      /\ pending' = [pending EXCEPT ![w] = 0]
      /\ UNCHANGED <<where, pc, control, rec, cur, fly, stampVars>>
  BY DEF RecordResult
<1>3. pending[w] \in 1..Len(plan) /\ 0 \in 0..Len(plan) /\ main[w] \subseteq 1..Len(plan)
  BY <1>1, <1>2, WorkerTypes
<1>4. m \in SUBSET (1..Len(plan)) BY <1>3
<1>5. \A k \in m : IsWarmup(k) => ~Isolated(k)
  <2>1. pending[w] \in Live(w) BY <1>2 DEF Live
  <2>2. rec[w] = "main" /\ IsWarmup(pending[w]) => ~Isolated(pending[w]) BY <2>1, IsolatedWarmup
  <2>3. \A k \in main[w] : IsWarmup(k) => ~Isolated(k) BY <1>1 DEF Local, Measured
  <2> QED BY <2>2, <2>3
<1> HIDE DEF m
<1>6. TypeOK'
  <2>1. main' \in [Workers -> SUBSET (1..Len(plan))] BY <1>1, <1>2, <1>4 DEF TypeOK
  <2>2. pending' \in [Workers -> 0..Len(plan)] BY <1>1, <1>2, <1>3 DEF TypeOK
  <2>3. UNCHANGED <<where, pc, control, rec, cur, fly, stampVars>> BY <1>2
  <2> QED BY <1>1, <2>1, <2>2, <2>3, ZenonT(60) DEF TypeOK, where, control, stampVars
<1>7. \A v \in Workers \ {w} : SameAt(v) BY <1>1, <1>2 DEF TypeOK, SameAt, where, control, stampVars
<1>8. Live(w)' \subseteq Live(w) BY <1>1, <1>2 DEF Live, TypeOK
<1>9. Context(w)' BY <1>1, <1>2 DEF Local, Context, control
<1>10. Measured(w)'
  <2>1. main'[w] = m /\ plan' = plan BY <1>1, <1>2 DEF TypeOK, where
  <2> QED BY <1>5, <2>1, PlanFixed DEF Measured
<1> QED BY <1>2, <1>6, <1>7, <1>8, <1>9, <1>10, StreamKeeps DEF control

LEMMA InterruptKeeps == ASSUME IInv, NEW w \in Workers, Interrupt(w) PROVE IInv'
<1>1. TypeOK /\ Local(w) BY DEF IInv
<1>2. /\ ctxDone' = [ctxDone EXCEPT ![w] = TRUE] /\ genDone' = [genDone EXCEPT ![w] = TRUE]
      /\ UNCHANGED <<where, pc, barrierIdx, stopped, aborted, genVars, stampVars>>
  BY DEF Interrupt
<1>3. plan' = plan /\ ctxDone'[w] = TRUE /\ genDone'[w] = TRUE BY <1>1, <1>2 DEF TypeOK, where
<1>4. TypeOK'
  <2>1. ctxDone' \in [Workers -> BOOLEAN] /\ genDone' \in [Workers -> BOOLEAN] BY <1>1, <1>2 DEF TypeOK
  <2>2. UNCHANGED <<where, pc, barrierIdx, stopped, aborted, genVars, stampVars>> BY <1>2
  <2> QED BY <1>1, <2>1, <2>2, ZenonT(60) DEF TypeOK, where, genVars, stampVars
<1>5. \A v \in Workers \ {w} : SameAt(v) BY <1>1, <1>2 DEF TypeOK, SameAt, where, genVars, stampVars
<1> USE <1>1, <1>2, <1>3, PlanFixed DEF Local, where
<1>6. Place(w)' BY DEF Place
<1>7. Context(w)' BY DEF Context
<1>8. Stamped(w)' BY DEF Stamped, stampVars
<1>9. Flight(w)' BY DEF Flight, Live, genVars
<1>10. Measured(w)' BY DEF Measured, genVars
<1>11. Numbered(w)' BY DEF Numbered
<1>12. Local(w)' BY <1>6, <1>7, <1>8, <1>9, <1>10, <1>11
<1> QED BY <1>4, <1>5, <1>12, OneWorker

-----------------------------------------------------------------------------
(* The theorems.                                                           *)

LEMMA InitEstablishes == ASSUME Init PROVE IInv
<1>1. plan \in Seq(Stage) /\ Len(plan) \in Nat BY PlanType DEF Init
<1>2. TypeOK
  <2>1. 1 \in 1..(Len(plan) + 1) /\ 0 \in 0..Len(plan) /\ << >> \in Seq(1..Len(plan)) BY <1>1
  <2>2. /\ run \in [Workers -> 1..(Len(plan) + 1)] /\ pos \in [Workers -> 1..(Len(plan) + 1)]
        /\ barrierIdx \in [Workers -> 0..Len(plan)]
        /\ {cur, fly, pending, last} \subseteq [Workers -> 0..Len(plan)]
        /\ {stamps, started} \subseteq [Workers -> Seq(1..Len(plan))]
    BY <2>1 DEF Init
  <2> QED BY <2>2 DEF Init, TypeOK, PCs
<1>3. ASSUME NEW w \in Workers PROVE Local(w)
  <2>1. /\ pc[w] = "boot" /\ pos[w] = 1 /\ stopped[w] = FALSE /\ genDone[w] = FALSE
        /\ ctxDone[w] = FALSE /\ last[w] = 0 /\ stamps[w] = << >> /\ started[w] = << >>
        /\ cur[w] = 0 /\ fly[w] = 0 /\ pending[w] = 0 /\ main[w] = {} /\ barrierIdx[w] = 0
    BY DEF Init
  <2>2. Place(w) BY <2>1 DEF Place, RunStart, Generating, AtBarrier, AtLoad
  <2>3. Context(w) BY <2>1 DEF Context
  <2>4. Stamped(w) BY <2>1 DEF Stamped, AtLoad
  <2>5. Flight(w) BY <2>1 DEF Flight, Live
  <2>6. Measured(w) BY <2>1 DEF Measured
  <2>7. Numbered(w)
    <3>1. Before(1) = {} BY DEF Before
    <3>2. Cardinality({}) = 0 BY FS_EmptySet
    <3>3. \A k \in 0..Len(plan) : registered[k] = {} BY DEF Init
    <3>4. barrierIdx[w] < pos[w] /\ barrierIdx[w] = Cardinality(Before(pos[w]))
      <4>1. Before(pos[w]) = {} BY <2>1, <3>1
      <4>2. barrierIdx[w] = Cardinality(Before(pos[w])) BY <2>1, <3>2, <4>1, Zenon
      <4>3. barrierIdx[w] < pos[w] BY <2>1
      <4> QED BY <4>2, <4>3
    <3> QED BY <3>3, <3>4 DEF Numbered
  <2> QED BY <2>2, <2>3, <2>4, <2>5, <2>6, <2>7 DEF Local
<1> QED BY <1>2, <1>3 DEF IInv

LEMMA StutterKeeps == ASSUME IInv, UNCHANGED vars PROVE IInv'
<1>1. plan' = plan /\ \A v \in Workers : SameAt(v)
  BY DEF vars, where, control, genVars, stampVars, SameAt
<1>2. \A v \in Workers : Local(v)' BY <1>1, Frame DEF IInv
<1>3. TypeOK' BY DEF IInv, TypeOK, vars, where, control, genVars, stampVars
<1> QED BY <1>2, <1>3 DEF IInv

LEMMA StepKeeps == ASSUME IInv, [Next]_vars PROVE IInv'
<1>1. ASSUME NEW w \in Workers, Driver(w) PROVE IInv'
  BY <1>1, BootKeeps, NextRunKeeps, StartRunKeeps, RunFailsKeeps, NoMoreRunsKeeps, ReturnKeeps, FinishKeeps,
     LeaveLoopKeeps, EnterBarrierKeeps, DrainedKeeps, RegisterKeeps, PassKeeps, BarrierFailsKeeps,
     OnStageKeeps, StageEndsKeeps, NothingOutstandingKeeps, SkipCompleteKeeps, OnStageCompleteKeeps,
     Zenon
  DEF Driver
<1>2. ASSUME NEW w \in Workers, Send(w) \/ Answer(w) \/ Cut(w) \/ RecordResult(w) \/ Interrupt(w)
      PROVE  IInv'
  BY <1>2, SendKeeps, AnswerKeeps, CutKeeps, RecordResultKeeps, InterruptKeeps, Zenon
<1>3. ASSUME Ended PROVE IInv' BY <1>3, StutterKeeps DEF Ended
<1> QED BY <1>1, <1>2, <1>3, StutterKeeps DEF Next

LEMMA Invariance == Spec => []IInv
<1>1. Init => IInv BY InitEstablishes
<1>2. IInv /\ [Next]_vars => IInv' BY StepKeeps
<1> QED BY <1>1, <1>2, PTL DEF Spec

\* Type correctness of the distributed run, for any workers and stage lists: no
\* worker counts more barriers than the scenario has, and none leaves the list.
THEOREM TypeCorrect == Spec => []TypeOK
<1>1. IInv => TypeOK BY DEF IInv
<1> QED BY <1>1, Invariance, PTL

\* As long as no generator has given up, the workers that register under one number
\* are at one and the same barrier, whatever fails, times out, is interrupted or
\* stops early: the number of barriers passed identifies the barrier (onBarrier).
THEOREM WorkersMeet == Spec => []AlignedUnlessAborted
<1>1. ASSUME IInv PROVE AlignedUnlessAborted
  <2> SUFFICES ASSUME aborted = {}, NEW k \in DOMAIN registered,
                      NEW r \in registered[k], NEW q \in registered[k]
               PROVE  r[2] = q[2]
    BY DEF AlignedUnlessAborted, MeetTogether
  <2>1. TypeOK /\ Len(plan) \in Nat BY <1>1, PlanType DEF IInv, TypeOK
  <2>2. k \in 0..Len(plan) /\ registered[k] \subseteq Workers \X (1..Len(plan)) BY <2>1 DEF TypeOK
  <2>3. PICK v \in Workers, p \in 1..Len(plan) : r = <<v, p>> BY <2>2
  <2>4. PICK u \in Workers, c \in 1..Len(plan) : q = <<u, c>> BY <2>2
  <2>5. ~IsLoad(p) /\ k = Cardinality(Before(p)) BY <1>1, <2>2, <2>3 DEF IInv, Local, Numbered
  <2>6. ~IsLoad(c) /\ k = Cardinality(Before(c)) BY <1>1, <2>2, <2>4 DEF IInv, Local, Numbered
  <2>7. p = c BY <2>1, <2>5, <2>6, BeforeNumbers
  <2> QED BY <2>3, <2>4, <2>7
<1> QED BY <1>1, Invariance, PTL

\* A worker that ends normally has stamped every measured stage it started, once and
\* in order, the interrupted one included (onStage, onStageComplete, the end of
\* runScenario).
THEOREM EveryStageStamped == Spec => []StampsComplete
<1>1. IInv => StampsComplete BY DEF IInv, Local, Stamped, StampsComplete
<1> QED BY <1>1, Invariance, PTL

\* No request of a warmup that an open-loop generator or a draining barrier keeps
\* apart reaches the main recorder, although the recorder is looked up only when a
\* result is written (onStage, generator.go).
THEOREM WarmupStaysOut == Spec => []WarmupNotMeasured
<1>1. IInv => WarmupNotMeasured BY DEF IInv, Local, Measured, WarmupNotMeasured
<1> QED BY <1>1, Invariance, PTL
=============================================================================
