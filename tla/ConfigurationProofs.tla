------------------------ MODULE ConfigurationProofs ------------------------
(***************************************************************************)
(* Proofs about Configuration for any scenarios and any bounds: a scenario *)
(* that the API admits can be run, a worker sends what the plan says when  *)
(* the stages that share a generator agree, and a sweep stops at congested *)
(* stages only. Before them, the facts about the division of load among    *)
(* workers (LoadDivision), for every total and every number of workers.    *)
(***************************************************************************)
EXTENDS Configuration, FiniteSetTheorems, WellFoundedInduction, TLAPS

Scenarios == [stages : Seq(ScenarioStage), workload : Workloads, target : Texts]
Phases == {"submitted", "parsed", "planned", "rejected", "failed", "running", "complete",
           "stopped", "done"}
Started == {"running", "complete", "stopped", "done"}

\* A barrier has nothing but its kind; and if a stage has no streams, then all the
\* stages have the same mode (a Starlark stage has a stream at least, a document one
\* mode).
Shape(stages) ==
  /\ \A k \in DOMAIN stages : stages[k].barrier => stages[k] = BarrierStage
  /\ \/ \A k \in Loads(stages) : stages[k].concurrency >= 1
     \/ \A j, k \in Loads(stages) : stages[j].mode = stages[k].mode

\* The sizes of all pools are filled in, and large enough.
Filled(stages) ==
  \A k \in Loads(stages) :
    /\ stages[k].mode \in Modes
    /\ stages[k].mode = "conversation_pool" =>
         /\ stages[k].pool >= stages[k].concurrency
         /\ stages[k].pool = 0 => stages[k].concurrency = 0

\* What is left of the service's bounds when the Job runs the scenario.
Bounded(sc) ==
  /\ sc.workload.kind # "unsupported"
  /\ \A k \in DOMAIN sc.stages : sc.stages[k].workload.kind # "unsupported"
  /\ \A k \in Loads(sc.stages) :
       /\ sc.stages[k].concurrency >= 0
       /\ sc.stages[k].mode \in RateModes => sc.stages[k].rate > 0
       /\ sc.stages[k].mode \notin RateModes => sc.stages[k].concurrency > 0

\* The stages the worker has been through.
Past == IF phase = "complete" THEN pos ELSE pos - 1

\* All that a generator of the scenario can be told to send.
Sendable == {Execute(first, k) : first \in DOMAIN scenario.stages, k \in DOMAIN scenario.stages}

\* The worker's load in stage k according to a plan.
PlannedFor(k) == [Planned(scenario, scenario.stages[k], workers) EXCEPT !.load = @[worker]]

TypeInv ==
  /\ source \in Sources /\ via \in {"api", "cli"} /\ phase \in Phases
  /\ scenario \in Scenarios /\ Shape(scenario.stages)
  /\ pos \in Nat /\ run \in Nat /\ executed \in Seq(Sendable)
  /\ phase = "parsed" => via = "api"
  /\ phase = "planned" => via = "api"
  /\ phase \in {"submitted", "parsed", "planned", "rejected"} => executed = <<>> /\ run = 0
  /\ phase \in Started => worker \in WorkerIds(workers)

\* What the API has looked at.
AdmitInv ==
  via = "api" =>
    /\ phase \in {"parsed", "planned"} \cup Started => Filled(scenario.stages)
    /\ phase \in {"planned", "failed"} \cup Started => Bounded(scenario)
    /\ phase \in {"planned"} \cup Started => workers \in Nat \ {0}
    /\ phase = "failed" =>
         \/ HasCongestionSweep(scenario.stages)
         \/ "fewshot" \in {scenario.workload.kind}
                         \cup {scenario.stages[k].workload.kind : k \in DOMAIN scenario.stages}
    /\ worker = 0 => \A m \in DOMAIN executed : executed[m].load[1] > 0

\* Where the worker is, which run it is in, and what it has sent so far.
RunInv ==
  phase \in Started =>
    /\ pos \in 1..(Len(scenario.stages) + 1)
    /\ phase = "complete" =>
         pos <= Len(scenario.stages) /\ ~scenario.stages[pos].barrier /\ ~scenario.stages[pos].warmup
    /\ run \in 0..Past
    /\ run # 0 => \A j \in run..Past : CanExtend(run, j)
    /\ Len(executed) = Cardinality({k \in Loads(scenario.stages) : k <= Past})
    /\ Uniform => \A m \in 1..Len(executed) : executed[m] = PlannedFor(Nth(Loads(scenario.stages), m))

IInv == TypeInv /\ AdmitInv /\ RunInv /\ StopsOnlyWhenCongested

-----------------------------------------------------------------------------
(* The division of load.                                                   *)

\* What \div and % mean, in the one form the lemmas below use.
LEMMA Division ==
  ASSUME NEW a \in Nat, NEW n \in Nat \ {0}
  PROVE  /\ a \div n \in Nat /\ (a % n) \in 0..(n - 1)
         /\ a = n * (a \div n) + (a % n)
BY SMTT(30)

\* A larger quotient means a larger total, by a whole n.
LEMMA QuotientStep ==
  ASSUME NEW n \in Nat \ {0}, NEW p \in Nat, NEW q \in Nat, p < q
  PROVE  n * q >= n * p + n
<1>1. PICK d \in Nat : q = p + 1 + d
  <2>1. q - p - 1 \in Nat /\ q = p + 1 + (q - p - 1) OBVIOUS
  <2> QED BY <2>1
<1>2. n * (p + 1 + d) = n * p + n + n * d BY SMTT(30)
<1>3. n * d >= 0 BY SMTT(30)
<1>4. n * p \in Nat /\ n * d \in Nat BY SMTT(30)
<1> QED BY <1>1, <1>2, <1>3, <1>4

\* A share is a natural number (DivideConcurrency returns a usable value for
\* every worker id).
LEMMA ShareType ==
  ASSUME NEW total \in Nat, NEW n \in Nat \ {0}, NEW id \in WorkerIds(n)
  PROVE  DivideConcurrency(total, n, id) \in Nat
BY Division DEF DivideConcurrency, WorkerIds

\* The workers that get one more than the others are the first total % n.
LEMMA Extra ==
  ASSUME NEW total \in Nat, NEW n \in Nat, n > 1
  PROVE  {id \in WorkerIds(n) : DivideConcurrency(total, n, id) = total \div n + 1}
           = 0..((total % n) - 1)
<1>1. total \div n \in Nat /\ (total % n) \in 0..(n - 1) BY Division
<1>2. ASSUME NEW id \in WorkerIds(n)
      PROVE  DivideConcurrency(total, n, id) = total \div n + 1 <=> id < total % n
  BY <1>1, <1>2 DEF DivideConcurrency, WorkerIds
<1>3. ASSUME NEW id
      PROVE  id \in 0..((total % n) - 1) <=> id \in WorkerIds(n) /\ id < total % n
  BY <1>1 DEF WorkerIds
<1> QED BY <1>2, <1>3

\* No load is lost or invented (scenario.go:165-176): every worker gets the
\* quotient or one more, and the ones that get one more are as many as the
\* remainder, so the shares add up to the total.
THEOREM SharesAddUp ==
  ASSUME NEW total \in Nat, NEW n \in Nat, n > 1
  PROVE  LET base == total \div n
             extra == {id \in WorkerIds(n) : DivideConcurrency(total, n, id) = base + 1}
         IN /\ \A id \in WorkerIds(n) \ extra : DivideConcurrency(total, n, id) = base
            /\ total = n * base + Cardinality(extra)
<1> DEFINE base == total \div n
           extra == {id \in WorkerIds(n) : DivideConcurrency(total, n, id) = base + 1}
<1> n \in Nat \ {0} OBVIOUS
<1>1. base \in Nat /\ (total % n) \in 0..(n - 1) /\ total = n * base + (total % n)
  BY Division
<1>2. \A id \in WorkerIds(n) \ extra : DivideConcurrency(total, n, id) = base
  BY DEF DivideConcurrency
<1>3. extra = 0..((total % n) - 1) BY Extra
<1>4. Cardinality(extra) = (total % n)
  <2>1. \A r \in Nat : Cardinality(0..(r - 1)) = r
    <3>1. TAKE r \in Nat
    <3>2. Cardinality(0..(r - 1)) = IF 0 > r - 1 THEN 0 ELSE (r - 1) - 0 + 1
      BY FS_Interval, r - 1 \in Int, 0 \in Int
    <3> QED BY <3>2
  <2>2. (total % n) \in Nat BY <1>1
  <2> QED BY <1>3, <2>1, <2>2, Zenon
<1>5. total = n * base + Cardinality(extra) BY <1>1, <1>4
<1> QED BY <1>2, <1>5, Zenon

\* No two workers' shares differ by more than one, and a lower id never gets
\* less ("Remainder is distributed to lower-indexed workers", scenario.go:166).
THEOREM SharesBalanced ==
  ASSUME NEW total \in Nat, NEW n \in Nat \ {0},
         NEW v \in WorkerIds(n), NEW w \in WorkerIds(n), v <= w
  PROVE  /\ DivideConcurrency(total, n, w) <= DivideConcurrency(total, n, v)
         /\ DivideConcurrency(total, n, v) <= DivideConcurrency(total, n, w) + 1
BY Division DEF DivideConcurrency, WorkerIds

\* Division is monotone, so a pool at least as large as its concurrency is still
\* so in every worker: Validate checks the totals only (scenario.go:154-160), and
\* the conversation pool relies on it worker by worker.
THEOREM DivisionMonotone ==
  ASSUME NEW conc \in Nat, NEW pool \in Nat, conc <= pool,
         NEW n \in Nat \ {0}, NEW id \in WorkerIds(n)
  PROVE  DivideConcurrency(conc, n, id) <= DivideConcurrency(pool, n, id)
<1> DEFINE p == conc \div n
           q == pool \div n
<1>1. /\ p \in Nat /\ (conc % n) \in 0..(n - 1) /\ conc = n * p + (conc % n)
      /\ q \in Nat /\ (pool % n) \in 0..(n - 1) /\ pool = n * q + (pool % n)
  BY Division
<1>2. p <= q
  <2>1. SUFFICES ASSUME q < p PROVE FALSE BY <1>1
  <2>2. n * p >= n * q + n BY <1>1, <2>1, QuotientStep
  <2>3. n * p \in Nat /\ n * q \in Nat BY <1>1, SMTT(30)
  <2> HIDE DEF p, q
  <2> QED BY <1>1, <2>2, <2>3, SMTT(30)
<1>3. CASE p = q
  <2>1. (conc % n) <= (pool % n)
    <3>1. n * p = n * q BY <1>3
    <3>2. n * q \in Nat BY <1>1, SMTT(30)
    <3> HIDE DEF p, q
    <3> QED BY <1>1, <3>1, <3>2
  <2> QED BY <1>1, <1>3, <2>1 DEF DivideConcurrency, WorkerIds
<1>4. CASE p < q
  BY <1>1, <1>4 DEF DivideConcurrency, WorkerIds
<1> QED BY <1>1, <1>2, <1>3, <1>4

\* "auto" starts as few workers as keep every share within perWorker (1024)
\* streams (scenario.go:197-207): w of them are enough, w - 1 are not.
THEOREM AutoWorkersFit ==
  ASSUME NEW max \in Nat \ {0}, NEW perWorker \in Nat \ {0}
  PROVE  LET w == ResolveWorkers(max, perWorker)
         IN /\ w \in Nat \ {0}
            /\ max <= perWorker * w
            /\ perWorker * (w - 1) < max
<1> DEFINE a == max + perWorker - 1
           w == a \div perWorker
<1>1. a \in Nat OBVIOUS
<1>2. w \in Nat /\ (a % perWorker) \in 0..(perWorker - 1) /\ a = perWorker * w + (a % perWorker)
  BY <1>1, Division
<1>3. ResolveWorkers(max, perWorker) = w BY DEF ResolveWorkers
<1>4. perWorker * w \in Nat BY <1>2, SMTT(30)
<1>5. perWorker * (w - 1) = perWorker * w - perWorker BY <1>2, SMTT(30)
<1>6. w # 0
  <2>1. SUFFICES ASSUME w = 0 PROVE FALSE OBVIOUS
  <2>2. perWorker * w = 0 BY <2>1
  <2> HIDE DEF w
  <2> QED BY <1>2, <2>2
<1>7. max <= perWorker * w /\ perWorker * w - perWorker < max
  <2> HIDE DEF w
  <2> QED BY <1>2, <1>4
<1> QED BY <1>2, <1>3, <1>5, <1>6, <1>7

-----------------------------------------------------------------------------
(* Positions.                                                              *)

LEMMA NatMin ==
  ASSUME NEW S, S \subseteq Nat, S # {}
  PROVE  \E x \in S : \A y \in S : x <= y
<1> DEFINE R == OpToRel(<, Nat)
<1>1. \E x \in S : \A y \in S : ~(<<y, x>> \in R) BY NatLessThanWellFounded, WFMin, Zenon
<1>2. PICK x \in S : \A y \in S : ~(<<y, x>> \in R) BY <1>1, Zenon
<1>3. \A y \in S : x <= y
  <2> SUFFICES ASSUME NEW y \in S, ~(x <= y) PROVE FALSE OBVIOUS
  <2>1. x \in Nat /\ y \in Nat /\ y < x OBVIOUS
  <2>2. <<y, x>> \in R BY <2>1, Zenon DEF OpToRel
  <2> QED BY <2>2, <1>2, Zenon
<1> QED BY <1>3

\* A member of a set of positions is the one that its rank gives.
LEMMA NthOfRank ==
  ASSUME NEW n \in Nat, NEW S, S \subseteq 1..n, NEW k \in S
  PROVE  LET rank == Cardinality({j \in S : j <= k})
         IN rank \in 1..Cardinality(S) /\ Nth(S, rank) = k
<1> DEFINE Upto(i) == {j \in S : j <= i}
<1>1. IsFiniteSet(S) /\ \A i : IsFiniteSet(Upto(i)) /\ Cardinality(Upto(i)) <= Cardinality(S)
  <2>1. IsFiniteSet(1..n) BY FS_Interval
  <2>2. IsFiniteSet(S) BY <2>1, FS_Subset
  <2>3. \A i : Upto(i) \in SUBSET S OBVIOUS
  <2> QED BY <2>2, <2>3, FS_Subset
<1>2. Cardinality(S) \in Nat /\ \A i : Cardinality(Upto(i)) \in Nat BY <1>1, FS_CardinalityType
<1>3. Cardinality(Upto(k)) # 0
  <2>1. k \in Upto(k) OBVIOUS
  <2> HIDE DEF Upto
  <2> QED BY <1>1, <2>1, FS_EmptySet
<1>4. ASSUME NEW i \in S, Cardinality(Upto(i)) = Cardinality(Upto(k)) PROVE i = k
  <2>1. \A a, b \in S : a < b => Upto(a) \in SUBSET Upto(b) /\ b \in Upto(b) /\ b \notin Upto(a)
    <3> TAKE a, b \in S
    <3> HAVE a < b
    <3>1. S \subseteq Int /\ a \in Int /\ b \in Int OBVIOUS
    <3>2. \A j \in S : j <= a => j <= b BY <3>1
    <3>3. b <= b /\ ~(b <= a) BY <3>1
    <3> QED BY <3>2, <3>3, Zenon
  <2>2. \A a, b \in S : a < b => Cardinality(Upto(a)) # Cardinality(Upto(b))
    <3> TAKE a, b \in S
    <3> HAVE a < b
    <3>1. Upto(a) \in SUBSET Upto(b) /\ Upto(a) # Upto(b) BY <2>1
    <3>2. IsFiniteSet(Upto(b)) BY <1>1
    <3> HIDE DEF Upto
    <3> QED BY <3>1, <3>2, FS_Subset
  <2>3. i \in Int /\ k \in Int OBVIOUS
  <2> HIDE DEF Upto
  <2> QED BY <1>4, <2>2, <2>3
<1>5. Cardinality(Upto(k)) \in 1..Cardinality(S) BY <1>1, <1>2, <1>3
<1>6. Nth(S, Cardinality(Upto(k))) = k BY <1>4 DEF Nth
<1> QED BY <1>5, <1>6

\* One more position, one more in the count; none, the same.
LEMMA CountStep ==
  ASSUME NEW n \in Nat, NEW S, S \subseteq 1..n, NEW p \in Nat
  PROVE  /\ p + 1 \in S => Cardinality({j \in S : j <= p + 1}) = Cardinality({j \in S : j <= p}) + 1
         /\ p + 1 \notin S => Cardinality({j \in S : j <= p + 1}) = Cardinality({j \in S : j <= p})
         /\ Cardinality({j \in S : j <= p}) \in Nat
<1> DEFINE A == {j \in S : j <= p}
           B == {j \in S : j <= p + 1}
<1>1. IsFiniteSet(A) /\ Cardinality(A) \in Nat
  <2>1. IsFiniteSet(1..n)
    <3>1. 1 \in Int /\ n \in Int OBVIOUS
    <3> QED BY <3>1, FS_Interval, Zenon
  <2>2. A \in SUBSET (1..n) OBVIOUS
  <2>3. IsFiniteSet(A)
    <3> HIDE DEF A
    <3> QED BY <2>1, <2>2, FS_Subset
  <2> QED BY <2>3, FS_CardinalityType
<1>2. S \subseteq Int /\ p + 1 \notin A OBVIOUS
<1>3. \A j \in Int : j <= p + 1 <=> j <= p \/ j = p + 1 OBVIOUS
<1>4. p + 1 \in S => B = A \cup {p + 1} BY <1>2, <1>3, Zenon
<1>5. p + 1 \notin S => B = A
  <2> HAVE p + 1 \notin S
  <2>1. \A j \in S : j <= p + 1 <=> j <= p BY <1>2, <1>3, Zenon
  <2> QED BY <2>1, Zenon
<1>6. p + 1 \notin A => Cardinality(A \cup {p + 1}) = Cardinality(A) + 1
  <2> HIDE DEF A
  <2> QED BY <1>1, FS_AddElement
<1> HIDE DEF A, B
<1>7. Cardinality(A) \in Nat BY <1>1
<1>8. p + 1 \in S => Cardinality(B) = Cardinality(A) + 1 BY <1>2, <1>4, <1>6, Zenon
<1>9. p + 1 \notin S => Cardinality(B) = Cardinality(A) BY <1>5, Zenon
<1> QED BY <1>7, <1>8, <1>9, Zenon DEF A, B

-----------------------------------------------------------------------------
(* The lists of stages.                                                    *)

LEMMA TextFacts ==
  /\ Modes \subseteq Texts /\ {"", "none", "faker"} \subseteq Texts
  /\ "" \in Texts /\ "none" \in Texts /\ "faker" \in Texts /\ "concurrent" \in Texts
<1>1. Modes \cup {"none", "faker"} \subseteq Texts BY ConfigurationAssumption, Zenon
<1>2. "" \in Modes /\ "concurrent" \in Modes BY DEF Modes
<1> QED BY <1>1, <1>2

LEMMA BarrierFacts ==
  /\ Blank \in ScenarioStage /\ BarrierStage \in ScenarioStage /\ BarrierStage.barrier
  /\ BarrierStage.target = "" /\ BarrierStage.workload = NoWorkload /\ ~BarrierStage.stop
  /\ NoWorkload \in Workloads /\ NoWorkload.kind = "plain" /\ FakerWorkload \in Workloads
<1>1. FakerWorkload \in Workloads BY TextFacts DEF FakerWorkload, Workloads
<1>2. NoWorkload \in Workloads BY <1>1, TextFacts DEF NoWorkload, Workloads
<1>3. NoWorkload.kind = "plain" BY DEF NoWorkload, FakerWorkload
<1>4. Blank \in ScenarioStage
  <2>1. 0 \in Int /\ FALSE \in BOOLEAN /\ TRUE \in BOOLEAN OBVIOUS
  <2> QED BY <1>2, <2>1, TextFacts, Zenon DEF Blank, ScenarioStage
<1>5. BarrierStage \in ScenarioStage BY <1>4 DEF BarrierStage, ScenarioStage
<1>6. BarrierStage.barrier BY DEF BarrierStage, Blank
<1>7. BarrierStage.target = "" BY DEF BarrierStage, Blank
<1>8. BarrierStage.workload = NoWorkload BY DEF BarrierStage, Blank
<1>9. ~BarrierStage.stop BY DEF BarrierStage, Blank
<1> QED BY <1>1, <1>2, <1>3, <1>4, <1>5, <1>6, <1>7, <1>8, <1>9, Zenon

\* A sequence given entry by entry.
LEMMA MappedSeq ==
  ASSUME NEW T, NEW n \in Nat, NEW f, f = [k \in 1..n |-> f[k]], \A k \in 1..n : f[k] \in T
  PROVE  f \in Seq(T) /\ Len(f) = n /\ DOMAIN f = 1..n
<1>1. f \in [1..n -> T] OBVIOUS
<1> QED BY <1>1

LEMMA ScenarioRecord ==
  ASSUME NEW stages \in Seq(ScenarioStage), NEW w \in Workloads, NEW t \in Texts
  PROVE  LET sc == [stages |-> stages, workload |-> w, target |-> t]
         IN sc \in Scenarios /\ sc.stages = stages /\ sc.workload = w /\ sc.target = t
BY DEF Scenarios

\* What a document compiles to.
LEMMA JSONCompiles ==
  ASSUME NEW s \in JSONSource
  PROVE  /\ ToScenarioConfig(ParseDataConfig(s)) \in Scenarios
         /\ Shape(ToScenarioConfig(ParseDataConfig(s)).stages)
<1> DEFINE d == ParseDataConfig(s)
           Entry == [concurrency : Int, pool : Int]
           mode == d.load.mode
<1>1. d \in JSONSource
  <2> DEFINE l == [s.load EXCEPT !.mode = IF @ = "unset" THEN "concurrent" ELSE @,
                                 !.concurrency = Given(@, 10), !.rate = Given(@, 10)]
             LoadType == [mode : Texts, concurrency : Int, pool : Int, rate : Int]
  <2>1. s.load \in LoadType BY DEF JSONSource
  <2>2. l \in LoadType
    <3> DEFINE m == IF s.load.mode = "unset" THEN "concurrent" ELSE s.load.mode
               c == Given(s.load.concurrency, 10)
               g == Given(s.load.rate, 10)
    <3>1. s.load.mode \in Texts /\ s.load.concurrency \in Int /\ s.load.rate \in Int
      BY <2>1
    <3>2. m \in Texts BY <3>1, TextFacts
    <3>3. 10 \in Int OBVIOUS
    <3>4. c \in Int /\ g \in Int BY <3>1, <3>3, Zenon DEF Given
    <3>5. l = [s.load EXCEPT !.mode = m, !.concurrency = c, !.rate = g] BY Zenon
    <3> HIDE DEF m, c, g, l
    <3> QED BY <2>1, <3>2, <3>4, <3>5
  <2>3. d = [s EXCEPT !.load = l] BY <2>1 DEF ParseDataConfig, JSONSource
  <2> HIDE DEF l
  <2> QED BY <2>2, <2>3 DEF JSONSource
<1> HIDE DEF d
<1>2. EffectiveStages(d) \in Seq(Entry) /\ EffectiveStages(d) # <<>>
  <2>1. CASE d.sweep # <<>>
    <3> DEFINE w == d.sweep[1]
    <3> DEFINE Sweep == [min : Int, max : Int, steps : Int]
    <3>1. w \in Sweep
      <4>1. d.sweep \in Seq(Sweep) BY <1>1 DEF JSONSource
      <4> HIDE DEF Sweep
      <4> QED BY <2>1, <4>1
    <3>2. w.min \in Int /\ w.max \in Int /\ w.steps \in Int BY <3>1
    <3> HIDE DEF w
    <3>3. ASSUME w.steps < 2 PROVE SweepStages(w) \in Seq(Entry) /\ SweepStages(w) # <<>>
      <4> DEFINE e == [concurrency |-> w.max, pool |-> 0]
      <4>1. 0 \in Int OBVIOUS
      <4>2. e \in Entry BY <3>2, <4>1, Zenon
      <4>3. SweepStages(w) = <<e>> BY <3>3 DEF SweepStages
      <4> HIDE DEF e, Entry
      <4>4. <<e>> \in Seq(Entry) /\ <<e>> # <<>> BY <4>2
      <4> QED BY <4>3, <4>4, Zenon
    <3>4. ASSUME ~(w.steps < 2) PROVE SweepStages(w) \in Seq(Entry) /\ SweepStages(w) # <<>>
      <4> DEFINE f == [k \in 1..w.steps |->
                        [concurrency |-> SweepConcurrency(w.min, w.max, w.steps, k - 1), pool |-> 0]]
      <4>1. \A i \in Int : SweepConcurrency(w.min, w.max, w.steps, i) \in Int
        <5> TAKE i \in Int
        <5>1. (w.max - w.min) * i \in Int /\ (w.min - w.max) * i \in Int BY <3>2, SMTT(30)
        <5>2. w.steps - 1 \in Int /\ w.steps - 1 > 0 BY <3>2, <3>4
        <5>3. \A a, b \in Int : b > 0 => a \div b \in Int BY SMTT(30)
        <5> QED BY <3>2, <5>1, <5>2, <5>3 DEF SweepConcurrency
      <4>2. \A k \in 1..w.steps : f[k] \in Entry BY <3>2, <4>1
      <4>3. w.steps \in Nat /\ w.steps >= 1 BY <3>2, <3>4
      <4>4. f = [k \in 1..w.steps |-> f[k]] OBVIOUS
      <4> HIDE DEF f, Entry
      <4>5. f \in Seq(Entry) /\ Len(f) = w.steps BY <4>2, <4>3, <4>4, MappedSeq
      <4>6. SweepStages(w) = f BY <3>4 DEF SweepStages, f
      <4> HIDE DEF Entry
      <4>7. f # <<>> BY <4>3, <4>5
      <4> QED BY <4>5, <4>6, <4>7, Zenon
    <3>5. SweepStages(w) \in Seq(Entry) /\ SweepStages(w) # <<>> BY <3>3, <3>4, Zenon
    <3> QED BY <2>1, <3>5, Zenon DEF EffectiveStages, w
  <2>2. CASE d.sweep = <<>> /\ d.stages # <<>> BY <1>1, <2>2 DEF EffectiveStages, JSONSource
  <2>3. CASE d.sweep = <<>> /\ d.stages = <<>>
    <3>1. d.load.concurrency \in Int /\ d.load.pool \in Int BY <1>1 DEF JSONSource
    <3>2. EffectiveStages(d) = <<[concurrency |-> d.load.concurrency, pool |-> d.load.pool]>>
      BY <2>3 DEF EffectiveStages
    <3> QED BY <3>1, <3>2
  <2> QED BY <2>1, <2>2, <2>3
<1>3. mode \in Texts /\ d.load.pool \in Int /\ d.load.rate \in Int /\ d.within \in BOOLEAN
      /\ d.workload \in Workloads
  BY <1>1 DEF JSONSource
<1> DEFINE Made == {x \in ScenarioStage : x.mode = mode /\ ~x.barrier}
           Convert(e) == [Blank EXCEPT !.mode = mode, !.concurrency = e.concurrency,
                                  !.pool = IF e.pool = 0 THEN d.load.pool ELSE e.pool,
                                  !.rate = d.load.rate, !.within = d.within]
           front == IF d.warmup THEN <<WarmupStage(d)>> ELSE <<>>
           stages == EffectiveStages(d)
           rest == [k \in DOMAIN stages |-> Convert(stages[k])]
<1>4. WarmupStage(d) \in Made
  <2> DEFINE first == EffectiveStages(d)[1]
             p == IF first.pool > 0 THEN first.pool ELSE d.load.pool
             c == first.concurrency
  <2>1. first \in Entry
    <3> HIDE DEF Entry
    <3> QED BY <1>2
  <2>2. p \in Int /\ c \in Int BY <1>3, <2>1
  <2>3. WarmupStage(d) = [Blank EXCEPT !.warmup = TRUE, !.mode = mode, !.concurrency = c,
                                       !.within = d.within, !.pool = p]
    BY Zenon DEF WarmupStage
  <2> HIDE DEF p, c, first, mode
  <2>4. WarmupStage(d) \in ScenarioStage BY <1>3, <2>2, <2>3, BarrierFacts DEF ScenarioStage
  <2>5. Blank.barrier = FALSE BY DEF Blank
  <2>6. WarmupStage(d).mode = mode BY <2>3, BarrierFacts DEF ScenarioStage
  <2>7. WarmupStage(d).barrier = FALSE BY <2>3, <2>5, BarrierFacts DEF ScenarioStage
  <2> QED BY <2>4, <2>6, <2>7, Zenon
<1>5. ASSUME NEW e \in Entry PROVE Convert(e) \in Made
  <2> DEFINE p == IF e.pool = 0 THEN d.load.pool ELSE e.pool
             c == e.concurrency
             g == d.load.rate
             st == Convert(e)
  <2>1. p \in Int /\ c \in Int /\ g \in Int BY <1>3
  <2>2. st = [Blank EXCEPT !.mode = mode, !.concurrency = c, !.pool = p, !.rate = g,
                           !.within = d.within]
    BY Zenon
  <2> HIDE DEF p, c, g, mode, st
  <2>3. st \in ScenarioStage BY <1>3, <2>1, <2>2, BarrierFacts DEF ScenarioStage
  <2>4. Blank.barrier = FALSE BY DEF Blank
  <2>5. st.mode = mode BY <2>2, BarrierFacts DEF ScenarioStage
  <2>6. st.barrier = FALSE BY <2>2, <2>4, BarrierFacts DEF ScenarioStage
  <2>7. st \in Made BY <2>3, <2>5, <2>6, Zenon
  <2> QED BY <2>7 DEF st
<1> HIDE DEF Made
<1>6. front \in Seq(Made) BY <1>4
<1>7. rest \in Seq(Made)
  <2>1. Len(stages) \in Nat /\ DOMAIN stages = 1..Len(stages) /\ \A k \in 1..Len(stages) : stages[k] \in Entry
    <3> HIDE DEF Entry
    <3> QED BY <1>2
  <2>2. \A k \in 1..Len(stages) : rest[k] \in Made
    <3> HIDE DEF Convert, stages
    <3> QED BY <1>5, <2>1
  <2>3. rest = [k \in 1..Len(stages) |-> rest[k]] BY <2>1
  <2> HIDE DEF rest, stages
  <2> QED BY <2>1, <2>2, <2>3, MappedSeq
<1>8. ToScenarioConfig(d) = [stages |-> front \o rest, workload |-> d.workload, target |-> ""]
  BY DEF ToScenarioConfig
<1> HIDE DEF front, rest
<1>9. front \o rest \in Seq(Made) BY <1>6, <1>7
<1>10. \A k \in DOMAIN (front \o rest) : (front \o rest)[k] \in Made BY <1>9
<1>11. front \o rest \in Seq(ScenarioStage)
  <2>1. Made \subseteq ScenarioStage BY DEF Made
  <2> QED BY <1>9, <2>1
<1>12. Shape(front \o rest) BY <1>10 DEF Shape, Loads, Made
<1> DEFINE list == front \o rest
           sc == [stages |-> list, workload |-> d.workload, target |-> ""]
<1>13. list \in Seq(ScenarioStage) /\ Shape(list) BY <1>11, <1>12
<1>14. ToScenarioConfig(d) = sc BY <1>8
<1>15. "" \in Texts BY TextFacts
<1> HIDE DEF list
<1>16. sc \in Scenarios /\ sc.stages = list BY <1>3, <1>13, <1>15, ScenarioRecord
<1> HIDE DEF sc
<1> QED BY <1>13, <1>14, <1>16 DEF d

\* What a program compiles to.
LEMMA StarlarkCompiles ==
  ASSUME NEW s \in StarlarkSource, NEW bounded, ParseStarlarkOK(s, bounded)
  PROVE  ParseScenarioCall(s) \in Scenarios /\ Shape(ParseScenarioCall(s).stages)
<1> DEFINE stages == [k \in DOMAIN s.items |-> StructToScenarioStage(s.items[k])]
           Made == {x \in ScenarioStage : IF x.barrier THEN x = BarrierStage ELSE x.concurrency >= 1}
<1>1. s.items \in Seq(StarlarkItem) /\ s.workload \in Workloads /\ s.target \in Texts
  BY DEF StarlarkSource
<1>2. Len(s.items) \in Nat /\ DOMAIN s.items = 1..Len(s.items)
      /\ \A k \in 1..Len(s.items) : s.items[k] \in StarlarkItem
  BY <1>1
<1>3. \A k \in 1..Len(s.items) : stages[k] \in Made
  <2> TAKE k \in 1..Len(s.items)
  <2> DEFINE i == s.items[k]
  <2>1. i \in StarlarkItem BY <1>2
  <2>2. i.barrier \/ Given(i.concurrency, 10) >= 1 BY <1>2 DEF ParseStarlarkOK, BuiltinStageOK
  <2>3. stages[k] = StructToScenarioStage(i) BY <1>2
  <2> HIDE DEF i, stages
  <2>4. CASE i.barrier BY <2>3, <2>4, BarrierFacts DEF StructToScenarioStage
  <2>5. CASE ~i.barrier
    <3> DEFINE c == Given(i.concurrency, 10)
               g == Given(i.rate, 0)
               e == (i.until # "none")
               st == StructToScenarioStage(i)
    <3>1. i.concurrency \in Int /\ i.pool \in Int /\ i.rate \in Int BY <2>1 DEF StarlarkItem
    <3>2. i.warmup \in BOOLEAN /\ i.mode \in Texts /\ i.workload \in Workloads
          /\ i.target \in Texts /\ i.within \in BOOLEAN
      BY <2>1 DEF StarlarkItem
    <3>3. c \in Int /\ g \in Int /\ c >= 1 BY <2>2, <2>5, <3>1 DEF Given
    <3>4. e \in BOOLEAN OBVIOUS
    <3>5. st = [Blank EXCEPT !.warmup = i.warmup, !.mode = i.mode, !.concurrency = c,
                             !.pool = i.pool, !.rate = g, !.workload = i.workload,
                             !.target = i.target, !.stop = e, !.within = i.within]
      BY <2>5, Zenon DEF StructToScenarioStage
    <3> HIDE DEF c, g, e, st
    <3>6. st \in ScenarioStage
      BY <3>1, <3>2, <3>3, <3>4, <3>5, BarrierFacts DEF ScenarioStage
    <3>7. Blank.barrier = FALSE BY DEF Blank
    <3>8. st.concurrency = c BY <3>5, BarrierFacts DEF ScenarioStage
    <3>9. st.barrier = FALSE BY <3>5, <3>7, BarrierFacts DEF ScenarioStage
    <3>10. st \in Made BY <3>3, <3>6, <3>8, <3>9
    <3> QED BY <2>3, <3>10, Zenon DEF st
  <2> QED BY <2>4, <2>5
<1>4. stages = [k \in 1..Len(s.items) |-> stages[k]] BY <1>2
<1>5. ParseScenarioCall(s) = [stages |-> stages, workload |-> s.workload, target |-> s.target]
  BY DEF ParseScenarioCall
<1> HIDE DEF stages, Made
<1>6. stages \in Seq(Made) /\ DOMAIN stages = 1..Len(s.items) BY <1>2, <1>3, <1>4, MappedSeq
<1>7. stages \in Seq(ScenarioStage)
  <2>1. Made \subseteq ScenarioStage BY DEF Made
  <2> QED BY <1>6, <2>1
<1>8. Shape(stages) BY <1>3, <1>6 DEF Shape, Loads, Made
<1> QED BY <1>1, <1>5, <1>7, <1>8, ScenarioRecord

\* Validate fills in the pools of a list that it accepts, and nothing else.
LEMMA ValidatedFills ==
  ASSUME NEW sc \in Scenarios, Shape(sc.stages), ValidateOK(sc.stages)
  PROVE  LET v == Validated(sc)
         IN v \in Scenarios /\ Shape(v.stages) /\ Filled(v.stages)
<1> DEFINE stages == sc.stages
           Fill(k) == IF ~stages[k].barrier /\ stages[k].mode = "conversation_pool" /\ stages[k].pool = 0
                        THEN [stages[k] EXCEPT !.pool = stages[k].concurrency] ELSE stages[k]
           filled == [k \in DOMAIN stages |-> Fill(k)]
<1>1. stages \in Seq(ScenarioStage) /\ sc.workload \in Workloads /\ sc.target \in Texts
      /\ sc = [stages |-> stages, workload |-> sc.workload, target |-> sc.target]
  BY DEF Scenarios
<1>2. Len(stages) \in Nat /\ DOMAIN stages = 1..Len(stages)
      /\ \A k \in 1..Len(stages) : stages[k] \in ScenarioStage
  <2> HIDE DEF stages
  <2> QED BY <1>1
<1>3. Validated(sc) = [sc EXCEPT !.stages = filled] BY <1>1 DEF Validated
<1>4. ASSUME NEW k \in 1..Len(stages)
      PROVE  /\ Fill(k) \in ScenarioStage /\ Fill(k).barrier = stages[k].barrier
             /\ Fill(k).mode = stages[k].mode /\ Fill(k).concurrency = stages[k].concurrency
             /\ stages[k].barrier => Fill(k) = stages[k]
             /\ ~stages[k].barrier /\ stages[k].mode = "conversation_pool" =>
                  Fill(k).pool = IF stages[k].pool = 0 THEN stages[k].concurrency ELSE stages[k].pool
  <2> DEFINE st == stages[k]
             c == st.concurrency
             up == [st EXCEPT !.pool = c]
  <2>1. st \in ScenarioStage BY <1>2
  <2> HIDE DEF st
  <2>2. c \in Int BY <2>1 DEF ScenarioStage
  <2> HIDE DEF c
  <2>3. up \in ScenarioStage BY <2>1, <2>2 DEF ScenarioStage
  <2>4. up.barrier = st.barrier BY <2>1 DEF ScenarioStage
  <2>5. up.mode = st.mode BY <2>1 DEF ScenarioStage
  <2>6. up.concurrency = st.concurrency BY <2>1 DEF ScenarioStage
  <2>7. up.pool = c BY <2>1 DEF ScenarioStage
  <2>8. Fill(k) = IF ~st.barrier /\ st.mode = "conversation_pool" /\ st.pool = 0 THEN up ELSE st
    BY DEF st, c
  <2> HIDE DEF up, Fill
  <2> QED BY <2>1, <2>3, <2>4, <2>5, <2>6, <2>7, <2>8, Zenon DEF st, c
<1>5. filled = [k \in 1..Len(stages) |-> filled[k]]
      /\ \A k \in 1..Len(stages) : filled[k] = Fill(k)
  BY <1>2
<1>6. \A k \in 1..Len(stages) : filled[k] \in ScenarioStage BY <1>4, <1>5
<1> HIDE DEF filled
<1>7. filled \in Seq(ScenarioStage) /\ DOMAIN filled = 1..Len(stages) BY <1>2, <1>5, <1>6, MappedSeq
<1>8. Validated(sc) \in Scenarios /\ Validated(sc).stages = filled
  <2> HIDE DEF stages
  <2> QED BY <1>1, <1>3, <1>7, ScenarioRecord
<1>9. Loads(filled) = Loads(stages) BY <1>2, <1>4, <1>5, <1>7 DEF Loads
<1>10. Loads(stages) \subseteq 1..Len(stages) /\ \A k \in Loads(stages) : ~stages[k].barrier
  BY <1>2 DEF Loads
<1> HIDE DEF Fill
<1>11. Shape(filled)
  <2>1. \A k \in 1..Len(stages) : filled[k].barrier => filled[k] = BarrierStage
    <3> TAKE k \in 1..Len(stages)
    <3>1. filled[k] = Fill(k) /\ Fill(k).barrier = stages[k].barrier
          /\ (stages[k].barrier => Fill(k) = stages[k])
      BY <1>4, <1>5
    <3>2. stages[k].barrier => stages[k] = BarrierStage BY <1>2 DEF Shape
    <3> QED BY <3>1, <3>2, Zenon
  <2>2. \A k \in Loads(stages) : filled[k].concurrency = stages[k].concurrency
                                 /\ filled[k].mode = stages[k].mode
    BY <1>4, <1>5, <1>10
  <2> QED BY <1>7, <1>9, <2>1, <2>2 DEF Shape
<1>12. Filled(filled)
  <2> SUFFICES ASSUME NEW k \in Loads(stages)
               PROVE  /\ filled[k].mode \in Modes
                      /\ filled[k].mode = "conversation_pool" =>
                           /\ filled[k].pool >= filled[k].concurrency
                           /\ filled[k].pool = 0 => filled[k].concurrency = 0
    BY <1>9 DEF Filled
  <2>1. k \in 1..Len(stages) /\ ~stages[k].barrier BY <1>10
  <2>2. stages[k].concurrency \in Int /\ stages[k].pool \in Int BY <1>2, <2>1 DEF ScenarioStage
  <2>3. stages[k].mode \in Modes
        /\ (stages[k].mode = "conversation_pool" =>
              stages[k].pool = 0 \/ stages[k].pool >= stages[k].concurrency)
    BY DEF ValidateOK
  <2>4. /\ filled[k].mode = stages[k].mode /\ filled[k].concurrency = stages[k].concurrency
        /\ stages[k].mode = "conversation_pool" =>
             filled[k].pool = IF stages[k].pool = 0 THEN stages[k].concurrency ELSE stages[k].pool
    <3>1. filled[k] = Fill(k) BY <1>5, <2>1
    <3> QED BY <1>4, <2>1, <3>1, Zenon
  <2> HIDE DEF stages
  <2>5. filled[k].mode \in Modes BY <2>3, <2>4
  <2>6. ASSUME filled[k].mode = "conversation_pool"
        PROVE  filled[k].pool >= filled[k].concurrency
               /\ (filled[k].pool = 0 => filled[k].concurrency = 0)
    <3>1. stages[k].mode = "conversation_pool" BY <2>4, <2>6
    <3>2. CASE stages[k].pool = 0 BY <2>2, <2>4, <3>1, <3>2
    <3>3. CASE stages[k].pool # 0 BY <2>2, <2>3, <2>4, <3>1, <3>3
    <3> QED BY <3>2, <3>3
  <2> QED BY <2>5, <2>6
<1> QED BY <1>8, <1>11, <1>12

\* Validating once more changes nothing.
LEMMA ValidatedAgain ==
  ASSUME NEW sc \in Scenarios, Filled(sc.stages)
  PROVE  Validated(sc) = sc /\ ValidateOK(sc.stages)
<1> DEFINE stages == sc.stages
           Fill(k) == IF ~stages[k].barrier /\ stages[k].mode = "conversation_pool" /\ stages[k].pool = 0
                        THEN [stages[k] EXCEPT !.pool = stages[k].concurrency] ELSE stages[k]
<1>1. stages \in Seq(ScenarioStage) /\ [sc EXCEPT !.stages = stages] = sc BY DEF Scenarios
<1>2. Validated(sc) = [sc EXCEPT !.stages = [k \in DOMAIN stages |-> Fill(k)]]
  BY DEF Validated, Scenarios
<1>3. ASSUME NEW k \in DOMAIN stages PROVE Fill(k) = stages[k]
  <2> DEFINE st == stages[k]
  <2>1. st \in ScenarioStage
    <3> HIDE DEF stages
    <3> QED BY <1>1
  <2>2. ASSUME ~st.barrier, st.mode = "conversation_pool", st.pool = 0 PROVE st.concurrency = st.pool
    BY <2>2 DEF Filled, Loads
  <2> HIDE DEF st
  <2>3. [st EXCEPT !.pool = st.pool] = st BY <2>1 DEF ScenarioStage
  <2> QED BY <2>2, <2>3, Zenon DEF st
<1>4. [k \in DOMAIN stages |-> Fill(k)] = stages
  <2>1. stages = [k \in DOMAIN stages |-> stages[k]]
    <3> HIDE DEF stages
    <3> QED BY <1>1
  <2> HIDE DEF Fill, stages
  <2> QED BY <1>3, <2>1
<1>5. ValidateOK(stages)
  <2> SUFFICES ASSUME NEW k \in Loads(stages)
               PROVE  /\ stages[k].mode \in Modes
                      /\ stages[k].mode = "conversation_pool" =>
                           stages[k].pool = 0 \/ stages[k].pool >= stages[k].concurrency
    BY DEF ValidateOK
  <2> QED BY DEF Filled
<1> QED BY <1>1, <1>2, <1>4, <1>5

\* The barrier in front of the first run leaves the rest as it is.
LEMMA BarrierInFront ==
  ASSUME NEW stages \in Seq(ScenarioStage)
  PROVE  LET list == InsertImplicitBarrier(stages)
         IN /\ list \in Seq(ScenarioStage)
            /\ \A k \in DOMAIN list :
                 list[k] = BarrierStage \/ \E j \in DOMAIN stages : list[k] = stages[j]
<1>1. CASE stages = <<>> \/ stages[1].barrier BY <1>1 DEF InsertImplicitBarrier
<1>2. CASE ~(stages = <<>> \/ stages[1].barrier)
  <2> DEFINE list == <<BarrierStage>> \o stages
  <2>1. BarrierStage \in ScenarioStage BY BarrierFacts
  <2>2. InsertImplicitBarrier(stages) = list BY <1>2 DEF InsertImplicitBarrier
  <2>3. list \in Seq(ScenarioStage) BY <2>1
  <2>4. \A k \in DOMAIN list : list[k] = BarrierStage \/ \E j \in DOMAIN stages : list[k] = stages[j]
    <3> TAKE k \in DOMAIN list
    <3>1. Len(list) = Len(stages) + 1 /\ Len(stages) \in Nat /\ k \in 1..Len(list) BY <2>1
    <3>2. CASE k = 1 BY <2>1, <3>2
    <3>3. CASE k # 1
      <4>1. k - 1 \in 1..Len(stages) BY <3>1, <3>3
      <4>2. list[k] = stages[k - 1] BY <2>1, <3>1, <3>3
      <4>3. k - 1 \in DOMAIN stages BY <4>1
      <4> HIDE DEF list
      <4> QED BY <4>2, <4>3
    <3> QED BY <3>2, <3>3
  <2> HIDE DEF list
  <2> QED BY <2>2, <2>3, <2>4, Zenon
<1> QED BY <1>1, <1>2

\* What holds of all the stages of a list holds when barriers are put among them.
LEMMA MoreBarriers ==
  ASSUME NEW stages, NEW list, Shape(stages), Filled(stages),
         \A k \in DOMAIN list : list[k] = BarrierStage \/ \E j \in DOMAIN stages : list[k] = stages[j]
  PROVE  Shape(list) /\ Filled(list)
<1>1. ASSUME NEW k \in Loads(list) PROVE \E j \in Loads(stages) : list[k] = stages[j]
  BY BarrierFacts, Zenon DEF Loads
<1>2. \A k \in DOMAIN list : list[k].barrier => list[k] = BarrierStage BY DEF Shape
<1>3. CASE \A k \in Loads(stages) : stages[k].concurrency >= 1
  <2>1. \A k \in Loads(list) : list[k].concurrency >= 1 BY <1>1, <1>3
  <2> QED BY <1>1, <1>2, <2>1 DEF Shape, Filled
<1>4. CASE \A j, k \in Loads(stages) : stages[j].mode = stages[k].mode
  <2>1. \A j, k \in Loads(list) : list[j].mode = list[k].mode BY <1>1, <1>4
  <2> QED BY <1>1, <1>2, <2>1 DEF Shape, Filled
<1> QED BY <1>3, <1>4 DEF Shape

LEMMA SourceCompiles ==
  ASSUME NEW s \in Sources, NEW bounded, ParseOK(s, bounded)
  PROVE  LET v == Validated(Compiled(s))
         IN v \in Scenarios /\ Shape(v.stages) /\ Filled(v.stages)
<1>1. s \in JSONSource \/ s \in StarlarkSource BY ConfigurationAssumption
<1>2. ValidateOK(Compiled(s).stages) BY DEF ParseOK
<1>3. Compiled(s) \in Scenarios /\ Shape(Compiled(s).stages)
  <2>1. CASE s \in JSONSource
    <3>1. s.form = "json" BY <2>1 DEF JSONSource
    <3> QED BY <2>1, <3>1, JSONCompiles DEF Compiled
  <2>2. CASE s \in StarlarkSource
    <3>1. s.form = "starlark" BY <2>2 DEF StarlarkSource
    <3>2. ParseStarlarkOK(s, bounded) BY <3>1 DEF ParseOK
    <3>3. Compiled(s) = ParseScenarioCall(s) BY <3>1 DEF Compiled
    <3> QED BY <2>2, <3>2, <3>3, StarlarkCompiles
  <2> QED BY <1>1, <2>1, <2>2
<1> QED BY <1>2, <1>3, ValidatedFills

\* Worker 0 has a share of whatever there is.
LEMMA FirstShare ==
  ASSUME NEW c \in Nat \ {0}, NEW n \in Nat \ {0}
  PROVE  DivideConcurrency(c, n, 0) > 0
<1>1. /\ c \div n \in Nat /\ (c % n) \in 0..(n - 1)
      /\ c = n * (c \div n) + (c % n)
  BY Division
<1>2. CASE n <= 1 BY <1>2 DEF DivideConcurrency
<1>3. CASE n > 1
  <2> DEFINE q == c \div n
             r == c % n
  <2>1. CASE r > 0 BY <1>1, <1>3, <2>1 DEF DivideConcurrency
  <2>2. CASE r = 0
    <3>1. q # 0
      <4> SUFFICES ASSUME q = 0 PROVE FALSE OBVIOUS
      <4>1. n * 0 = 0 BY SMTT(30)
      <4>2. c = n * q + r BY <1>1
      <4> HIDE DEF q, r
      <4> QED BY <2>2, <4>1, <4>2
    <3>2. DivideConcurrency(c, n, 0) = q
      <4>1. ~(0 < r) BY <2>2
      <4> QED BY <1>3, <4>1 DEF DivideConcurrency
    <3>3. q \in Nat BY <1>1
    <3> HIDE DEF q
    <3> QED BY <3>1, <3>2, <3>3
  <2> QED BY <1>1, <2>1, <2>2
<1> QED BY <1>2, <1>3

-----------------------------------------------------------------------------
(* Runs of stages that share a generator.                                  *)

\* A barrier is what the load stage before it is; a load stage is itself.
LEMMA ResolvedFacts ==
  ASSUME scenario \in Scenarios, NEW k \in DOMAIN scenario.stages
  PROVE  /\ ~scenario.stages[k].barrier => Resolved(k) = scenario.stages[k]
         /\ \/ Resolved(k) = BarrierStage
            \/ \E l \in Loads(scenario.stages) :
                 Resolved(k) = scenario.stages[l] /\ Resolved(l) = scenario.stages[l]
<1> DEFINE stages == scenario.stages
           before(i) == {j \in 1..i : ~stages[j].barrier}
           last(i) == CHOOSE j \in before(i) : \A h \in before(i) : h <= j
<1>1. Len(stages) \in Nat /\ DOMAIN stages = 1..Len(stages)
  <2>1. stages \in Seq(ScenarioStage) BY DEF Scenarios
  <2> HIDE DEF stages
  <2> QED BY <2>1
<1>2. \A i : Resolved(i) = IF before(i) = {} THEN BarrierStage ELSE stages[last(i)] BY DEF Resolved
<1>3. ASSUME NEW i \in 1..Len(stages), ~stages[i].barrier PROVE Resolved(i) = stages[i]
  <2>1. i \in before(i) /\ \A h \in before(i) : h <= i BY <1>1, <1>3
  <2>2. \A j \in before(i) : (\A h \in before(i) : h <= j) => j = i BY <1>1, <2>1
  <2>3. last(i) = i
    <3> HIDE DEF before
    <3> QED BY <2>1, <2>2
  <2> QED BY <1>2, <2>1, <2>3
<1>4. ASSUME before(k) # {} PROVE last(k) \in before(k)
  <2>1. \E j \in before(k) : \A h \in before(k) : h <= j
    <3> DEFINE S == {k - h : h \in before(k)}
    <3>1. k \in Nat /\ before(k) \subseteq 1..k BY <1>1
    <3>2. S \subseteq Nat BY <3>1
    <3>3. S # {}
      <4> HIDE DEF before
      <4> QED BY <1>4
    <3>4. PICK x \in S : \A y \in S : x <= y
      <4> HIDE DEF S
      <4> QED BY <3>2, <3>3, NatMin
    <3>5. PICK j \in before(k) : x = k - j
      <4> HIDE DEF before
      <4> QED OBVIOUS
    <3>6. \A h \in before(k) : k - j <= k - h BY <3>4, <3>5
    <3>7. j \in Nat /\ \A h \in before(k) : h \in Nat BY <3>1
    <3> HIDE DEF before, S
    <3>8. \A h \in before(k) : h <= j BY <3>1, <3>6, <3>7
    <3> QED BY <3>8
  <2> HIDE DEF before
  <2> QED BY <2>1
<1>5. ASSUME before(k) # {}
      PROVE  \E l \in Loads(stages) : Resolved(k) = stages[l] /\ Resolved(l) = stages[l]
  <2>1. last(k) \in 1..k /\ ~stages[last(k)].barrier BY <1>4, <1>5
  <2>2. last(k) \in 1..Len(stages) BY <1>1, <2>1
  <2>3. last(k) \in Loads(stages) BY <1>1, <2>1, <2>2 DEF Loads
  <2>4. Resolved(last(k)) = stages[last(k)] BY <1>3, <2>1, <2>2
  <2>5. Resolved(k) = stages[last(k)] BY <1>2, <1>5
  <2> HIDE DEF last
  <2> QED BY <2>3, <2>4, <2>5
<1> QED BY <1>1, <1>2, <1>3, <1>5

\* The generator of a run that reaches a load stage has the mode and the rate of a
\* load stage between its start and that one.
LEMMA FirstLoadFacts ==
  ASSUME scenario \in Scenarios, NEW first \in DOMAIN scenario.stages,
         NEW p \in Loads(scenario.stages), first <= p
  PROVE  \E l \in Loads(scenario.stages) :
           first <= l /\ l <= p /\ FirstLoad(first) = scenario.stages[l]
<1> DEFINE stages == scenario.stages
           loads == {j \in first..Len(stages) : ~stages[j].barrier}
<1>1. Len(stages) \in Nat /\ DOMAIN stages = 1..Len(stages)
  <2>1. stages \in Seq(ScenarioStage) BY DEF Scenarios
  <2> HIDE DEF stages
  <2> QED BY <2>1
<1>2. p \in 1..Len(stages) /\ ~stages[p].barrier BY <1>1 DEF Loads
<1>3. p \in loads BY <1>1, <1>2
<1>4. loads \subseteq Nat /\ \A j \in loads : j \in 1..Len(stages) /\ first <= j /\ ~stages[j].barrier
  BY <1>1
<1>5. FirstLoad(first) = IF loads = {} THEN BarrierStage ELSE stages[LeastOf(loads)] BY DEF FirstLoad
<1> HIDE DEF loads
<1>6. \E l \in loads : \A j \in loads : l <= j BY <1>3, <1>4, NatMin
<1>7. LeastOf(loads) \in loads /\ LeastOf(loads) <= p BY <1>3, <1>6 DEF LeastOf
<1>8. LeastOf(loads) \in Loads(stages) BY <1>1, <1>4, <1>7 DEF Loads
<1>9. FirstLoad(first) = stages[LeastOf(loads)] BY <1>3, <1>5
<1>10. first <= LeastOf(loads) BY <1>4, <1>7
<1> HIDE DEF stages
<1> QED BY <1>7, <1>8, <1>9, <1>10 DEF stages

LEMMA WorkloadEqualFacts ==
  ASSUME NEW a, NEW b, NEW c
  PROVE  /\ WorkloadEqual(a, a)
         /\ WorkloadEqual(a, b) /\ WorkloadEqual(a, c) => WorkloadEqual(b, c)
BY DEF WorkloadEqual

LEMMA CanExtendFacts ==
  ASSUME NEW i, NEW j, NEW k
  PROVE  /\ CanExtend(i, i)
         /\ CanExtend(i, j) /\ CanExtend(i, k) => CanExtend(j, k)
<1>1. WorkloadEqual(Resolved(i).workload, Resolved(i).workload) BY WorkloadEqualFacts
<1>2. WorkloadEqual(Resolved(i).workload, Resolved(j).workload)
        /\ WorkloadEqual(Resolved(i).workload, Resolved(k).workload)
      => WorkloadEqual(Resolved(j).workload, Resolved(k).workload)
  BY WorkloadEqualFacts
<1> QED BY <1>1, <1>2, Zenon DEF CanExtend

\* A worker of a run whose stages agree sends what the plan says.
LEMMA ExecutesPlan ==
  ASSUME scenario \in Scenarios, Uniform, NEW first \in DOMAIN scenario.stages,
         NEW p \in Loads(scenario.stages), first <= p, worker \in WorkerIds(workers),
         \A j \in first..p : CanExtend(first, j)
  PROVE  Execute(first, p) = PlannedFor(p)
<1> DEFINE stages == scenario.stages
           s == stages[p]
           gen == FirstLoad(first)
<1>1. Len(stages) \in Nat /\ DOMAIN stages = 1..Len(stages)
  <2>1. stages \in Seq(ScenarioStage) BY DEF Scenarios
  <2> HIDE DEF stages
  <2> QED BY <2>1
<1>2. p \in DOMAIN stages /\ ~s.barrier BY DEF Loads
<1>3. p \in first..p /\ first \in Nat /\ p \in Nat BY <1>1, <1>2
<1>4. PICK l \in Loads(stages) : first <= l /\ l <= p /\ gen = stages[l] BY FirstLoadFacts
<1>5. l \in DOMAIN stages /\ ~stages[l].barrier BY DEF Loads
<1>6. l \in first..p BY <1>1, <1>3, <1>4, <1>5
<1>7. CanExtend(l, p) BY <1>3, <1>6, CanExtendFacts
<1>8. gen.mode = s.mode /\ gen.rate = s.rate BY <1>4, <1>7 DEF Uniform
<1>9. Resolved(p) = s BY <1>2, ResolvedFacts
<1>10. Resolved(first).target = s.target BY <1>3, <1>9, Zenon DEF CanExtend
<1>11. Resolved(first).workload = s.workload
  <2>1. WorkloadEqual(Resolved(first).workload, s.workload) BY <1>3, <1>9, Zenon DEF CanExtend
  <2>2. CASE Resolved(first) = BarrierStage
    <3>1. Resolved(first).workload = NoWorkload BY <2>2, BarrierFacts
    <3> QED BY <2>1, <3>1 DEF WorkloadEqual
  <2>3. CASE \E h \in Loads(stages) : Resolved(first) = stages[h] /\ Resolved(h) = stages[h]
    <3>1. PICK h \in Loads(stages) : Resolved(first) = stages[h] /\ Resolved(h) = stages[h] BY <2>3
    <3>2. CanExtend(h, p)
      <4>1. CanExtend(first, p) BY <1>3
      <4>2. Resolved(h) = Resolved(first) BY <3>1
      <4> QED BY <4>1, <4>2, Zenon DEF CanExtend
    <3> QED BY <3>1, <3>2 DEF Uniform
  <2> QED BY <2>2, <2>3, ResolvedFacts
<1>12. ModeOf(gen) = ModeOf(s) BY <1>8 DEF ModeOf
<1>13. (IF ModeOf(gen) \in RateModes THEN Share(ModeOf(gen), gen, workers, worker)
        ELSE Share(ModeOf(gen), s, workers, worker))
         = Share(ModeOf(s), s, workers, worker)
  BY <1>8, <1>12, Zenon DEF Share
<1> DEFINE load == [id \in WorkerIds(workers) |-> Share(ModeOf(s), s, workers, id)]
           share == Share(ModeOf(s), s, workers, worker)
           mode == ModeOf(s)
           w == EffectiveWorkload(scenario, s)
           t == s.target
<1>14. load[worker] = share OBVIOUS
<1>15. EffectiveWorkload(scenario, Resolved(first)) = w BY <1>11, Zenon DEF EffectiveWorkload
<1>16. Execute(first, p) = [mode |-> mode, target |-> t, workload |-> w, load |-> share]
  BY <1>10, <1>12, <1>13, <1>15, Zenon DEF Execute
<1>17. PlannedFor(p) = [[mode |-> mode, workload |-> w, target |-> t, load |-> load]
                          EXCEPT !.load = @[worker]]
  BY DEF PlannedFor, Planned
<1> HIDE DEF load, share, mode, w, t
<1>18. [[mode |-> mode, workload |-> w, target |-> t, load |-> load] EXCEPT !.load = @[worker]]
         = [mode |-> mode, target |-> t, workload |-> w, load |-> load[worker]]
  OBVIOUS
<1> QED BY <1>14, <1>16, <1>17, <1>18, Zenon

\* Worker 0 has something to send in every load stage within the bounds, whatever
\* run the stage is in.
LEMMA SomethingToSend ==
  ASSUME scenario \in Scenarios, Shape(scenario.stages), Bounded(scenario), workers \in Nat \ {0},
         NEW first \in DOMAIN scenario.stages, NEW p \in Loads(scenario.stages), first <= p,
         worker = 0
  PROVE  Execute(first, p).load[1] > 0
<1> DEFINE stages == scenario.stages
           s == stages[p]
           gen == FirstLoad(first)
<1>1. PICK l \in Loads(stages) : gen = stages[l] BY FirstLoadFacts
<1>2. \A k \in Loads(stages) : stages[k] \in ScenarioStage
  <2>1. stages \in Seq(ScenarioStage) BY DEF Scenarios
  <2> HIDE DEF stages
  <2> QED BY <2>1 DEF Loads
<1>3. s.concurrency \in Int /\ gen.rate \in Int BY <1>1, <1>2 DEF ScenarioStage
<1>4. Execute(first, p).load = IF ModeOf(gen) \in RateModes THEN Share(ModeOf(gen), gen, workers, worker)
                               ELSE Share(ModeOf(gen), s, workers, worker)
  BY DEF Execute
<1>5. CASE ModeOf(gen) \in RateModes
  <2>1. gen.mode \in RateModes BY <1>5 DEF ModeOf, RateModes
  <2>2. gen.rate > 0 BY <1>1, <2>1 DEF Bounded
  <2>3. Execute(first, p).load = DivideRate(gen.rate, workers) BY <1>4, <1>5, Zenon DEF Share
  <2>4. Execute(first, p).load[1] = gen.rate BY <2>3 DEF DivideRate
  <2> QED BY <2>2, <2>4
<1>6. CASE ModeOf(gen) \notin RateModes
  <2>1. gen.mode \notin RateModes BY <1>6 DEF ModeOf, RateModes
  <2>2. s.concurrency >= 1
    <3>1. CASE \A k \in Loads(stages) : stages[k].concurrency >= 1 BY <3>1
    <3>2. CASE \A j, k \in Loads(stages) : stages[j].mode = stages[k].mode
      <4>1. s.mode = gen.mode BY <1>1, <3>2
      <4>2. s.concurrency > 0 BY <2>1, <4>1 DEF Bounded
      <4> HIDE DEF s
      <4> QED BY <1>3, <4>2
    <3> QED BY <3>1, <3>2 DEF Shape
  <2>3. DivideConcurrency(s.concurrency, workers, 0) > 0 BY <1>3, <2>2, FirstShare
  <2>4. Execute(first, p).load = <<DivideConcurrency(s.concurrency, workers, 0), 1>>
    BY <1>4, <1>6, Zenon DEF Share
  <2>5. Execute(first, p).load[1] = DivideConcurrency(s.concurrency, workers, 0) BY <2>4
  <2> QED BY <2>3, <2>5
<1> QED BY <1>5, <1>6

-----------------------------------------------------------------------------
(* The actions.                                                            *)

\* What a scenario and a division of it determine stays as long as they do.
LEMMA SameScenario ==
  ASSUME UNCHANGED <<scenario, workers, worker>>
  PROVE  /\ \A i, k : CanExtend(i, k)' = CanExtend(i, k)
         /\ Uniform' <=> Uniform
         /\ Sendable' = Sendable
         /\ \A k : PlannedFor(k)' = PlannedFor(k)
         /\ Bounded(scenario)' = Bounded(scenario)
         /\ Filled(scenario.stages)' = Filled(scenario.stages)
         /\ HasCongestionSweep(scenario.stages)' = HasCongestionSweep(scenario.stages)
<1>1. scenario' = scenario /\ workers' = workers /\ worker' = worker OBVIOUS
<1>2. \A k : Resolved(k)' = Resolved(k) BY <1>1 DEF Resolved
<1>3. \A i, k : CanExtend(i, k)' = CanExtend(i, k) BY <1>2, Zenon DEF CanExtend
<1>4. Uniform' <=> Uniform BY <1>1, <1>3 DEF Uniform
<1>5. \A k : FirstLoad(k)' = FirstLoad(k)
  <2> TAKE k
  <2> DEFINE loads == {j \in k..Len(scenario.stages) : ~scenario.stages[j].barrier}
  <2>1. FirstLoad(k) = IF loads = {} THEN BarrierStage ELSE scenario.stages[LeastOf(loads)]
    BY DEF FirstLoad
  <2>2. FirstLoad(k)' = IF loads' = {} THEN BarrierStage ELSE scenario'.stages[LeastOf(loads')]
    BY DEF FirstLoad
  <2>3. loads' = loads BY <1>1
  <2> HIDE DEF loads
  <2> QED BY <1>1, <2>1, <2>2, <2>3
<1>6. \A i, k : Execute(i, k)' = Execute(i, k) BY <1>1, <1>2, <1>5, Zenon DEF Execute
<1>7. Sendable' = Sendable BY <1>1, <1>6 DEF Sendable
<1>8. \A k : PlannedFor(k)' = PlannedFor(k) BY <1>1, Zenon DEF PlannedFor
<1>9. /\ Bounded(scenario)' = Bounded(scenario)
      /\ Filled(scenario.stages)' = Filled(scenario.stages)
      /\ HasCongestionSweep(scenario.stages)' = HasCongestionSweep(scenario.stages)
  BY <1>1, Zenon
<1> QED BY <1>3, <1>4, <1>7, <1>8, <1>9

LEMMA InitInv == Init => IInv
<1> SUFFICES ASSUME Init PROVE IInv OBVIOUS
<1> USE DEF Init
<1>1. scenario \in Scenarios /\ scenario.stages = <<>>
  <2>1. <<>> \in Seq(ScenarioStage) OBVIOUS
  <2> QED BY <2>1, BarrierFacts, TextFacts, ScenarioRecord DEF None
<1>2. Shape(scenario.stages) BY <1>1 DEF Shape, Loads
<1>3. TypeInv BY <1>1, <1>2 DEF TypeInv, Phases, Started
<1>4. AdmitInv BY DEF AdmitInv, Started
<1>5. RunInv /\ StopsOnlyWhenCongested BY DEF RunInv, Started, StopsOnlyWhenCongested
<1> QED BY <1>3, <1>4, <1>5 DEF IInv

LEMMA ParseStep == IInv /\ ParseBenchmarkScenario => IInv'
<1> SUFFICES ASSUME IInv, ParseBenchmarkScenario PROVE IInv' OBVIOUS
<1>1. phase = "submitted" /\ via = "api" /\ phase' \in {"parsed", "rejected"} BY DEF ParseBenchmarkScenario
<1>2. source' = source /\ via' = via /\ executed' = executed /\ run' = run /\ pos' = pos
      /\ worker' = worker
  BY DEF ParseBenchmarkScenario, submission, following
<1>3. source \in Sources /\ scenario \in Scenarios /\ Shape(scenario.stages) /\ executed = <<>> /\ run = 0
      /\ pos \in Nat
  BY <1>1 DEF IInv, TypeInv
<1>4. scenario' \in Scenarios /\ Shape(scenario'.stages) /\ (phase' = "parsed" => Filled(scenario'.stages))
  <2>1. CASE ParseOK(source, TRUE) /\ scenario' = Validated(Compiled(source))
    BY <1>3, <2>1, SourceCompiles
  <2>2. CASE phase' = "rejected" /\ scenario' = scenario BY <1>3, <2>2
  <2> QED BY <2>1, <2>2 DEF ParseBenchmarkScenario
<1>5. TypeInv'
  <2>1. executed' \in Seq(Sendable') BY <1>2, <1>3
  <2> QED BY <1>1, <1>2, <1>3, <1>4, <2>1 DEF TypeInv, Phases, Started
<1>6. AdmitInv' BY <1>1, <1>2, <1>3, <1>4 DEF AdmitInv, Started
<1>7. RunInv' /\ StopsOnlyWhenCongested' BY <1>1 DEF RunInv, Started, StopsOnlyWhenCongested
<1> QED BY <1>5, <1>6, <1>7 DEF IInv

LEMMA PlanStep == IInv /\ PlanBenchmark => IInv'
<1> SUFFICES ASSUME IInv, PlanBenchmark PROVE IInv' OBVIOUS
<1>1. phase = "parsed" /\ phase' \in {"planned", "rejected"} BY DEF PlanBenchmark
<1>2. source' = source /\ via' = via /\ scenario' = scenario /\ executed' = executed /\ run' = run
      /\ pos' = pos /\ worker' = worker
  BY DEF PlanBenchmark, submission
<1>3. source \in Sources /\ via = "api" /\ scenario \in Scenarios /\ Shape(scenario.stages)
      /\ executed = <<>> /\ run = 0 /\ pos \in Nat
  BY <1>1 DEF IInv, TypeInv
<1>4. Filled(scenario.stages) BY <1>1, <1>3 DEF IInv, AdmitInv
<1>5. ASSUME phase' = "planned" PROVE Bounded(scenario) /\ workers' \in Nat \ {0}
  <2>1. PICK n : ValidateScenarioBounds(scenario) /\ PrepareRunOK(n) /\ workers' = n
    BY <1>5 DEF PlanBenchmark
  <2>2. n \in Nat \ {0}
    <3>1. MaxWorkers \in Nat \ {0} BY ConfigurationAssumption
    <3> QED BY <2>1, <3>1 DEF PrepareRunOK
  <2>3. MaxConcurrency \in Nat BY ConfigurationAssumption
  <2>4. scenario.workload.kind # "unsupported"
        /\ \A k \in DOMAIN scenario.stages : scenario.stages[k].workload.kind # "unsupported"
    BY <2>1 DEF ValidateScenarioBounds, ValidateWorkloadBounds
  <2>5. ASSUME NEW k \in Loads(scenario.stages)
        PROVE  /\ scenario.stages[k].concurrency >= 0
               /\ scenario.stages[k].mode \in RateModes => scenario.stages[k].rate > 0
               /\ scenario.stages[k].mode \notin RateModes => scenario.stages[k].concurrency > 0
    <3>1. k \in DOMAIN scenario.stages /\ ~scenario.stages[k].barrier BY DEF Loads
    <3>2. /\ scenario.stages[k].concurrency \in 0..MaxConcurrency
          /\ IF scenario.stages[k].mode \in RateModes THEN scenario.stages[k].rate > 0
             ELSE scenario.stages[k].concurrency > 0
      BY <2>1, <3>1, Zenon DEF ValidateScenarioBounds
    <3> QED BY <2>3, <3>2
  <2> QED BY <2>1, <2>2, <2>4, <2>5 DEF Bounded
<1>6. TypeInv'
  <2>1. executed' \in Seq(Sendable') BY <1>2, <1>3
  <2> QED BY <1>1, <1>2, <1>3, <2>1 DEF TypeInv, Phases, Started
<1>7. AdmitInv' BY <1>1, <1>2, <1>3, <1>4, <1>5 DEF AdmitInv, Started
<1>8. RunInv' /\ StopsOnlyWhenCongested' BY <1>1 DEF RunInv, Started, StopsOnlyWhenCongested
<1> QED BY <1>6, <1>7, <1>8 DEF IInv

\* The scenario of a distributed run.
LEMMA WithBarrier ==
  ASSUME NEW sc \in Scenarios, Shape(sc.stages), Filled(sc.stages)
  PROVE  LET b == [sc EXCEPT !.stages = InsertImplicitBarrier(@)]
         IN /\ b \in Scenarios /\ Shape(b.stages) /\ Filled(b.stages)
            /\ Bounded(sc) => Bounded(b)
<1> DEFINE list == InsertImplicitBarrier(sc.stages)
           b == [sc EXCEPT !.stages = list]
<1>1. sc.stages \in Seq(ScenarioStage) /\ sc.workload \in Workloads /\ sc.target \in Texts
  BY DEF Scenarios
<1>2. /\ list \in Seq(ScenarioStage)
      /\ \A k \in DOMAIN list :
           list[k] = BarrierStage \/ \E j \in DOMAIN sc.stages : list[k] = sc.stages[j]
  BY <1>1, BarrierInFront
<1> HIDE DEF list
<1>3. b \in Scenarios /\ b.stages = list /\ b.workload = sc.workload
  <2>1. b \in Scenarios BY <1>2 DEF Scenarios
  <2>2. b.stages = list BY <1>2 DEF Scenarios
  <2>3. b.workload = sc.workload BY <1>2 DEF Scenarios
  <2> QED BY <2>1, <2>2, <2>3
<1>4. Shape(list) /\ Filled(list) BY <1>2, MoreBarriers
<1>5. ASSUME Bounded(sc) PROVE Bounded(b)
  <2>1. sc.workload.kind # "unsupported" BY <1>5 DEF Bounded
  <2>2. \A k \in DOMAIN list : list[k].workload.kind # "unsupported"
    <3> TAKE k \in DOMAIN list
    <3>1. CASE list[k] = BarrierStage BY <3>1, BarrierFacts
    <3>2. CASE \E j \in DOMAIN sc.stages : list[k] = sc.stages[j] BY <1>5, <3>2 DEF Bounded
    <3> QED BY <1>2, <3>1, <3>2
  <2>3. \A k \in Loads(list) : \E j \in Loads(sc.stages) : list[k] = sc.stages[j]
    BY <1>2, BarrierFacts, Zenon DEF Loads
  <2>4. \A k \in Loads(list) :
          /\ list[k].concurrency >= 0
          /\ list[k].mode \in RateModes => list[k].rate > 0
          /\ list[k].mode \notin RateModes => list[k].concurrency > 0
    BY <1>5, <2>3 DEF Bounded
  <2> HIDE DEF b
  <2> QED BY <1>3, <2>1, <2>2, <2>4 DEF Bounded
<1> HIDE DEF b
<1> QED BY <1>3, <1>4, <1>5 DEF b, list

\* The kinds of workload.
LEMMA WorkloadKinds ==
  ASSUME NEW w \in Workloads, ~BuildDatasetOK(w), w.kind # "unsupported"
  PROVE  w.kind = "fewshot"
BY DEF Workloads, BuildDatasetOK

LEMMA StartStep == IInv /\ StartRunner => IInv'
<1> SUFFICES ASSUME IInv, StartRunner PROVE IInv' OBVIOUS
<1> DEFINE sc == Validated(IF via = "api" THEN scenario ELSE Compiled(source))
           n == RunnerWorkers(sc)
           Ready == /\ IF via = "api" THEN ValidateOK(scenario.stages) ELSE ParseOK(source, FALSE)
                    /\ HasCongestionSweep(sc.stages) => deploy # "none"
                    /\ n >= 1
                    /\ BuildDatasetOK(sc.workload)
<1>1. \/ phase = "planned" /\ via = "api"
      \/ phase = "submitted" /\ via = "cli"
  BY DEF StartRunner, IInv, TypeInv
<1>2. source' = source /\ via' = via /\ executed' = executed /\ run' = run
  BY DEF StartRunner, submission
<1>3. source \in Sources /\ scenario \in Scenarios /\ Shape(scenario.stages) /\ executed = <<>>
      /\ run = 0 /\ pos \in Nat
  BY <1>1 DEF IInv, TypeInv
<1>4. ASSUME via = "api"
      PROVE  Filled(scenario.stages) /\ Bounded(scenario) /\ workers \in Nat \ {0} /\ sc = scenario
             /\ ValidateOK(scenario.stages) /\ n = workers
  <2>1. Filled(scenario.stages) /\ Bounded(scenario) /\ workers \in Nat \ {0}
    BY <1>1, <1>4 DEF IInv, AdmitInv
  <2>2. sc = scenario /\ ValidateOK(scenario.stages) BY <1>3, <1>4, <2>1, ValidatedAgain
  <2>3. n = workers BY <1>4 DEF RunnerWorkers
  <2> QED BY <2>1, <2>2, <2>3
<1>5. executed' \in Seq(Sendable') BY <1>2, <1>3
<1>6. CASE Ready
  <2>1. sc \in Scenarios /\ Shape(sc.stages) /\ Filled(sc.stages)
    <3>1. CASE via = "api" BY <1>3, <1>4, <3>1
    <3>2. CASE via # "api"
      <4>1. ParseOK(source, FALSE) /\ sc = Validated(Compiled(source)) BY <1>6, <3>2
      <4> QED BY <1>3, <4>1, SourceCompiles
    <3> QED BY <3>1, <3>2
  <2>2. /\ scenario' = IF n > 1 THEN [sc EXCEPT !.stages = InsertImplicitBarrier(@)] ELSE sc
        /\ workers' = n /\ worker' \in WorkerIds(n) /\ phase' = "running" /\ pos' = 1
    BY <1>6 DEF StartRunner
  <2> HIDE DEF sc, n
  <2>3. scenario' \in Scenarios /\ Shape(scenario'.stages) /\ Filled(scenario'.stages)
    BY <2>1, <2>2, WithBarrier
  <2>4. TypeInv'
    BY <1>1, <1>2, <1>3, <1>5, <2>2, <2>3 DEF TypeInv, Phases, Started
  <2>5. AdmitInv'
    <3>1. via = "api" => Bounded(scenario')
      <4> HAVE via = "api"
      <4>1. Bounded(sc) BY <1>4 DEF sc
      <4> QED BY <2>1, <2>2, <4>1, WithBarrier
    <3>2. via = "api" => workers' \in Nat \ {0} BY <1>4, <2>2 DEF n
    <3> QED BY <1>2, <1>3, <2>2, <2>3, <3>1, <3>2 DEF AdmitInv, Started
  <2>6. RunInv'
    <3>1. Len(scenario'.stages) \in Nat /\ DOMAIN scenario'.stages = 1..Len(scenario'.stages)
      <4>1. scenario'.stages \in Seq(ScenarioStage) BY <2>3 DEF Scenarios
      <4> QED BY <4>1
    <3>2. Past' = 0 BY <2>2 DEF Past
    <3>3. {k \in Loads(scenario'.stages) : k <= 0} = {} BY <3>1 DEF Loads
    <3>4. Len(executed') = 0 BY <1>2, <1>3
    <3>5. Cardinality({k \in Loads(scenario'.stages) : k <= 0}) = 0 BY <3>3, FS_EmptySet
    <3>6. Len(executed') = Cardinality({k \in Loads(scenario'.stages) : k <= Past'})
      BY <3>2, <3>4, <3>5
    <3>7. \A m \in 1..Len(executed') : executed'[m] = PlannedFor(Nth(Loads(scenario.stages), m))'
      BY <3>4
    <3>8. pos' \in 1..(Len(scenario'.stages) + 1) /\ run' = 0 /\ run' \in 0..Past'
          /\ phase' # "complete"
      BY <1>2, <1>3, <2>2, <3>1, <3>2
    <3> QED BY <3>6, <3>7, <3>8 DEF RunInv
  <2>7. StopsOnlyWhenCongested' BY <2>2 DEF StopsOnlyWhenCongested
  <2> QED BY <2>4, <2>5, <2>6, <2>7 DEF IInv
<1>7. CASE ~Ready
  <2>1. phase' = "failed" /\ UNCHANGED <<scenario, workers, worker, pos>>
    BY <1>7 DEF StartRunner, following
  <2>2. TypeInv'
    <3>1. scenario' \in Scenarios /\ Shape(scenario'.stages) /\ pos' \in Nat /\ run' \in Nat
      BY <1>2, <1>3, <2>1
    <3>2. phase' \notin Started /\ phase' \in Phases /\ phase' \notin {"submitted", "parsed", "planned", "rejected"}
      BY <2>1 DEF Phases, Started
    <3>3. phase' # "parsed" /\ phase' # "planned" BY <2>1
    <3>4. source' \in Sources /\ via' \in {"api", "cli"} BY <1>1, <1>2, <1>3
    <3> QED BY <1>5, <3>1, <3>2, <3>3, <3>4 DEF TypeInv
  <2>3. AdmitInv'
    <3> SUFFICES ASSUME via = "api" PROVE AdmitInv' BY <1>2 DEF AdmitInv
    <3>1. Bounded(scenario)' BY <1>4, <2>1, SameScenario
    <3>2. \/ HasCongestionSweep(scenario.stages)
          \/ scenario.workload.kind = "fewshot"
      <4>1. HasCongestionSweep(sc.stages) \/ ~(n >= 1) \/ ~BuildDatasetOK(sc.workload)
        BY <1>4, <1>7
      <4>2. sc = scenario /\ n \in Nat \ {0} BY <1>4
      <4> HIDE DEF sc, n
      <4>3. HasCongestionSweep(scenario.stages) \/ ~BuildDatasetOK(scenario.workload)
        BY <4>1, <4>2
      <4>4. scenario.workload \in Workloads BY <1>3 DEF Scenarios
      <4>5. scenario.workload.kind # "unsupported" BY <1>4 DEF Bounded
      <4> QED BY <4>3, <4>4, <4>5, WorkloadKinds
    <3> QED BY <1>2, <1>3, <2>1, <3>1, <3>2 DEF AdmitInv, Started
  <2>4. RunInv' /\ StopsOnlyWhenCongested' BY <2>1 DEF RunInv, Started, StopsOnlyWhenCongested
  <2> QED BY <2>2, <2>3, <2>4 DEF IInv
<1> QED BY <1>6, <1>7

LEMMA RunStep == IInv /\ RunStage => IInv'
<1> SUFFICES ASSUME IInv, RunStage PROVE IInv' OBVIOUS
<1> DEFINE stages == scenario.stages
           first == IF run # 0 /\ CanExtend(run, pos) THEN run ELSE pos
           s == stages[pos]
           Ready == BuildDatasetOK(Resolved(first).workload)
           Upto(p) == {k \in Loads(stages) : k <= p}
           send == Execute(first, pos)
<1>1. phase = "running" /\ pos <= Len(stages) BY DEF RunStage
<1>2. source' = source /\ via' = via /\ scenario' = scenario /\ workers' = workers /\ worker' = worker
      /\ signals' = <<>>
  BY DEF RunStage, submission, following
<1>3. source \in Sources /\ via \in {"api", "cli"} /\ scenario \in Scenarios /\ Shape(scenario.stages)
      /\ run \in Nat /\ pos \in Nat /\ executed \in Seq(Sendable) /\ worker \in WorkerIds(workers)
  BY <1>1 DEF IInv, TypeInv, Started
<1>4. Len(stages) \in Nat /\ DOMAIN stages = 1..Len(stages)
      /\ \A k \in 1..Len(stages) : stages[k] \in ScenarioStage
  <2>1. stages \in Seq(ScenarioStage) BY <1>3 DEF Scenarios
  <2> HIDE DEF stages
  <2> QED BY <2>1
<1>5. Past = pos - 1 BY <1>1 DEF Past
<1>6. /\ pos \in 1..(Len(stages) + 1) /\ run \in 0..(pos - 1)
      /\ run # 0 => \A j \in run..(pos - 1) : CanExtend(run, j)
      /\ Len(executed) = Cardinality(Upto(pos - 1))
      /\ Uniform => \A m \in 1..Len(executed) : executed[m] = PlannedFor(Nth(Loads(stages), m))
  BY <1>1, <1>5 DEF IInv, RunInv, Started
<1>7. pos \in 1..Len(stages) BY <1>1, <1>3, <1>4, <1>6
<1>8. first \in 1..pos /\ first \in DOMAIN stages /\ first <= pos /\ \A j \in first..pos : CanExtend(first, j)
  <2>1. CASE run # 0 /\ CanExtend(run, pos)
    <3>1. first = run BY <2>1
    <3>2. \A j \in run..pos : j \in run..(pos - 1) \/ j = pos BY <1>3
    <3>3. \A j \in run..pos : CanExtend(run, j) BY <1>6, <2>1, <3>2
    <3>4. run \in 1..pos /\ run \in DOMAIN stages /\ run <= pos BY <1>3, <1>4, <1>6, <1>7, <2>1
    <3> QED BY <3>1, <3>3, <3>4
  <2>2. CASE ~(run # 0 /\ CanExtend(run, pos))
    <3>1. first = pos BY <2>2
    <3>2. \A j \in pos..pos : j = pos BY <1>3
    <3>3. CanExtend(pos, pos) BY CanExtendFacts
    <3>4. pos \in 1..pos /\ pos <= pos /\ pos \in DOMAIN stages BY <1>3, <1>4, <1>7
    <3> HIDE DEF first
    <3> QED BY <3>1, <3>2, <3>3, <3>4
  <2> QED BY <2>1, <2>2
<1> HIDE DEF first
<1>9. CASE Ready
  <2>1. /\ run' = first
        /\ executed' = IF s.barrier THEN executed ELSE Append(executed, send)
        /\ IF s.barrier \/ s.warmup THEN pos' = pos + 1 /\ phase' = "running"
           ELSE phase' = "complete" /\ pos' = pos
    BY <1>1, <1>9 DEF RunStage, first
  <2>2. phase' \in {"running", "complete"} /\ Past' = pos /\ pos' \in 1..(Len(stages) + 1) /\ pos' \in Nat
    <3>1. CASE s.barrier \/ s.warmup
      <4>1. pos' = pos + 1 /\ phase' = "running" BY <2>1, <3>1
      <4> QED BY <1>4, <1>7, <4>1 DEF Past
    <3>2. CASE ~(s.barrier \/ s.warmup)
      <4>1. pos' = pos /\ phase' = "complete" BY <2>1, <3>2
      <4> QED BY <1>3, <1>4, <1>7, <4>1 DEF Past
    <3> QED BY <3>1, <3>2
  <2>3. send \in Sendable BY <1>4, <1>7, <1>8 DEF Sendable
  <2>4. /\ executed' \in Seq(Sendable) /\ Len(executed) \in Nat
        /\ s.barrier => executed' = executed
        /\ ~s.barrier =>
             /\ Len(executed') = Len(executed) + 1 /\ executed'[Len(executed) + 1] = send
             /\ \A m \in 1..Len(executed) : executed'[m] = executed[m]
    <3> HIDE DEF send
    <3> QED BY <1>3, <2>1, <2>3
  <2>5. Loads(stages) \subseteq 1..Len(stages) /\ (pos \in Loads(stages) <=> ~s.barrier)
    BY <1>4, <1>7 DEF Loads
  <2>6. /\ ~s.barrier => Cardinality(Upto(pos)) = Cardinality(Upto(pos - 1)) + 1
        /\ s.barrier => Cardinality(Upto(pos)) = Cardinality(Upto(pos - 1))
    <3> DEFINE q == pos - 1
    <3>1. q \in Nat /\ q + 1 = pos BY <1>7
    <3> HIDE DEF q
    <3>2. /\ q + 1 \in Loads(stages) => Cardinality(Upto(q + 1)) = Cardinality(Upto(q)) + 1
          /\ q + 1 \notin Loads(stages) => Cardinality(Upto(q + 1)) = Cardinality(Upto(q))
      <4> HIDE DEF stages
      <4> QED BY <1>4, <2>5, <3>1, CountStep
    <3>3. /\ pos \in Loads(stages) => Cardinality(Upto(pos)) = Cardinality(Upto(q)) + 1
          /\ pos \notin Loads(stages) => Cardinality(Upto(pos)) = Cardinality(Upto(q))
      BY <3>1, <3>2
    <3> HIDE DEF Upto
    <3> QED BY <2>5, <3>3 DEF q
  <2>7. Len(executed') = Cardinality(Upto(pos))
    <3> HIDE DEF Upto
    <3> QED BY <1>6, <2>4, <2>6
  <2>8. ASSUME Uniform, NEW m \in 1..Len(executed')
        PROVE  executed'[m] = PlannedFor(Nth(Loads(stages), m))
    <3>1. CASE s.barrier BY <1>6, <2>4, <2>8, <3>1
    <3>2. CASE ~s.barrier
      <4>1. CASE m \in 1..Len(executed) BY <1>6, <2>4, <2>8, <3>2, <4>1
      <4>2. CASE m \notin 1..Len(executed)
        <5>1. m = Len(executed) + 1 /\ m = Cardinality(Upto(pos)) BY <2>4, <2>7, <2>8, <3>2, <4>2
        <5>2. Nth(Loads(stages), Cardinality(Upto(pos))) = pos
          <6> HIDE DEF stages
          <6> QED BY <1>4, <2>5, <3>2, NthOfRank
        <5>3. send = PlannedFor(pos)
          <6>1. pos \in Loads(stages) BY <2>5, <3>2
          <6> QED BY <1>3, <1>8, <2>8, <6>1, ExecutesPlan
        <5> HIDE DEF send, Upto, stages
        <5> QED BY <2>4, <3>2, <5>1, <5>2, <5>3
      <4> QED BY <4>1, <4>2
    <3> QED BY <3>1, <3>2
  <2>9. TypeInv'
    <3>1. executed' \in Seq(Sendable') BY <1>2, <2>4, SameScenario
    <3>2. run' \in Nat BY <1>3, <1>8, <2>1
    <3> HIDE DEF send
    <3> QED BY <1>2, <1>3, <2>2, <3>1, <3>2 DEF TypeInv, Phases
  <2>10. AdmitInv'
    <3> SUFFICES ASSUME via = "api" PROVE AdmitInv' BY <1>2 DEF AdmitInv
    <3>1. /\ Filled(scenario.stages) /\ Bounded(scenario) /\ workers \in Nat \ {0}
          /\ worker = 0 => \A m \in DOMAIN executed : executed[m].load[1] > 0
      BY <1>1 DEF IInv, AdmitInv, Started
    <3>2. Filled(scenario.stages)' /\ Bounded(scenario)' BY <1>2, <3>1, SameScenario
    <3>3. ASSUME worker = 0, NEW m \in DOMAIN executed' PROVE executed'[m].load[1] > 0
      <4>1. DOMAIN executed = 1..Len(executed) /\ DOMAIN executed' = 1..Len(executed')
        <5> HIDE DEF send
        <5> QED BY <1>3, <2>4
      <4>2. CASE s.barrier BY <2>4, <3>1, <3>3, <4>2
      <4>3. CASE ~s.barrier
        <5>1. CASE m \in 1..Len(executed) BY <2>4, <3>1, <3>3, <4>1, <4>3, <5>1
        <5>2. CASE m \notin 1..Len(executed)
          <6>1. m = Len(executed) + 1
            <7>1. Len(executed) \in Nat /\ Len(executed') = Len(executed) + 1 BY <2>4, <4>3
            <7>2. m \in 1..Len(executed') BY <3>3, <4>1
            <7> QED BY <5>2, <7>1, <7>2
          <6>2. send.load[1] > 0
            <7>1. pos \in Loads(stages) BY <2>5, <4>3
            <7> QED BY <1>3, <1>8, <3>1, <3>3, <7>1, SomethingToSend
          <6> HIDE DEF send
          <6> QED BY <2>4, <4>3, <6>1, <6>2
        <5> QED BY <5>1, <5>2
      <4> QED BY <4>2, <4>3
    <3>4. phase' # "failed" /\ workers' \in Nat \ {0} BY <1>2, <2>2, <3>1
    <3> HIDE DEF send
    <3> QED BY <1>2, <3>2, <3>3, <3>4 DEF AdmitInv
  <2>11. RunInv'
    <3>1. phase' = "complete" => pos' <= Len(stages) /\ ~stages[pos'].barrier /\ ~stages[pos'].warmup
      <4> HAVE phase' = "complete"
      <4>1. ~(s.barrier \/ s.warmup) /\ pos' = pos BY <2>1
      <4> QED BY <1>1, <4>1
    <3>2. run' \in 0..Past' BY <1>3, <1>8, <2>1, <2>2
    <3>3. run' # 0 => \A j \in run'..Past' : CanExtend(run, j)'
      <4>1. \A i, k : CanExtend(i, k)' = CanExtend(i, k) BY <1>2, SameScenario
      <4>2. \A j \in run'..Past' : CanExtend(first, j) BY <1>8, <2>1, <2>2
      <4> QED BY <2>1, <4>1, <4>2
    <3>4. Len(executed') = Cardinality({k \in Loads(stages) : k <= Past'}) BY <2>2, <2>7
    <3>5. Uniform' => \A m \in 1..Len(executed') : executed'[m] = PlannedFor(Nth(Loads(scenario.stages), m))'
      <4>1. Uniform' <=> Uniform BY <1>2, SameScenario
      <4>2. \A k : PlannedFor(k)' = PlannedFor(k) BY <1>2, SameScenario
      <4>3. \A m : PlannedFor(Nth(Loads(scenario.stages), m))' = PlannedFor(Nth(Loads(scenario.stages), m))
        BY <1>2, <4>2
      <4> QED BY <2>8, <4>1, <4>3
    <3> HIDE DEF send
    <3> QED BY <1>2, <2>2, <3>1, <3>2, <3>3, <3>4, <3>5 DEF RunInv
  <2>12. StopsOnlyWhenCongested'
    <3> SUFFICES ASSUME phase' = "running" PROVE StopsOnlyWhenCongested'
      BY <2>2 DEF StopsOnlyWhenCongested
    <3>1. (s.barrier \/ s.warmup) /\ pos' = pos + 1 BY <2>1
    <3>2. pos' - 1 = pos BY <1>3, <3>1
    <3>3. ~(s.stop /\ ~s.warmup)
      <4>1. CASE s.barrier
        <5>1. s = BarrierStage BY <1>3, <1>4, <1>7, <4>1 DEF Shape
        <5> QED BY <5>1, BarrierFacts
      <4>2. CASE s.warmup BY <4>2
      <4> QED BY <3>1, <4>1, <4>2
    <3>4. scenario'.stages[pos' - 1] = s BY <1>2, <3>2
    <3> HIDE DEF s
    <3> QED BY <3>3, <3>4 DEF StopsOnlyWhenCongested
  <2> QED BY <2>9, <2>10, <2>11, <2>12 DEF IInv
<1>10. CASE ~Ready
  <2>1. phase' = "failed" /\ run' = run /\ executed' = executed /\ pos' = pos
    BY <1>10 DEF RunStage, first
  <2>2. TypeInv'
    <3>1. executed' \in Seq(Sendable') BY <1>2, <1>3, <2>1, SameScenario
    <3>2. phase' \notin Started /\ phase' \in Phases
          /\ phase' \notin {"submitted", "parsed", "planned", "rejected"}
      BY <2>1 DEF Phases, Started
    <3>3. phase' # "parsed" /\ phase' # "planned" BY <2>1
    <3> QED BY <1>2, <1>3, <2>1, <3>1, <3>2, <3>3 DEF TypeInv
  <2>3. AdmitInv'
    <3> SUFFICES ASSUME via = "api" PROVE AdmitInv' BY <1>2 DEF AdmitInv
    <3>1. /\ Bounded(scenario)
          /\ worker = 0 => \A m \in DOMAIN executed : executed[m].load[1] > 0
      BY <1>1 DEF IInv, AdmitInv, Started
    <3>2. Bounded(scenario)' BY <1>2, <3>1, SameScenario
    <3>3. PICK l \in DOMAIN stages : Resolved(first) = stages[l]
      <4>1. Resolved(first) # BarrierStage BY <1>10, BarrierFacts DEF BuildDatasetOK
      <4>2. \E l \in Loads(stages) : Resolved(first) = stages[l]
        BY <1>3, <1>8, <4>1, ResolvedFacts
      <4> QED BY <4>2 DEF Loads
    <3>4. stages[l].workload \in Workloads BY <1>4, <3>3 DEF ScenarioStage
    <3>5. stages[l].workload.kind = "fewshot"
      BY <1>10, <3>1, <3>3, <3>4, WorkloadKinds DEF Bounded
    <3>6. "fewshot" \in {scenario.workload.kind}
                         \cup {scenario.stages[k].workload.kind : k \in DOMAIN scenario.stages}
      BY <3>3, <3>5
    <3> QED BY <1>2, <2>1, <3>1, <3>2, <3>6 DEF AdmitInv, Started
  <2>4. RunInv' /\ StopsOnlyWhenCongested' BY <2>1 DEF RunInv, Started, StopsOnlyWhenCongested
  <2> QED BY <2>2, <2>3, <2>4 DEF IInv
<1> QED BY <1>9, <1>10

LEMMA CompleteStep == IInv /\ OnStageComplete => IInv'
<1> SUFFICES ASSUME IInv, OnStageComplete PROVE IInv' OBVIOUS
<1> DEFINE stages == scenario.stages
           s == stages[pos]
           M == {k \in Loads(stages) : ~stages[k].warmup}
           rank == Cardinality({j \in M : j <= pos})
<1>1. phase = "complete" /\ pos' = pos + 1 /\ phase' \in {"running", "stopped"}
  BY DEF OnStageComplete, CheckStageCongestion
<1>2. source' = source /\ via' = via /\ deploy' = deploy /\ scenario' = scenario /\ workers' = workers
      /\ worker' = worker /\ run' = run /\ executed' = executed
  BY DEF OnStageComplete, submission, following
<1>3. source \in Sources /\ via \in {"api", "cli"} /\ scenario \in Scenarios /\ Shape(scenario.stages)
      /\ run \in Nat /\ pos \in Nat /\ executed \in Seq(Sendable) /\ worker \in WorkerIds(workers)
  BY <1>1 DEF IInv, TypeInv, Started
<1>4. Len(stages) \in Nat /\ DOMAIN stages = 1..Len(stages)
  <2>1. stages \in Seq(ScenarioStage) BY <1>3 DEF Scenarios
  <2> HIDE DEF stages
  <2> QED BY <2>1
<1>5. Past = pos /\ Past' = pos BY <1>1, <1>3 DEF Past
<1>6. /\ pos \in 1..(Len(stages) + 1) /\ run \in 0..pos
      /\ pos <= Len(stages) /\ ~s.barrier /\ ~s.warmup
      /\ run # 0 => \A j \in run..pos : CanExtend(run, j)
      /\ Len(executed) = Cardinality({k \in Loads(stages) : k <= pos})
      /\ Uniform => \A m \in 1..Len(executed) : executed[m] = PlannedFor(Nth(Loads(stages), m))
  BY <1>1, <1>5 DEF IInv, RunInv, Started
<1>7. TypeInv'
  <2>1. executed' \in Seq(Sendable') BY <1>2, <1>3, SameScenario
  <2>2. pos' \in Nat BY <1>1, <1>3
  <2> QED BY <1>1, <1>2, <1>3, <2>1, <2>2 DEF TypeInv, Phases
<1>8. AdmitInv'
  <2> SUFFICES ASSUME via = "api" PROVE AdmitInv' BY <1>2 DEF AdmitInv
  <2>1. /\ Filled(scenario.stages) /\ Bounded(scenario) /\ workers \in Nat \ {0}
        /\ worker = 0 => \A m \in DOMAIN executed : executed[m].load[1] > 0
    BY <1>1 DEF IInv, AdmitInv, Started
  <2>2. Filled(scenario.stages)' /\ Bounded(scenario)' BY <1>2, <2>1, SameScenario
  <2>3. phase' # "failed" BY <1>1
  <2> QED BY <1>2, <2>1, <2>2, <2>3 DEF AdmitInv
<1>9. RunInv'
  <2>1. phase' # "complete" /\ pos' \in 1..(Len(stages) + 1) BY <1>1, <1>3, <1>4, <1>6
  <2>2. run' # 0 => \A j \in run'..Past' : CanExtend(run, j)'
    <3>1. \A i, k : CanExtend(i, k)' = CanExtend(i, k) BY <1>2, SameScenario
    <3> QED BY <1>2, <1>5, <1>6, <3>1
  <2>3. Uniform' => \A m \in 1..Len(executed') : executed'[m] = PlannedFor(Nth(Loads(scenario.stages), m))'
    <3>1. Uniform' <=> Uniform BY <1>2, SameScenario
    <3>2. \A k : PlannedFor(k)' = PlannedFor(k) BY <1>2, SameScenario
    <3>3. \A m : PlannedFor(Nth(Loads(scenario.stages), m))' = PlannedFor(Nth(Loads(scenario.stages), m))
      BY <1>2, <3>2
    <3> QED BY <1>2, <1>6, <3>1, <3>3
  <2> QED BY <1>2, <1>5, <1>6, <2>1, <2>2, <2>3 DEF RunInv
<1>10. MeasuredConditions(stages)[MeasuredIndex] = s
  <2>1. {k \in 1..pos : ~scenario.stages[k].barrier /\ ~scenario.stages[k].warmup} = {j \in M : j <= pos}
    BY <1>3, <1>4, <1>6 DEF Loads
  <2>2. MeasuredIndex = rank BY <2>1 DEF MeasuredIndex
  <2>3. M \subseteq 1..Len(stages) /\ pos \in M BY <1>3, <1>4, <1>6 DEF Loads
  <2>4. rank \in 1..Cardinality(M) /\ Nth(M, rank) = pos
    <3> HIDE DEF stages, M
    <3> QED BY <1>4, <2>3, NthOfRank
  <2>5. MeasuredConditions(stages) = EntriesAt(stages, M) BY DEF MeasuredConditions
  <2> HIDE DEF M, rank
  <2>6. EntriesAt(stages, M)[rank] = stages[Nth(M, rank)] BY <2>4 DEF EntriesAt
  <2> QED BY <2>2, <2>4, <2>5, <2>6
<1>11. StopsOnlyWhenCongested'
  <2>1. scenario'.stages[pos' - 1] = s
    <3>1. pos' - 1 = pos BY <1>1, <1>3
    <3> QED BY <1>2, <3>1
  <2>2. CASE ~s.stop
    <3>1. phase' = "running" BY <1>10, <2>2 DEF OnStageComplete
    <3> HIDE DEF s
    <3> QED BY <2>1, <2>2, <3>1 DEF StopsOnlyWhenCongested
  <2>3. CASE s.stop
    <3>1. CheckStageCongestion BY <1>10, <2>3 DEF OnStageComplete
    <3>2. PICK truth \in [Roles -> SUBSET Signals] :
            \E seen \in {o \in [Roles -> SUBSET Signals] : \A r \in Roles : o[r] \subseteq truth[r]} :
              /\ signals' = truth /\ unanswered' = (seen # truth)
              /\ phase' = IF Congested(seen) THEN "stopped" ELSE "running"
      BY <3>1 DEF CheckStageCongestion
    <3>3. PICK seen \in {o \in [Roles -> SUBSET Signals] : \A r \in Roles : o[r] \subseteq truth[r]} :
            /\ signals' = truth /\ unanswered' = (seen # truth)
            /\ phase' = IF Congested(seen) THEN "stopped" ELSE "running"
      BY <3>2
    <3>4. DOMAIN truth = Roles /\ \A r \in Roles : seen[r] \subseteq truth[r] OBVIOUS
    <3>5. Congested(seen) => TrulyCongested' BY <3>3, <3>4 DEF Congested, TrulyCongested
    <3>6. TrulyCongested' => Congested(truth) BY <3>3, <3>4 DEF Congested, TrulyCongested
    <3>7. signals' # <<>>
      <4>1. Roles # {} BY DEF Roles
      <4>2. DOMAIN signals' # {} BY <3>3, <3>4, <4>1
      <4>3. DOMAIN <<>> = {} OBVIOUS
      <4> QED BY <4>2, <4>3
    <3>8. phase' = "stopped" => TrulyCongested' BY <3>3, <3>5
    <3>9. TrulyCongested' /\ phase' = "running" => unanswered' BY <3>3, <3>6
    <3>10. s.stop /\ ~s.warmup BY <1>6, <2>3
    <3> HIDE DEF s
    <3> QED BY <2>1, <3>7, <3>8, <3>9, <3>10 DEF StopsOnlyWhenCongested
  <2> QED BY <2>2, <2>3
<1> QED BY <1>7, <1>8, <1>9, <1>11 DEF IInv

\* The runner is done, or nothing changes.
LEMMA RestStep ==
  ASSUME IInv, UNCHANGED <<submission, scenario, plan, following, pos, run, executed, signals, unanswered>>,
         phase' = phase \/ (phase = "running" /\ phase' = "done")
  PROVE  IInv'
<1>1. source' = source /\ via' = via /\ deploy' = deploy /\ scenario' = scenario /\ workers' = workers
      /\ worker' = worker /\ run' = run /\ pos' = pos /\ executed' = executed /\ signals' = signals
      /\ unanswered' = unanswered
  BY DEF submission, following
<1>2. TypeInv /\ AdmitInv /\ RunInv /\ StopsOnlyWhenCongested BY DEF IInv
<1>3. TypeInv'
  <2>1. Sendable' = Sendable BY <1>1, SameScenario
  <2>2. phase' \in Phases /\ (phase' \in Started => phase \in Started)
        /\ (phase' \in {"submitted", "parsed", "planned", "rejected"} => phase' = phase)
        /\ (phase' = "parsed" => phase' = phase) /\ (phase' = "planned" => phase' = phase)
    BY <1>2 DEF TypeInv, Phases, Started
  <2> QED BY <1>1, <1>2, <2>1, <2>2 DEF TypeInv
<1>4. AdmitInv'
  <2>1. Filled(scenario.stages)' = Filled(scenario.stages) /\ Bounded(scenario)' = Bounded(scenario)
        /\ HasCongestionSweep(scenario.stages)' = HasCongestionSweep(scenario.stages)
    BY <1>1, SameScenario
  <2> QED BY <1>1, <1>2, <2>1 DEF AdmitInv, Started
<1>5. RunInv'
  <2>1. \A i, k : CanExtend(i, k)' = CanExtend(i, k) BY <1>1, SameScenario
  <2>2. Uniform' <=> Uniform BY <1>1, SameScenario
  <2>3. \A k : PlannedFor(k)' = PlannedFor(k) BY <1>1, SameScenario
  <2>4. Past' = Past BY <1>1 DEF Past
  <2>5. (phase' \in Started => phase \in Started) /\ (phase' = "complete" => phase = "complete")
    BY DEF Started
  <2> QED BY <1>1, <1>2, <2>1, <2>2, <2>3, <2>4, <2>5 DEF RunInv
<1>6. StopsOnlyWhenCongested'
  <2>1. TrulyCongested' <=> TrulyCongested BY <1>1 DEF TrulyCongested
  <2> QED BY <1>1, <1>2, <2>1 DEF StopsOnlyWhenCongested
<1> QED BY <1>3, <1>4, <1>5, <1>6 DEF IInv

LEMMA Step == IInv /\ [Next]_vars => IInv'
<1> SUFFICES ASSUME IInv, [Next]_vars PROVE IInv' OBVIOUS
<1>1. CASE Finish BY <1>1, RestStep DEF Finish
<1>2. CASE Ended \/ UNCHANGED vars BY <1>2, RestStep DEF Ended, vars
<1> QED
  BY <1>1, <1>2, ParseStep, PlanStep, StartStep, RunStep, CompleteStep DEF Next

-----------------------------------------------------------------------------
(* The theorems.                                                           *)

LEMMA Invariance == Spec => []IInv
<1>1. Init => IInv BY InitInv
<1>2. IInv /\ [Next]_vars => IInv' BY Step
<1> QED BY <1>1, <1>2, PTL DEF Spec

\* The streams of a worker are no more than its conversations (conversation_pool.go
\* relies on it; Validate compares the totals only).
LEMMA PoolsSuffice ==
  ASSUME scenario \in Scenarios, Filled(scenario.stages), Bounded(scenario),
         workers \in Nat \ {0}, NEW k \in Loads(scenario.stages),
         scenario.stages[k].mode = "conversation_pool", NEW id \in WorkerIds(workers)
  PROVE  DivideConcurrency(scenario.stages[k].concurrency, workers, id)
           <= PoolShare(scenario.stages[k], workers, id)
<1> DEFINE s == scenario.stages[k]
           c == s.concurrency
           p == s.pool
<1>1. c \in Int /\ p \in Int
  <2>1. scenario.stages \in Seq(ScenarioStage) BY DEF Scenarios
  <2>2. s \in ScenarioStage BY <2>1 DEF Loads
  <2> HIDE DEF s
  <2> QED BY <2>2 DEF ScenarioStage
<1>2. c >= 0 /\ p >= c BY DEF Bounded, Filled
<1>3. PoolShare(s, workers, id) = IF DivideConcurrency(p, workers, id) = 0
                                    THEN DivideConcurrency(c, workers, id)
                                    ELSE DivideConcurrency(p, workers, id)
  BY DEF PoolShare
<1> HIDE DEF c, p
<1>4. c \in Nat /\ p \in Nat /\ c <= p BY <1>1, <1>2
<1>5. DivideConcurrency(c, workers, id) <= DivideConcurrency(p, workers, id)
      /\ DivideConcurrency(c, workers, id) \in Nat
  BY <1>4, DivisionMonotone, ShareType
<1> QED BY <1>3, <1>5 DEF c

\* A scenario that the control API admits (mcp_scenario.go) is one its Job can run:
\* the runner fails only for a stop condition or for a workload whose examples are not
\* there, worker 0 has something to send in every stage, and every worker of a pool
\* has conversations for its streams.
THEOREM AdmittedScenariosRun == Spec => []AdmittedRuns
<1>1. IInv => AdmittedRuns
  <2> SUFFICES ASSUME IInv, via = "api" PROVE AdmittedRuns BY DEF AdmittedRuns
  <2>1. phase = "failed" =>
          \/ HasCongestionSweep(scenario.stages)
          \/ "fewshot" \in {scenario.workload.kind}
                         \cup {scenario.stages[k].workload.kind : k \in DOMAIN scenario.stages}
    BY DEF IInv, AdmitInv
  <2>2. worker = 0 => \A m \in DOMAIN executed : executed[m].load[1] > 0 BY DEF IInv, AdmitInv
  <2>3. ASSUME phase = "running", NEW k \in Loads(scenario.stages),
               scenario.stages[k].mode = "conversation_pool", NEW id \in WorkerIds(workers)
        PROVE  DivideConcurrency(scenario.stages[k].concurrency, workers, id)
                 <= PoolShare(scenario.stages[k], workers, id)
    <3>1. scenario \in Scenarios BY DEF IInv, TypeInv
    <3>2. Filled(scenario.stages) /\ Bounded(scenario) /\ workers \in Nat \ {0}
      BY <2>3 DEF IInv, AdmitInv, Started
    <3> QED BY <2>3, <3>1, <3>2, PoolsSuffice
  <2> QED BY <2>1, <2>2, <2>3 DEF AdmittedRuns
<1> QED BY <1>1, Invariance, PTL

\* When the stages that share a generator agree in what the generator decides, each
\* worker sends in every load stage what the plan says of it (common.go groups the
\* stages and generate.go puts a barrier before them; mcp_scenario.go plans).
THEOREM PlansAreExact == Spec => []PlanExactWhenUniform
<1>1. IInv => PlanExactWhenUniform
  <2> SUFFICES ASSUME IInv, phase \in Started, Uniform
               PROVE  IsPrefixOf(executed, OfWorker(PlannedLoad(scenario, workers), worker))
    BY DEF PlanExactWhenUniform, Started
  <2> DEFINE L == Loads(scenario.stages)
             loads == EntriesAt(scenario.stages, L)
             p == PlannedLoad(scenario, workers)
             q == OfWorker(p, worker)
             N == Len(scenario.stages)
  <2>1. /\ Len(executed) = Cardinality({k \in L : k <= Past})
        /\ \A m \in 1..Len(executed) : executed[m] = PlannedFor(Nth(L, m))
    BY DEF IInv, RunInv
  <2>2. Len(executed) \in Nat /\ scenario \in Scenarios
    <3>1. executed \in Seq(Sendable) /\ scenario \in Scenarios BY DEF IInv, TypeInv
    <3> QED BY <3>1
  <2>3. N \in Nat /\ L \subseteq 1..N
    <3> DEFINE stages == scenario.stages
    <3>1. stages \in Seq(ScenarioStage) BY <2>2 DEF Scenarios
    <3> HIDE DEF stages
    <3>2. Len(stages) \in Nat /\ DOMAIN stages = 1..Len(stages) BY <3>1
    <3> QED BY <3>2 DEF Loads, stages
  <2> HIDE DEF L, N
  <2>4. Cardinality(L) \in Nat /\ Len(executed) <= Cardinality(L)
    <3> DEFINE P == {k \in L : k <= Past}
    <3>1. 1 \in Int /\ N \in Int BY <2>3
    <3>2. IsFiniteSet(1..N) BY <3>1, FS_Interval, Zenon
    <3>3. IsFiniteSet(L) BY <2>3, <3>2, FS_Subset
    <3>4. P \in SUBSET L OBVIOUS
    <3> HIDE DEF P
    <3>5. Cardinality(P) <= Cardinality(L) BY <3>3, <3>4, FS_Subset
    <3>6. Cardinality(L) \in Nat BY <3>3, FS_CardinalityType
    <3> QED BY <2>1, <3>5, <3>6 DEF P
  <2>5. loads = [m \in 1..Cardinality(L) |-> scenario.stages[Nth(L, m)]] BY Zenon DEF EntriesAt
  <2>6. p = [m \in DOMAIN loads |-> Planned(scenario, loads[m], workers)]
    BY Zenon DEF PlannedLoad, L
  <2>7. q = [m \in DOMAIN p |-> [p[m] EXCEPT !.load = @[worker]]] BY Zenon DEF OfWorker
  <2> HIDE DEF loads, p, q
  <2>8. DOMAIN loads = 1..Cardinality(L)
        /\ \A m \in 1..Cardinality(L) : loads[m] = scenario.stages[Nth(L, m)]
    BY <2>5
  <2>9. DOMAIN p = 1..Cardinality(L)
        /\ \A m \in 1..Cardinality(L) : p[m] = Planned(scenario, scenario.stages[Nth(L, m)], workers)
    BY <2>6, <2>8
  <2>10. DOMAIN q = 1..Cardinality(L)
         /\ \A m \in 1..Cardinality(L) : q[m] = [p[m] EXCEPT !.load = @[worker]]
    BY <2>7, <2>9
  <2>11. \A m \in 1..Cardinality(L) : q[m] = PlannedFor(Nth(L, m))
    BY <2>9, <2>10, Zenon DEF PlannedFor
  <2>12. Len(q) = Cardinality(L) BY <2>4, <2>10
  <2>13. \A m \in 1..Len(executed) : executed[m] = q[m] BY <2>1, <2>2, <2>4, <2>11
  <2>14. DOMAIN executed = 1..Len(executed)
    <3>1. executed \in Seq(Sendable) BY DEF IInv, TypeInv
    <3> QED BY <3>1
  <2>15. IsPrefixOf(executed, q) BY <2>4, <2>12, <2>13, <2>14 DEF IsPrefixOf
  <2> QED BY <2>15 DEF q, p
<1> QED BY <1>1, Invariance, PTL

\* A sweep stops after a measured stage with a stop condition in which the deployment
\* was congested, and after no other (congestion.go, generate.go).
THEOREM SweepsStopWhenCongested == Spec => []StopsOnlyWhenCongested
<1>1. IInv => StopsOnlyWhenCongested BY DEF IInv
<1> QED BY <1>1, Invariance, PTL
=============================================================================
