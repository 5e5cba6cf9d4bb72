--------------------------- MODULE ResultsProofs ---------------------------
(***************************************************************************)
(* Proofs about Results for any dataset, any number of workers and any     *)
(* report limits: the workers ask every question at most once, and each    *)
(* once if nothing stops them; a worker's records lie in its own window;   *)
(* and a report counts what it says it counts, as analyze does.            *)
(***************************************************************************)
EXTENDS Results, FiniteSetTheorems, WellFoundedInduction, TLAPS

\* Where the slice of worker w begins (NumWorkers: where the last one ends), and how
\* long it is.
SliceStart(w) ==
  LET base == Len(dataset) \div NumWorkers
      remainder == Len(dataset) % NumWorkers
  IN w * base + (IF w < remainder THEN w ELSE remainder)
SliceSize(w) ==
  LET base == Len(dataset) \div NumWorkers
      remainder == Len(dataset) % NumWorkers
  IN IF w < remainder THEN base + 1 ELSE base

\* The items that worker w has been handed out.
Taken(w) == SliceStart(w)..(SliceStart(w) + idx[w] - 1)

\* No two members of R have the same item.
Distinct(R) == \A r, s \in R : r.item = s.item => r = s
ItemsOf(R) == {r.item : r \in R}

Stopped == {"ended", "closing", "exit"}
Recorded(w) == queued[w] \cup file[w]

\* A worker's requests and records have different items, all of them handed out;
\* while it runs they are exactly the items handed out.
ItemInv(w) ==
  /\ idx[w] <= SliceSize(w)
  /\ Distinct(Mine(w)) /\ Distinct(queued[w]) /\ Distinct(file[w])
  /\ ItemsOf(Mine(w)) \cap ItemsOf(queued[w]) = {}
  /\ ItemsOf(Mine(w)) \cap ItemsOf(file[w]) = {}
  /\ ItemsOf(queued[w]) \cap ItemsOf(file[w]) = {}
  /\ Asked(w) \subseteq Taken(w)
  /\ phase[w] = "run" => Taken(w) \subseteq Asked(w)

\* When a worker's requests end, and what is left when it has ended.
EndInv(w) ==
  /\ phase[w] # "run" => Mine(w) = {}
  /\ phase[w] = "init" => idx[w] = 0
  /\ phase[w] \in {"init", "run"} => ~whole[w] /\ stamps[w] = "absent"
  /\ phase[w] \in {"closing", "exit"} => stamps[w] = "written"
  /\ phase[w] = "exit" => queued[w] = {}
  /\ whole[w] => Partition(w) \subseteq ItemsOf(Recorded(w))

\* A worker's records lie between its start and now, and not after its end once it
\* has one.
TimeInv(w) ==
  /\ window[w].start <= now
  /\ \A r \in Mine(w) : window[w].start <= r.start
  /\ \A r \in Recorded(w) : window[w].start <= r.start /\ r.end <= now
  /\ phase[w] \in {"run"} \cup Stopped \/ stamps[w] # "absent" => window[w].start > 0
  /\ phase[w] \in Stopped \/ stamps[w] # "absent" =>
       /\ window[w].end > 0
       /\ \A r \in Recorded(w) : r.end <= window[w].end

\* What a report has listed was there and still is; what it counted is what it
\* listed, since nothing happens after the report.
ReportInv ==
  /\ report.pc # "idle" =>
       /\ \A w \in report.stamped : stamps[w] # "absent"
       /\ report.final =>
            /\ \A w \in Workers : phase[w] \in Ended
            /\ report.listed = Workers
            /\ report.stamped = {w \in Workers : stamps[w] # "absent"}
  /\ report.pc = "done" =>
       /\ report.window = LoadMeasurementWindow
       /\ report.counted = {r \in UNION {file[w] : w \in report.listed} :
                              report.window = NoWindow \/ Inside(r, report.window)}

Local(w) == ItemInv(w) /\ EndInv(w) /\ TimeInv(w)

IInv == TypeOK /\ (\A w \in Workers : Local(w)) /\ ReportInv
-----------------------------------------------------------------------------
(* The slices of the dataset.                                              *)

\* What \div and % mean, in the one form the lemmas below use.
LEMMA Quotient ==
  ASSUME NEW a \in Nat, NEW n \in Nat \ {0}
  PROVE  /\ a \div n \in Nat /\ (a % n) \in 0..(n - 1)
         /\ a = n * (a \div n) + (a % n)
BY SMTT(30)

\* Products with one factor in common are ordered as the other.
LEMMA ProductMonotone ==
  ASSUME NEW b \in Nat, NEW p \in Nat, NEW q \in Nat, p <= q
  PROVE  p * b \in Nat /\ q * b \in Nat /\ p * b <= q * b
<1>1. PICK d \in Nat : q = p + d
  <2>1. q - p \in Nat /\ q = p + (q - p) OBVIOUS
  <2> QED BY <2>1
<1>2. (p + d) * b = p * b + d * b BY SMTT(30)
<1>3. p * b \in Nat /\ d * b \in Nat BY SMTT(30)
<1> QED BY <1>1, <1>2, <1>3

LEMMA NatMin ==
  ASSUME NEW S, S \subseteq Nat, S # {}
  PROVE  \E x \in S : \A y \in S : x <= y
<1> DEFINE R == OpToRel(<, Nat)
<1>1. \E x \in S : \A y \in S : ~(<<y, x>> \in R) BY NatLessThanWellFounded, WFMin, Zenon
<1>2. PICK x \in S : \A y \in S : ~(<<y, x>> \in R) BY <1>1, Zenon
<1>3. \A y \in S : x <= y
  <2> SUFFICES ASSUME NEW y \in S, ~(x <= y) PROVE FALSE OBVIOUS
  <2>1. x \in Nat /\ y \in Nat /\ y < x OBVIOUS
  <2>2. <<y, x>> \in R BY <2>1, Zenon DEF OpToRel
  <2> QED BY <2>2, <1>2, Zenon
<1> QED BY <1>3

LEMMA IntervalSize ==
  ASSUME NEW a \in Nat, NEW n \in Nat
  PROVE  IsFiniteSet(a..(a + n - 1)) /\ Cardinality(a..(a + n - 1)) = n
<1> DEFINE b == a + n - 1
<1>1. a \in Int /\ b \in Int OBVIOUS
<1> HIDE DEF b
<1>2. IsFiniteSet(a..b) /\ Cardinality(a..b) = IF a > b THEN 0 ELSE b - a + 1
  BY <1>1, FS_Interval, Zenon
<1>3. (IF a > b THEN 0 ELSE b - a + 1) = n BY DEF b
<1> QED BY <1>2, <1>3 DEF b

\* The slices lie end to end.
LEMMA SliceStep ==
  ASSUME Len(dataset) \in Nat, NEW w \in Workers
  PROVE  /\ SliceStart(w) \in Nat /\ SliceSize(w) \in Nat
         /\ SliceStart(w) + SliceSize(w) = SliceStart(w + 1)
<1> DEFINE base == Len(dataset) \div NumWorkers
           rem == Len(dataset) % NumWorkers
<1>1. NumWorkers \in Nat \ {0} BY ResultsAssumption
<1>2. base \in Nat /\ rem \in 0..(NumWorkers - 1) BY <1>1, Quotient
<1>3. w \in Nat /\ w + 1 \in Nat BY <1>1 DEF Workers
<1>4. w * base \in Nat /\ (w + 1) * base \in Nat BY <1>2, <1>3, ProductMonotone
<1>5. (w + 1) * base = w * base + base BY <1>2, <1>3, SMTT(30)
<1>6. SliceStart(w) = w * base + (IF w < rem THEN w ELSE rem) BY DEF SliceStart
<1>7. SliceStart(w + 1) = (w + 1) * base + (IF w + 1 < rem THEN w + 1 ELSE rem) BY DEF SliceStart
<1>8. SliceSize(w) = IF w < rem THEN base + 1 ELSE base BY DEF SliceSize
<1> HIDE DEF base, rem
<1>9. SliceStart(w) \in Nat /\ SliceSize(w) \in Nat BY <1>2, <1>3, <1>4, <1>6, <1>8
<1>10. CASE w < rem BY <1>2, <1>3, <1>4, <1>5, <1>6, <1>7, <1>8, <1>9, <1>10
<1>11. CASE ~(w < rem) BY <1>2, <1>3, <1>4, <1>5, <1>6, <1>7, <1>8, <1>9, <1>11
<1> QED BY <1>9, <1>10, <1>11

\* They begin in order, the first at the first item; the last one ends at the last.
LEMMA SliceOrder ==
  ASSUME Len(dataset) \in Nat
  PROVE  /\ \A v, w \in 0..NumWorkers : v <= w =>
              /\ SliceStart(v) \in Nat /\ SliceStart(w) \in Nat
              /\ SliceStart(v) <= SliceStart(w)
         /\ SliceStart(0) = 0 /\ SliceStart(NumWorkers) = Len(dataset)
<1> DEFINE base == Len(dataset) \div NumWorkers
           rem == Len(dataset) % NumWorkers
<1>1. NumWorkers \in Nat \ {0} BY ResultsAssumption
<1>2. base \in Nat /\ rem \in 0..(NumWorkers - 1) /\ Len(dataset) = NumWorkers * base + rem
  BY <1>1, Quotient
<1>3. \A w : SliceStart(w) = w * base + (IF w < rem THEN w ELSE rem) BY DEF SliceStart
<1> HIDE DEF base, rem
<1>4. ASSUME NEW v \in 0..NumWorkers, NEW w \in 0..NumWorkers, v <= w
      PROVE  SliceStart(v) \in Nat /\ SliceStart(w) \in Nat /\ SliceStart(v) <= SliceStart(w)
  <2>1. v \in Nat /\ w \in Nat BY <1>1
  <2>2. v * base \in Nat /\ w * base \in Nat /\ v * base <= w * base
    BY <1>2, <1>4, <2>1, ProductMonotone
  <2>3. SliceStart(v) = v * base + (IF v < rem THEN v ELSE rem) BY <1>3
  <2>4. SliceStart(w) = w * base + (IF w < rem THEN w ELSE rem) BY <1>3
  <2> QED BY <1>2, <1>4, <2>1, <2>2, <2>3, <2>4
<1>5. SliceStart(0) = 0
  <2>1. SliceStart(0) = 0 * base + (IF 0 < rem THEN 0 ELSE rem) BY <1>3
  <2>2. 0 * base = 0 BY <1>2, SMTT(30)
  <2> QED BY <1>2, <2>1, <2>2
<1>6. SliceStart(NumWorkers) = Len(dataset)
  <2>1. SliceStart(NumWorkers) = NumWorkers * base + (IF NumWorkers < rem THEN NumWorkers ELSE rem)
    BY <1>3
  <2> QED BY <1>1, <1>2, <2>1
<1> QED BY <1>4, <1>5, <1>6

\* A worker's partition is its slice, within the dataset.
LEMMA PartitionIsSlice ==
  ASSUME Len(dataset) \in Nat, NEW w \in Workers
  PROVE  /\ Partition(w) = SliceStart(w)..(SliceStart(w) + SliceSize(w) - 1)
         /\ IsFiniteSet(Partition(w)) /\ MaxRequests(w) = SliceSize(w)
         /\ SliceStart(w) + SliceSize(w) <= Len(dataset)
         /\ Partition(w) \subseteq Items
<1>1. /\ SliceStart(w) \in Nat /\ SliceSize(w) \in Nat
      /\ SliceStart(w) + SliceSize(w) = SliceStart(w + 1)
  BY SliceStep
<1>2. w + 1 \in 0..NumWorkers /\ NumWorkers \in 0..NumWorkers /\ w + 1 <= NumWorkers
  BY ResultsAssumption DEF Workers
<1>3. SliceStart(w + 1) <= Len(dataset) BY <1>2, SliceOrder
<1>4. Partition(w) = SliceStart(w)..(SliceStart(w) + SliceSize(w) - 1)
  BY DEF Partition, SliceStart, SliceSize
<1>5. IsFiniteSet(Partition(w)) /\ Cardinality(Partition(w)) = SliceSize(w)
  BY <1>1, <1>4, IntervalSize
<1>6. Partition(w) \subseteq Items BY <1>1, <1>3, <1>4 DEF Items
<1> QED BY <1>1, <1>3, <1>4, <1>5, <1>6 DEF MaxRequests

\* No item is in two slices.
LEMMA SlicesDisjoint ==
  ASSUME Len(dataset) \in Nat, NEW v \in Workers, NEW w \in Workers, v # w
  PROVE  Partition(v) \cap Partition(w) = {}
<1>1. ASSUME NEW a \in Workers, NEW b \in Workers, a < b
      PROVE  SliceStart(a) + SliceSize(a) <= SliceStart(b)
  <2>1. a + 1 \in 0..NumWorkers /\ b \in 0..NumWorkers /\ a + 1 <= b
    BY <1>1, ResultsAssumption DEF Workers
  <2> QED BY <2>1, SliceStep, SliceOrder
<1>2. \A a \in Workers : /\ SliceStart(a) \in Nat /\ SliceSize(a) \in Nat
                         /\ Partition(a) = SliceStart(a)..(SliceStart(a) + SliceSize(a) - 1)
  BY SliceStep, PartitionIsSlice
<1>3. v < w \/ w < v BY ResultsAssumption DEF Workers
<1> QED BY <1>1, <1>2, <1>3

\* Every item is in a slice.
LEMMA SlicesCover ==
  ASSUME Len(dataset) \in Nat, NEW i \in Items
  PROVE  \E w \in Workers : i \in Partition(w)
<1> DEFINE S == {v \in 0..NumWorkers : SliceStart(v) > i}
<1>1. NumWorkers \in Nat \ {0} BY ResultsAssumption
<1>2. NumWorkers \in S BY <1>1, SliceOrder DEF Items
<1>3. PICK m \in S : \A v \in S : m <= v
  <2>1. S \subseteq Nat /\ S # {} BY <1>1, <1>2
  <2> HIDE DEF S
  <2> QED BY <2>1, NatMin
<1>4. m # 0 BY SliceOrder DEF Items
<1>5. m - 1 \in Workers /\ m - 1 \in 0..NumWorkers /\ m - 1 \notin S BY <1>1, <1>3, <1>4 DEF Workers
<1>6. /\ SliceStart(m - 1) \in Nat /\ SliceSize(m - 1) \in Nat
      /\ SliceStart(m - 1) + SliceSize(m - 1) = SliceStart(m)
  <2>1. (m - 1) + 1 = m BY <1>3
  <2> QED BY <1>5, <2>1, SliceStep
<1>7. i \in Partition(m - 1) BY <1>5, <1>6, PartitionIsSlice DEF Items
<1> QED BY <1>5, <1>7

\* NextConversation hands out the slice in order.
LEMMA NextInOrder ==
  ASSUME Len(dataset) \in Nat, NEW w \in Workers, idx[w] \in Nat, idx[w] < SliceSize(w)
  PROVE  NextConversation(w) = SliceStart(w) + idx[w] /\ NextConversation(w) \in Partition(w)
<1>1. /\ SliceStart(w) \in Nat /\ SliceSize(w) \in Nat /\ MaxRequests(w) = SliceSize(w)
      /\ Partition(w) = SliceStart(w)..(SliceStart(w) + SliceSize(w) - 1)
  BY SliceStep, PartitionIsSlice
<1>2. idx[w] % SliceSize(w) = idx[w]
  <2>1. \A a, n \in Nat : a < n => a % n = a BY SMTT(30)
  <2> QED BY <1>1, <2>1
<1>3. ASSUME NEW i \in Partition(w)
      PROVE  Cardinality({j \in Partition(w) : j < i}) = i - SliceStart(w)
  <2>1. i \in Int /\ {j \in Partition(w) : j < i} = SliceStart(w)..(i - 1) BY <1>1
  <2>2. i - SliceStart(w) \in Nat /\ i - 1 = SliceStart(w) + (i - SliceStart(w)) - 1 BY <1>1
  <2>3. Cardinality(SliceStart(w)..(SliceStart(w) + (i - SliceStart(w)) - 1)) = i - SliceStart(w)
    BY <1>1, <2>2, IntervalSize
  <2> QED BY <2>1, <2>2, <2>3
<1>4. \A i \in Partition(w) :
        Cardinality({j \in Partition(w) : j < i}) = idx[w] % Cardinality(Partition(w))
          <=> i = SliceStart(w) + idx[w]
  <2>1. Cardinality(Partition(w)) = SliceSize(w) BY <1>1 DEF MaxRequests
  <2>2. idx[w] % Cardinality(Partition(w)) = idx[w] BY <1>2, <2>1
  <2> TAKE i \in Partition(w)
  <2>3. i \in Int BY <1>1
  <2>4. Cardinality({j \in Partition(w) : j < i}) = i - SliceStart(w) BY <1>3
  <2> HIDE DEF Partition
  <2>5. (i - SliceStart(w) = idx[w]) <=> (i = SliceStart(w) + idx[w]) BY <1>1, <2>3
  <2> QED BY <2>2, <2>4, <2>5
<1>5. SliceStart(w) + idx[w] \in Partition(w) BY <1>1
<1> QED BY <1>4, <1>5 DEF NextConversation

-----------------------------------------------------------------------------
(* Typing.                                                                 *)

Answers == {"correct", "wrong", "error"}
Phases == {"init", "run", "ended", "closing"} \cup Ended
StampStates == {"absent", "torn", "written"}
Request == [worker : Workers, item : Items, start : Times]
WindowType == [start : Times, end : Times]
ReportType ==
  [pc : {"idle", "listed", "done", "failed"}, final : BOOLEAN,
   listed : SUBSET Workers, stamped : SUBSET Workers,
   window : WindowType, counted : SUBSET Record]

\* The dataset and the options of the evaluation that is run.
ConfigOK ==
  \E e \in Evaluations : dataset = e.answers /\ concurrency = e.concurrency /\ kills \in 0..e.kills

StateOK ==
  /\ now \in 1..MaxTime
  /\ phase \in [Workers -> Phases]
  /\ idx \in [Workers -> 0..Len(dataset)] /\ whole \in [Workers -> BOOLEAN]
  /\ window \in [Workers -> WindowType]
  /\ inflight \subseteq Request
  /\ queued \in [Workers -> SUBSET Record] /\ file \in [Workers -> SUBSET Record]
  /\ stamps \in [Workers -> StampStates]

LEMMA TypeSplit == TypeOK <=> ConfigOK /\ StateOK /\ report \in ReportType
BY DEF TypeOK, ConfigOK, StateOK, ReportType, Phases, StampStates, Request, WindowType

LEMMA TypeSplitNext == TypeOK' <=> ConfigOK' /\ StateOK' /\ report' \in ReportType'
BY DEF TypeOK, ConfigOK, StateOK, ReportType, Phases, StampStates, Request, WindowType

LEMMA ConfigFacts ==
  ASSUME ConfigOK
  PROVE  /\ dataset \in Seq(Answers) /\ Len(dataset) \in Nat \ {0} /\ kills \in Nat
         /\ \A i \in Items : dataset[i + 1] \in Answers
         /\ MaxTime \in Nat \ {0} /\ NumWorkers \in Nat \ {0}
<1>1. PICK e \in Evaluations : dataset = e.answers /\ kills \in 0..e.kills BY DEF ConfigOK
<1>2. e.answers \in Seq(Answers) /\ e.answers # << >> /\ e.kills \in Nat
  BY ResultsAssumption DEF Answers
<1>3. dataset \in Seq(Answers) /\ Len(dataset) \in Nat \ {0} BY <1>1, <1>2
<1>4. \A i \in Items : dataset[i + 1] \in Answers
  <2>1. \A i \in Items : i + 1 \in 1..Len(dataset) BY <1>3 DEF Items
  <2> HIDE DEF Answers
  <2> QED BY <1>3, <2>1
<1> QED BY <1>1, <1>2, <1>3, <1>4, ResultsAssumption

\* What depends on the dataset alone does not change.
LEMMA DatasetFixed ==
  ASSUME dataset' = dataset
  PROVE  /\ Items' = Items /\ Record' = Record /\ Request' = Request
         /\ ReportType' = ReportType
         /\ \A w : /\ SliceStart(w)' = SliceStart(w) /\ SliceSize(w)' = SliceSize(w)
                   /\ Partition(w)' = Partition(w)
BY DEF Items, Record, Request, ReportType, WindowType, Times, SliceStart, SliceSize, Partition,
       Workers

\* Steps of a worker that change no more than the one field of each variable.
LEMMA StateFrame ==
  ASSUME StateOK, dataset' = dataset, NEW w \in Workers,
         now' = now,
         phase' = phase \/ \E p \in Phases : phase' = [phase EXCEPT ![w] = p],
         idx' = idx \/ (idx' = [idx EXCEPT ![w] = @ + 1] /\ idx[w] < Len(dataset)),
         Len(dataset) \in Nat,
         whole' = whole \/ \E b \in BOOLEAN : whole' = [whole EXCEPT ![w] = b],
         window' = window \/ \E x \in WindowType : window' = [window EXCEPT ![w] = x],
         inflight' \subseteq Request,
         queued' = queued \/ \E q \in SUBSET Record : queued' = [queued EXCEPT ![w] = q],
         file' = file \/ \E q \in SUBSET Record : file' = [file EXCEPT ![w] = q],
         stamps' = stamps \/ \E x \in StampStates : stamps' = [stamps EXCEPT ![w] = x]
  PROVE  StateOK'
<1>0. Record' = Record /\ Request' = Request BY DatasetFixed
<1>1. now' \in 1..MaxTime BY DEF StateOK
<1> HIDE DEF Phases, Record, Request, WindowType, StampStates
<1>2. phase' \in [Workers -> Phases] BY DEF StateOK
<1>3. idx' \in [Workers -> 0..Len(dataset)]
  <2>1. idx \in [Workers -> 0..Len(dataset)] BY DEF StateOK
  <2> QED BY <2>1
<1>4. whole' \in [Workers -> BOOLEAN]
  <2>1. whole \in [Workers -> BOOLEAN] BY DEF StateOK
  <2> QED BY <2>1
<1>5. window' \in [Workers -> WindowType] BY DEF StateOK
<1>6. queued' \in [Workers -> SUBSET Record] BY DEF StateOK
<1>7. file' \in [Workers -> SUBSET Record] BY DEF StateOK
<1>8. stamps' \in [Workers -> StampStates] BY DEF StateOK
<1>9. Phases' = Phases /\ WindowType' = WindowType /\ StampStates' = StampStates /\ Workers' = Workers
  BY DEF Phases, WindowType, StampStates, Workers, Times, Ended
<1> QED BY <1>0, <1>1, <1>2, <1>3, <1>4, <1>5, <1>6, <1>7, <1>8, <1>9 DEF StateOK

-----------------------------------------------------------------------------
(* The steps of the workers.                                               *)

\* What the invariant says of one worker in numbers.
LEMMA WorkerFacts ==
  ASSUME IInv, NEW w \in Workers
  PROVE  /\ Len(dataset) \in Nat /\ now \in Nat /\ now > 0 /\ now <= MaxTime /\ MaxTime \in Nat
         /\ idx[w] \in Nat /\ SliceStart(w) \in Nat /\ SliceSize(w) \in Nat
         /\ SliceStart(w) + SliceSize(w) <= Len(dataset)
         /\ MaxRequests(w) = SliceSize(w)
         /\ Partition(w) = SliceStart(w)..(SliceStart(w) + SliceSize(w) - 1)
         /\ phase[w] \in Phases /\ stamps[w] \in StampStates /\ whole[w] \in BOOLEAN
         /\ window[w] \in WindowType /\ queued[w] \subseteq Record /\ file[w] \subseteq Record
         /\ Mine(w) \subseteq Request
<1>1. ConfigOK /\ StateOK BY TypeSplit DEF IInv
<1>2. Len(dataset) \in Nat /\ MaxTime \in Nat BY <1>1, ConfigFacts
<1>3. now \in 1..MaxTime /\ idx[w] \in 0..Len(dataset) BY <1>1 DEF StateOK
<1>4. /\ phase[w] \in Phases /\ stamps[w] \in StampStates
      /\ window[w] \in WindowType /\ queued[w] \subseteq Record /\ file[w] \subseteq Record
  <2> HIDE DEF Phases, StampStates, WindowType, Record
  <2> QED BY <1>1 DEF StateOK
<1>5. whole[w] \in BOOLEAN BY <1>1 DEF StateOK
<1>6. Mine(w) \subseteq Request BY <1>1 DEF StateOK, Mine
<1> QED BY <1>2, <1>3, <1>4, <1>5, <1>6, SliceStep, PartitionIsSlice

\* A worker that is left alone keeps its part of the invariant while time passes.
LEMMA LocalFrame ==
  ASSUME IInv, dataset' = dataset, now' \in Nat, now <= now', NEW v \in Workers,
         phase'[v] = phase[v], idx'[v] = idx[v], window'[v] = window[v], whole'[v] = whole[v],
         queued'[v] = queued[v], file'[v] = file[v], stamps'[v] = stamps[v], Mine(v)' = Mine(v)
  PROVE  Local(v)'
<1>1. Local(v) BY DEF IInv
<1>2. /\ SliceStart(v)' = SliceStart(v) /\ SliceSize(v)' = SliceSize(v)
      /\ Partition(v)' = Partition(v)
  BY DatasetFixed
<1>3. Recorded(v)' = Recorded(v) /\ Asked(v)' = Asked(v) /\ Taken(v)' = Taken(v)
  BY <1>2 DEF Recorded, Asked, Taken
<1>4. ItemInv(v)'
  <2>1. Distinct(Mine(v))' /\ Distinct(queued[v])' /\ Distinct(file[v])'
    BY <1>1 DEF Local, ItemInv, Distinct
  <2>2. /\ ItemsOf(Mine(v))' = ItemsOf(Mine(v)) /\ ItemsOf(queued[v])' = ItemsOf(queued[v])
        /\ ItemsOf(file[v])' = ItemsOf(file[v])
    BY DEF ItemsOf
  <2> QED BY <1>1, <1>2, <1>3, <2>1, <2>2 DEF Local, ItemInv
<1>5. EndInv(v)' BY <1>1, <1>2, <1>3, Zenon DEF Local, EndInv, ItemsOf
<1>6. TimeInv(v)'
  <2>1. now \in Nat /\ queued[v] \subseteq Record /\ file[v] \subseteq Record /\ window[v] \in WindowType
        /\ MaxTime \in Nat
    BY WorkerFacts
  <2>2. \A r \in Recorded(v) : r.end \in Nat BY <2>1 DEF Record, Recorded, Times
  <2>3. window[v].start \in Nat BY <2>1 DEF WindowType, Times
  <2>4. \A r \in Recorded(v)' : window'[v].start <= r.start /\ r.end <= now'
    BY <1>1, <1>3, <2>1, <2>2 DEF Local, TimeInv
  <2>5. window'[v].start <= now' BY <1>1, <2>1, <2>3 DEF Local, TimeInv
  <2> QED BY <1>1, <1>3, <2>4, <2>5 DEF Local, TimeInv
<1> QED BY <1>4, <1>5, <1>6 DEF Local

\* A report that has only listed the files is not troubled by a worker's step: if
\* there is a worker that has not ended, it is not a final one.
LEMMA ReportFrame ==
  ASSUME IInv, ReportOpen, NEW w \in Workers, phase[w] \notin Ended, report' = report,
         \A v \in Workers : stamps[v] # "absent" => stamps'[v] # "absent"
  PROVE  ReportInv'
<1>1. report \in ReportType /\ ReportInv BY TypeSplit DEF IInv
<1>2. report.pc # "done" /\ report.stamped \subseteq Workers
  BY <1>1 DEF ReportOpen, ReportType
<1>3. report.pc # "idle" => ~report.final BY <1>1 DEF ReportInv
<1>4. report.pc # "idle" => \A v \in report.stamped : stamps'[v] # "absent"
  BY <1>1, <1>2 DEF ReportInv
<1> QED BY <1>2, <1>3, <1>4 DEF ReportInv

\* A step of worker w alone.
LEMMA WorkerFrame ==
  ASSUME IInv, ReportOpen, NEW w \in Workers, phase[w] \notin Ended,
         dataset' = dataset, now' = now, report' = report, ConfigOK', StateOK',
         \A v \in Workers \ {w} :
           /\ phase'[v] = phase[v] /\ idx'[v] = idx[v] /\ window'[v] = window[v]
           /\ whole'[v] = whole[v] /\ queued'[v] = queued[v] /\ file'[v] = file[v]
           /\ stamps'[v] = stamps[v] /\ Mine(v)' = Mine(v),
         stamps[w] # "absent" => stamps'[w] # "absent", Local(w)'
  PROVE  IInv'
<1>1. now \in Nat /\ now <= now BY WorkerFacts
<1>2. ASSUME NEW v \in Workers PROVE Local(v)'
  <2>1. CASE v = w BY <2>1
  <2>2. CASE v # w
    <3>1. v \in Workers \ {w} BY <2>2
    <3> QED BY <1>1, <3>1, LocalFrame
  <2> QED BY <2>1, <2>2
<1>3. ReportInv'
  <2>1. \A v \in Workers : stamps[v] # "absent" => stamps'[v] # "absent" OBVIOUS
  <2> QED BY <2>1, ReportFrame
<1>4. report' \in ReportType'
  <2>1. report \in ReportType /\ ReportType' = ReportType BY TypeSplit, DatasetFixed DEF IInv
  <2> QED BY <2>1
<1>5. TypeOK' BY <1>4, TypeSplitNext
<1>6. Workers' = Workers BY DEF Workers
<1> QED BY <1>2, <1>3, <1>5, <1>6 DEF IInv

\* The number of workers that may be killed does not matter but for its bound.
LEMMA ConfigFrame ==
  ASSUME ConfigOK, dataset' = dataset, concurrency' = concurrency,
         kills' = kills \/ (kills > 0 /\ kills' = kills - 1)
  PROVE  ConfigOK'
<1>1. PICK e \in Evaluations : dataset = e.answers /\ concurrency = e.concurrency /\ kills \in 0..e.kills
  BY DEF ConfigOK
<1>2. e.kills \in Nat BY ResultsAssumption
<1>3. kills' \in 0..e.kills BY <1>1, <1>2
<1> QED BY <1>1, <1>3 DEF ConfigOK

LEMMA StartInv ==
  ASSUME IInv, ReportOpen, NEW w \in Workers, Start(w)
  PROVE  IInv'
<1>1. /\ phase[w] = "init" /\ phase' = [phase EXCEPT ![w] = "run"]
      /\ window' = [window EXCEPT ![w].start = now]
      /\ UNCHANGED <<dataset, concurrency, now, idx, whole, inflight, queued, file, stamps, kills, report>>
  BY DEF Start, config
<1>2. ConfigOK /\ StateOK /\ Local(w) BY TypeSplit DEF IInv
<1>3. ConfigOK' BY <1>1, <1>2, ConfigFrame
<1>4. /\ Len(dataset) \in Nat /\ now \in Nat /\ now > 0 /\ now <= MaxTime /\ MaxTime \in Nat
      /\ SliceStart(w) \in Nat /\ window[w] \in WindowType
  BY WorkerFacts
<1>5. window' = [window EXCEPT ![w] = [window[w] EXCEPT !.start = now]]
      /\ [window[w] EXCEPT !.start = now] \in WindowType
  BY <1>1, <1>4 DEF WindowType, Times
<1>6. StateOK'
  <2>1. "run" \in Phases /\ inflight' \subseteq Request BY <1>1, <1>2 DEF Phases, StateOK
  <2> QED BY <1>1, <1>2, <1>4, <1>5, <2>1, StateFrame
<1>7. /\ phase'[w] = "run" /\ window'[w].start = now
      /\ \A v \in Workers \ {w} : phase'[v] = phase[v] /\ window'[v] = window[v]
  <2>1. phase \in [Workers -> Phases] /\ window \in [Workers -> WindowType] BY <1>2 DEF StateOK
  <2>2. window[w] \in [start : Times, end : Times] BY <1>4 DEF WindowType
  <2> QED BY <1>1, <1>5, <2>1, <2>2
<1>8. \A v : Mine(v)' = Mine(v) BY <1>1 DEF Mine
<1>9. idx[w] = 0 /\ Mine(w) = {} /\ stamps[w] = "absent" /\ ~whole[w]
  BY <1>1, <1>2 DEF Local, EndInv
<1>10. Taken(w) = {} /\ Taken(w)' = Taken(w) /\ Asked(w)' = Asked(w)
  <2>1. SliceStart(w)' = SliceStart(w) BY <1>1, DatasetFixed
  <2> QED BY <1>1, <1>4, <1>8, <1>9, <2>1 DEF Taken, Asked
<1>11. queued[w] = {} /\ file[w] = {} BY <1>2, <1>10 DEF Local, ItemInv, Asked
<1>12. ItemInv(w)'
  <2>1. SliceSize(w)' = SliceSize(w) BY <1>1, DatasetFixed
  <2> QED BY <1>1, <1>2, <1>8, <1>9, <1>10, <1>11, <2>1 DEF Local, ItemInv, Distinct, ItemsOf
<1>13. EndInv(w)' BY <1>1, <1>7, <1>9 DEF EndInv
<1>14. TimeInv(w)' BY <1>1, <1>4, <1>7, <1>8, <1>9, <1>11 DEF TimeInv, Recorded, Stopped
<1>15. Local(w)' BY <1>12, <1>13, <1>14 DEF Local
<1>16. phase[w] \notin Ended BY <1>1 DEF Ended
<1> QED BY <1>1, <1>3, <1>6, <1>7, <1>8, <1>15, <1>16, WorkerFrame

LEMMA AskInv ==
  ASSUME IInv, ReportOpen, NEW w \in Workers, Ask(w)
  PROVE  IInv'
<1> DEFINE item == NextConversation(w)
           req == [worker |-> w, item |-> item, start |-> now]
<1>1. /\ phase[w] = "run" /\ idx[w] < MaxRequests(w)
      /\ inflight' = inflight \cup {req}
      /\ idx' = [idx EXCEPT ![w] = @ + 1]
      /\ UNCHANGED <<dataset, concurrency, now, phase, window, whole, queued, file, stamps, kills, report>>
  BY DEF Ask, config
<1>2. ConfigOK /\ StateOK /\ Local(w) BY TypeSplit DEF IInv
<1>3. ConfigOK' BY <1>1, <1>2, ConfigFrame
<1>4. /\ Len(dataset) \in Nat /\ now \in Nat /\ now > 0 /\ now <= MaxTime /\ MaxTime \in Nat
      /\ idx[w] \in Nat /\ SliceStart(w) \in Nat /\ SliceSize(w) \in Nat
      /\ SliceStart(w) + SliceSize(w) <= Len(dataset)
      /\ MaxRequests(w) = SliceSize(w) /\ window[w] \in WindowType
  BY WorkerFacts
<1>5. item = SliceStart(w) + idx[w] /\ item \in Items
  BY <1>1, <1>4, NextInOrder, PartitionIsSlice
<1> HIDE DEF item
<1>6. req \in Request BY <1>4, <1>5 DEF Request, Times
<1>7. StateOK'
  <2>1. inflight' \subseteq Request BY <1>1, <1>2, <1>6 DEF StateOK
  <2>2. idx[w] < Len(dataset) BY <1>1, <1>4
  <2> QED BY <1>1, <1>2, <1>4, <2>1, <2>2, StateFrame
<1>8. idx'[w] = idx[w] + 1 /\ \A v \in Workers \ {w} : idx'[v] = idx[v]
  <2>1. idx \in [Workers -> 0..Len(dataset)] BY <1>2 DEF StateOK
  <2> QED BY <1>1, <2>1
<1>9. Mine(w)' = Mine(w) \cup {req} /\ \A v \in Workers \ {w} : Mine(v)' = Mine(v)
  BY <1>1 DEF Mine
<1>10. Taken(w)' = Taken(w) \cup {item} /\ item \notin Taken(w)
  <2>1. SliceStart(w)' = SliceStart(w) BY <1>1, DatasetFixed
  <2>2. \A a, n \in Nat : a..(a + (n + 1) - 1) = a..(a + n - 1) \cup {a + n} /\ a + n \notin a..(a + n - 1)
    OBVIOUS
  <2>3. Taken(w)' = SliceStart(w)..(SliceStart(w) + (idx[w] + 1) - 1) BY <1>8, <2>1 DEF Taken
  <2> QED BY <1>4, <1>5, <2>2, <2>3 DEF Taken
<1>11. Asked(w)' = Asked(w) \cup {item}
  <2>1. req.item = item OBVIOUS
  <2> HIDE DEF req
  <2> QED BY <1>1, <1>9, <2>1 DEF Asked
<1>12. item \notin Asked(w) BY <1>2, <1>10 DEF Local, ItemInv
<1>13. ItemInv(w)'
  <2>1. SliceSize(w)' = SliceSize(w) BY <1>1, DatasetFixed
  <2>2. /\ \A r \in Mine(w) : r.item # item
        /\ item \notin ItemsOf(queued[w]) /\ item \notin ItemsOf(file[w])
    BY <1>12 DEF Asked, ItemsOf
  <2>3. req.item = item OBVIOUS
  <2> HIDE DEF req
  <2>4. Distinct(Mine(w) \cup {req}) BY <1>2, <2>2, <2>3 DEF Local, ItemInv, Distinct
  <2>5. ItemsOf(Mine(w) \cup {req}) = ItemsOf(Mine(w)) \cup {item} BY <2>3 DEF ItemsOf
  <2>6. Distinct(Mine(w))' /\ ItemsOf(Mine(w))' = ItemsOf(Mine(w)) \cup {item}
    <3>1. Distinct(Mine(w))' <=> Distinct(Mine(w)') BY DEF Distinct
    <3>2. ItemsOf(Mine(w))' = ItemsOf(Mine(w)') BY DEF ItemsOf
    <3> QED BY <1>9, <2>4, <2>5, <3>1, <3>2
  <2>7. /\ Distinct(queued[w])' /\ Distinct(file[w])'
        /\ ItemsOf(queued[w])' = ItemsOf(queued[w]) /\ ItemsOf(file[w])' = ItemsOf(file[w])
    BY <1>1, <1>2 DEF Local, ItemInv, Distinct, ItemsOf
  <2>8. idx'[w] <= SliceSize(w) BY <1>1, <1>4, <1>8
  <2> QED BY <1>2, <1>10, <1>11, <2>1, <2>2, <2>6, <2>7, <2>8, <1>1 DEF Local, ItemInv
<1>14. EndInv(w)'
  <2>1. Recorded(w)' = Recorded(w) /\ Partition(w)' = Partition(w) BY <1>1, DatasetFixed DEF Recorded
  <2>2. ~whole[w] /\ stamps[w] = "absent" BY <1>1, <1>2 DEF Local, EndInv
  <2> QED BY <1>1, <2>1, <2>2 DEF EndInv
<1>15. TimeInv(w)'
  <2>1. req.start = now OBVIOUS
  <2> HIDE DEF req
  <2>2. window[w].start \in Nat BY <1>4 DEF WindowType, Times
  <2>3. Recorded(w)' = Recorded(w) BY <1>1 DEF Recorded
  <2>4. \A r \in Mine(w)' : window'[w].start <= r.start
    BY <1>1, <1>2, <1>9, <2>1, <2>2 DEF Local, TimeInv
  <2> QED BY <1>1, <1>2, <2>3, <2>4 DEF Local, TimeInv
<1>16. Local(w)' BY <1>13, <1>14, <1>15 DEF Local
<1>17. phase[w] \notin Ended BY <1>1 DEF Ended
<1> QED BY <1>1, <1>3, <1>7, <1>8, <1>9, <1>16, <1>17, WorkerFrame

LEMMA AskNothingInv ==
  ASSUME IInv, ReportOpen, NEW w \in Workers, AskNothing(w)
  PROVE  IInv'
<1>1. /\ phase[w] = "run" /\ MaxRequests(w) = 0 /\ phase' = [phase EXCEPT ![w] = "crashed"]
      /\ UNCHANGED <<dataset, concurrency, now, idx, window, whole, inflight, queued, file, stamps, kills, report>>
  BY DEF AskNothing, config
<1>2. ConfigOK /\ StateOK /\ Local(w) BY TypeSplit DEF IInv
<1>3. ConfigOK' BY <1>1, <1>2, ConfigFrame
<1>4. /\ Len(dataset) \in Nat /\ idx[w] \in Nat /\ SliceStart(w) \in Nat
      /\ MaxRequests(w) = SliceSize(w)
  BY WorkerFacts
<1>5. StateOK'
  <2>1. "crashed" \in Phases /\ inflight' \subseteq Request BY <1>1, <1>2 DEF Phases, Ended, StateOK
  <2> QED BY <1>1, <1>2, <1>4, <2>1, StateFrame
<1>6. phase'[w] = "crashed" /\ \A v \in Workers \ {w} : phase'[v] = phase[v]
  <2>1. phase \in [Workers -> Phases] BY <1>2 DEF StateOK
  <2> QED BY <1>1, <2>1
<1>7. \A v : Mine(v)' = Mine(v) BY <1>1 DEF Mine
<1>8. Taken(w) = {} BY <1>1, <1>2, <1>4 DEF Taken, Local, ItemInv
<1>9. Mine(w) = {} BY <1>2, <1>8 DEF Local, ItemInv, Asked
<1>10. ItemInv(w)'
  <2>1. SliceSize(w)' = SliceSize(w) /\ Taken(w)' = Taken(w) /\ Asked(w)' = Asked(w)
    BY <1>1, <1>7, DatasetFixed DEF Taken, Asked
  <2>2. /\ Distinct(Mine(w))' /\ ItemsOf(Mine(w))' = ItemsOf(Mine(w))
        /\ Distinct(queued[w])' /\ Distinct(file[w])'
        /\ ItemsOf(queued[w])' = ItemsOf(queued[w]) /\ ItemsOf(file[w])' = ItemsOf(file[w])
    BY <1>1, <1>2, <1>7 DEF Local, ItemInv, Distinct, ItemsOf
  <2> QED BY <1>1, <1>2, <1>6, <2>1, <2>2 DEF Local, ItemInv
<1>11. EndInv(w)'
  <2>1. ~whole[w] BY <1>1, <1>2 DEF Local, EndInv
  <2> QED BY <1>1, <1>6, <1>7, <1>9, <2>1 DEF EndInv
<1>12. TimeInv(w)'
  <2>1. stamps[w] = "absent" BY <1>1, <1>2 DEF Local, EndInv
  <2> QED BY <1>1, <1>2, <1>6, <1>7, <2>1 DEF Local, TimeInv, Recorded, Stopped
<1>13. Local(w)' BY <1>10, <1>11, <1>12 DEF Local
<1>14. phase[w] \notin Ended BY <1>1 DEF Ended
<1> QED BY <1>1, <1>3, <1>5, <1>6, <1>7, <1>13, <1>14, WorkerFrame

LEMMA AnswerInv ==
  ASSUME IInv, ReportOpen, NEW r \in inflight, Answer(r)
  PROVE  IInv'
<1> DEFINE w == r.worker
           rec == [item |-> r.item, start |-> r.start, end |-> now, answer |-> dataset[r.item + 1]]
<1>1. /\ inflight' = inflight \ {r}
      /\ queued' = [queued EXCEPT ![w] = @ \cup {rec}]
      /\ UNCHANGED <<dataset, concurrency, now, phase, idx, window, whole, file, stamps, kills, report>>
  BY DEF Answer, config
<1>2. ConfigOK /\ StateOK BY TypeSplit DEF IInv
<1>3. ConfigOK' BY <1>1, <1>2, ConfigFrame
<1>4. r \in Request /\ w \in Workers BY <1>2 DEF StateOK, Request
<1>5. Local(w) /\ r \in Mine(w) BY <1>4 DEF IInv, Mine
<1>6. phase[w] = "run" BY <1>5 DEF Local, EndInv
<1>7. /\ Len(dataset) \in Nat /\ now \in Nat /\ now <= MaxTime /\ MaxTime \in Nat
      /\ queued[w] \subseteq Record
  BY <1>4, WorkerFacts
<1>8. rec \in Record
  <2>1. r.item \in Items /\ r.start \in Times BY <1>4 DEF Request
  <2>2. dataset[r.item + 1] \in Answers BY <1>2, <2>1, ConfigFacts
  <2> QED BY <1>7, <2>1, <2>2 DEF Record, Times, Answers
<1>9. rec.item = r.item /\ rec.start = r.start /\ rec.end = now OBVIOUS
<1> HIDE DEF rec, w
<1>10. StateOK'
  <2>1. inflight' \subseteq Request BY <1>1, <1>2 DEF StateOK
  <2>2. queued' = [queued EXCEPT ![w] = queued[w] \cup {rec}] /\ queued[w] \cup {rec} \in SUBSET Record
    BY <1>1, <1>7, <1>8
  <2> QED BY <1>1, <1>2, <1>4, <1>7, <2>1, <2>2, StateFrame
<1>11. queued'[w] = queued[w] \cup {rec} /\ \A v \in Workers \ {w} : queued'[v] = queued[v]
  <2>1. queued \in [Workers -> SUBSET Record] BY <1>2 DEF StateOK
  <2> QED BY <1>1, <1>4, <2>1
<1>12. Mine(w)' = Mine(w) \ {r} /\ \A v \in Workers \ {w} : Mine(v)' = Mine(v)
  BY <1>1 DEF Mine, w
<1>13. Asked(w)' = Asked(w) BY <1>1, <1>5, <1>9, <1>11, <1>12 DEF Asked
<1>14. ItemInv(w)'
  <2>1. SliceSize(w)' = SliceSize(w) /\ Taken(w)' = Taken(w) BY <1>1, DatasetFixed DEF Taken
  <2>2. /\ \A s \in Mine(w) \ {r} : s.item # r.item
        /\ \A s \in queued[w] : s.item # r.item
        /\ \A s \in file[w] : s.item # r.item
    BY <1>5 DEF Local, ItemInv, Distinct, ItemsOf
  <2>3. Distinct(Mine(w) \ {r}) /\ Distinct(queued[w] \cup {rec})
    BY <1>5, <1>9, <2>2 DEF Local, ItemInv, Distinct
  <2>4. /\ ItemsOf(queued[w] \cup {rec}) = ItemsOf(queued[w]) \cup {r.item}
        /\ ItemsOf(Mine(w) \ {r}) \subseteq ItemsOf(Mine(w)) \ {r.item}
        /\ r.item \notin ItemsOf(file[w])
    BY <1>9, <2>2 DEF ItemsOf
  <2>5. /\ Distinct(Mine(w))' /\ Distinct(queued[w])'
        /\ ItemsOf(Mine(w))' = ItemsOf(Mine(w) \ {r})
        /\ ItemsOf(queued[w])' = ItemsOf(queued[w] \cup {rec})
    <3>1. /\ Distinct(Mine(w))' <=> Distinct(Mine(w)')
          /\ Distinct(queued[w])' <=> Distinct(queued'[w])
      BY <1>1 DEF Distinct, w
    <3>2. ItemsOf(Mine(w))' = ItemsOf(Mine(w)') /\ ItemsOf(queued[w])' = ItemsOf(queued'[w])
      BY <1>1 DEF ItemsOf, w
    <3> QED BY <1>11, <1>12, <2>3, <3>1, <3>2
  <2>6. Distinct(file[w])' /\ ItemsOf(file[w])' = ItemsOf(file[w])
    BY <1>1, <1>5 DEF Local, ItemInv, Distinct, ItemsOf
  <2>7. /\ ItemsOf(Mine(w)) \cap ItemsOf(queued[w]) = {}
        /\ ItemsOf(Mine(w)) \cap ItemsOf(file[w]) = {}
        /\ ItemsOf(queued[w]) \cap ItemsOf(file[w]) = {}
    BY <1>5 DEF Local, ItemInv
  <2>8. ItemsOf(Mine(w))' \cap ItemsOf(queued[w])' = {} BY <2>4, <2>5, <2>7
  <2>9. ItemsOf(Mine(w))' \cap ItemsOf(file[w])' = {} BY <2>4, <2>5, <2>6, <2>7
  <2>10. ItemsOf(queued[w])' \cap ItemsOf(file[w])' = {} BY <2>4, <2>5, <2>6, <2>7
  <2> QED BY <1>1, <1>5, <1>13, <2>1, <2>5, <2>6, <2>8, <2>9, <2>10 DEF Local, ItemInv
<1>15. EndInv(w)'
  <2>1. ~whole[w] /\ stamps[w] = "absent" BY <1>5, <1>6 DEF Local, EndInv
  <2> QED BY <1>1, <1>6, <2>1 DEF EndInv
<1>16. TimeInv(w)'
  <2>1. stamps[w] = "absent" BY <1>5, <1>6 DEF Local, EndInv
  <2>2. Recorded(w)' = Recorded(w) \cup {rec} BY <1>1, <1>11 DEF Recorded
  <2>3. \A s \in Recorded(w)' : window'[w].start <= s.start /\ s.end <= now'
    BY <1>1, <1>5, <1>7, <1>9, <2>2 DEF Local, TimeInv
  <2>4. \A s \in Mine(w)' : window'[w].start <= s.start BY <1>1, <1>5, <1>12 DEF Local, TimeInv
  <2> QED BY <1>1, <1>5, <1>6, <2>1, <2>3, <2>4 DEF Local, TimeInv, Stopped
<1>17. Local(w)' BY <1>14, <1>15, <1>16 DEF Local
<1>18. phase[w] \notin Ended BY <1>6 DEF Ended
<1> QED BY <1>1, <1>3, <1>4, <1>10, <1>11, <1>12, <1>17, <1>18, WorkerFrame

LEMMA WriteInv ==
  ASSUME IInv, ReportOpen, NEW w \in Workers, Write(w)
  PROVE  IInv'
<1>1. /\ phase[w] \notin Ended
      /\ UNCHANGED <<dataset, concurrency, now, phase, idx, window, whole, inflight, stamps, kills, report>>
  BY DEF Write, config
<1>2. PICK r \in queued[w] : /\ queued' = [queued EXCEPT ![w] = @ \ {r}]
                             /\ file' = [file EXCEPT ![w] = @ \cup {r}]
  BY DEF Write
<1>3. ConfigOK /\ StateOK /\ Local(w) BY TypeSplit DEF IInv
<1>4. ConfigOK' BY <1>1, <1>3, ConfigFrame
<1>5. Len(dataset) \in Nat /\ queued[w] \subseteq Record /\ file[w] \subseteq Record BY WorkerFacts
<1>6. StateOK'
  <2>1. inflight' \subseteq Request BY <1>1, <1>3 DEF StateOK
  <2>2. queued' = [queued EXCEPT ![w] = queued[w] \ {r}] /\ queued[w] \ {r} \in SUBSET Record
    BY <1>2, <1>5
  <2>3. file' = [file EXCEPT ![w] = file[w] \cup {r}] /\ file[w] \cup {r} \in SUBSET Record
    BY <1>2, <1>5
  <2> QED BY <1>1, <1>3, <1>5, <2>1, <2>2, <2>3, StateFrame
<1>7. /\ queued'[w] = queued[w] \ {r} /\ file'[w] = file[w] \cup {r}
      /\ \A v \in Workers \ {w} : queued'[v] = queued[v] /\ file'[v] = file[v]
  <2>1. queued \in [Workers -> SUBSET Record] /\ file \in [Workers -> SUBSET Record] BY <1>3 DEF StateOK
  <2> QED BY <1>2, <2>1
<1>8. \A v : Mine(v)' = Mine(v) BY <1>1 DEF Mine
<1>9. Recorded(w)' = Recorded(w) /\ Asked(w)' = Asked(w)
  <2>1. queued'[w] \cup file'[w] = queued[w] \cup file[w] BY <1>7
  <2>2. Mine(w)' \cup queued'[w] \cup file'[w] = Mine(w) \cup queued[w] \cup file[w]
    BY <1>7, <1>8
  <2> QED BY <2>1, <2>2 DEF Recorded, Asked
<1>10. ItemInv(w)'
  <2>1. SliceSize(w)' = SliceSize(w) /\ Taken(w)' = Taken(w) BY <1>1, DatasetFixed DEF Taken
  <2>2. /\ \A s \in queued[w] \ {r} : s.item # r.item
        /\ \A s \in Mine(w) : s.item # r.item
        /\ \A s \in file[w] : s.item # r.item
    BY <1>3 DEF Local, ItemInv, Distinct, ItemsOf
  <2>3. Distinct(queued[w] \ {r}) /\ Distinct(file[w] \cup {r})
    BY <1>3, <2>2 DEF Local, ItemInv, Distinct
  <2>4. /\ ItemsOf(file[w] \cup {r}) = ItemsOf(file[w]) \cup {r.item}
        /\ ItemsOf(queued[w] \ {r}) \subseteq ItemsOf(queued[w]) \ {r.item}
        /\ r.item \notin ItemsOf(Mine(w))
    BY <2>2 DEF ItemsOf
  <2>5. /\ Distinct(queued[w])' /\ Distinct(file[w])'
        /\ ItemsOf(queued[w])' = ItemsOf(queued[w] \ {r})
        /\ ItemsOf(file[w])' = ItemsOf(file[w] \cup {r})
    <3>1. /\ Distinct(queued[w])' <=> Distinct(queued'[w])
          /\ Distinct(file[w])' <=> Distinct(file'[w])
      BY DEF Distinct
    <3>2. ItemsOf(queued[w])' = ItemsOf(queued'[w]) /\ ItemsOf(file[w])' = ItemsOf(file'[w])
      BY DEF ItemsOf
    <3> QED BY <1>7, <2>3, <3>1, <3>2
  <2>6. Distinct(Mine(w))' /\ ItemsOf(Mine(w))' = ItemsOf(Mine(w))
    BY <1>3, <1>8 DEF Local, ItemInv, Distinct, ItemsOf
  <2>7. /\ ItemsOf(Mine(w)) \cap ItemsOf(queued[w]) = {}
        /\ ItemsOf(Mine(w)) \cap ItemsOf(file[w]) = {}
        /\ ItemsOf(queued[w]) \cap ItemsOf(file[w]) = {}
    BY <1>3 DEF Local, ItemInv
  <2>8. ItemsOf(Mine(w))' \cap ItemsOf(queued[w])' = {} BY <2>4, <2>5, <2>6, <2>7
  <2>9. ItemsOf(Mine(w))' \cap ItemsOf(file[w])' = {} BY <2>4, <2>5, <2>6, <2>7
  <2>10. ItemsOf(queued[w])' \cap ItemsOf(file[w])' = {} BY <2>4, <2>5, <2>7
  <2> QED BY <1>1, <1>3, <1>9, <2>1, <2>5, <2>6, <2>8, <2>9, <2>10 DEF Local, ItemInv
<1>11. EndInv(w)'
  <2>1. Partition(w)' = Partition(w) /\ ItemsOf(Recorded(w))' = ItemsOf(Recorded(w))
    BY <1>1, <1>9, DatasetFixed DEF ItemsOf
  <2>2. phase[w] # "exit" BY <1>1 DEF Ended
  <2> QED BY <1>1, <1>3, <1>8, <2>1, <2>2 DEF Local, EndInv
<1>12. TimeInv(w)' BY <1>1, <1>3, <1>8, <1>9 DEF Local, TimeInv
<1>13. Local(w)' BY <1>10, <1>11, <1>12 DEF Local
<1> QED BY <1>1, <1>4, <1>6, <1>7, <1>8, <1>13, WorkerFrame

LEMMA ReturnsInv ==
  ASSUME IInv, ReportOpen, NEW w \in Workers, GeneratorReturns(w)
  PROVE  IInv'
<1> DEFINE b == idx[w] = MaxRequests(w) /\ MaxRequests(w) # 0 /\ Mine(w) = {}
<1>1. /\ phase[w] = "run" /\ phase' = [phase EXCEPT ![w] = "ended"]
      /\ whole' = [whole EXCEPT ![w] = b]
      /\ inflight' = inflight \ Mine(w)
      /\ window' = [window EXCEPT ![w].end = now]
      /\ UNCHANGED <<dataset, concurrency, now, idx, queued, file, stamps, kills, report>>
  BY DEF GeneratorReturns, config
<1>2. ConfigOK /\ StateOK /\ Local(w) BY TypeSplit DEF IInv
<1>3. ConfigOK' BY <1>1, <1>2, ConfigFrame
<1>4. /\ Len(dataset) \in Nat /\ now \in Nat /\ now > 0 /\ now <= MaxTime /\ MaxTime \in Nat
      /\ idx[w] \in Nat /\ SliceStart(w) \in Nat /\ SliceSize(w) \in Nat
      /\ MaxRequests(w) = SliceSize(w) /\ window[w] \in WindowType
      /\ Partition(w) = SliceStart(w)..(SliceStart(w) + SliceSize(w) - 1)
  BY WorkerFacts
<1>5. b \in BOOLEAN OBVIOUS
<1>6. b => Partition(w) = Taken(w) /\ Mine(w) = {} BY <1>4 DEF Taken
<1> HIDE DEF b
<1>7. window' = [window EXCEPT ![w] = [window[w] EXCEPT !.end = now]]
      /\ [window[w] EXCEPT !.end = now] \in WindowType
  BY <1>1, <1>4 DEF WindowType, Times
<1>8. StateOK'
  <2>1. "ended" \in Phases /\ inflight' \subseteq Request BY <1>1, <1>2 DEF Phases, StateOK
  <2> QED BY <1>1, <1>2, <1>4, <1>5, <1>7, <2>1, StateFrame
<1>9. /\ phase'[w] = "ended" /\ window'[w].end = now /\ window'[w].start = window[w].start
      /\ whole'[w] = b
      /\ \A v \in Workers \ {w} : phase'[v] = phase[v] /\ window'[v] = window[v] /\ whole'[v] = whole[v]
  <2>1. /\ phase \in [Workers -> Phases] /\ window \in [Workers -> WindowType]
        /\ whole \in [Workers -> BOOLEAN]
    BY <1>2 DEF StateOK
  <2>2. window[w] \in [start : Times, end : Times] BY <1>4 DEF WindowType
  <2> QED BY <1>1, <1>7, <2>1, <2>2
<1>10. Mine(w)' = {} /\ \A v \in Workers \ {w} : Mine(v)' = Mine(v) BY <1>1 DEF Mine
<1>11. Recorded(w)' = Recorded(w) BY <1>1 DEF Recorded
<1>12. ItemInv(w)'
  <2>1. SliceSize(w)' = SliceSize(w) /\ Taken(w)' = Taken(w) BY <1>1, DatasetFixed DEF Taken
  <2>2. Distinct(Mine(w))' /\ ItemsOf(Mine(w))' = {} BY <1>10 DEF Distinct, ItemsOf
  <2>3. /\ Distinct(queued[w])' /\ Distinct(file[w])'
        /\ ItemsOf(queued[w])' = ItemsOf(queued[w]) /\ ItemsOf(file[w])' = ItemsOf(file[w])
    BY <1>1, <1>2 DEF Local, ItemInv, Distinct, ItemsOf
  <2>4. Asked(w)' \subseteq Asked(w) BY <1>1, <1>10 DEF Asked
  <2> QED BY <1>1, <1>2, <1>9, <2>1, <2>2, <2>3, <2>4 DEF Local, ItemInv
<1>13. EndInv(w)'
  <2>1. stamps[w] = "absent" BY <1>1, <1>2 DEF Local, EndInv
  <2>2. Partition(w)' = Partition(w) /\ ItemsOf(Recorded(w))' = ItemsOf(Recorded(w))
    BY <1>1, <1>11, DatasetFixed DEF ItemsOf
  <2>3. b => Partition(w) \subseteq ItemsOf(Recorded(w))
    <3>1. Taken(w) \subseteq Asked(w) BY <1>1, <1>2 DEF Local, ItemInv
    <3>2. Mine(w) = {} => Asked(w) = ItemsOf(Recorded(w)) BY DEF Asked, ItemsOf, Recorded
    <3> QED BY <1>6, <3>1, <3>2
  <2> QED BY <1>1, <1>9, <1>10, <2>1, <2>2, <2>3 DEF EndInv
<1>14. TimeInv(w)'
  <2>1. window[w].start > 0 BY <1>1, <1>2 DEF Local, TimeInv
  <2>2. \A r \in Recorded(w)' : window'[w].start <= r.start /\ r.end <= now
    BY <1>2, <1>9, <1>11 DEF Local, TimeInv
  <2>3. window'[w].start <= now BY <1>2, <1>9 DEF Local, TimeInv
  <2> QED BY <1>1, <1>4, <1>9, <1>10, <2>1, <2>2, <2>3 DEF TimeInv
<1>15. Local(w)' BY <1>12, <1>13, <1>14 DEF Local
<1>16. phase[w] \notin Ended BY <1>1 DEF Ended
<1> QED BY <1>1, <1>3, <1>8, <1>9, <1>10, <1>15, <1>16, WorkerFrame

\* A step that changes only where a worker is and what its timestamps file holds, or
\* that cuts what it has in flight.
LEMMA PhaseStep ==
  ASSUME IInv, ReportOpen, NEW w \in Workers, phase[w] \notin Ended,
         UNCHANGED <<dataset, concurrency, now, idx, window, whole, queued, file, report>>,
         ConfigOK',
         NEW p \in Phases, phase' = [phase EXCEPT ![w] = p], p # "init", p # "run",
         NEW s \in StampStates, stamps' = [stamps EXCEPT ![w] = s],
         inflight' = inflight \ Mine(w),
         stamps[w] # "absent" => s # "absent",
         s # "absent" => stamps[w] # "absent" \/ phase[w] = "ended",
         p \in Stopped => phase[w] \in Stopped,
         p \in {"closing", "exit"} => s = "written",
         p = "exit" => queued[w] = {}
  PROVE  IInv'
<1>1. ConfigOK /\ StateOK /\ Local(w) BY TypeSplit DEF IInv
<1>2. Len(dataset) \in Nat BY WorkerFacts
<1>3. StateOK'
  <2>1. inflight' \subseteq Request BY <1>1 DEF StateOK
  <2> QED BY <1>1, <1>2, <2>1, StateFrame
<1>4. /\ phase'[w] = p /\ stamps'[w] = s
      /\ \A v \in Workers \ {w} : phase'[v] = phase[v] /\ stamps'[v] = stamps[v]
  <2>1. phase \in [Workers -> Phases] /\ stamps \in [Workers -> StampStates] BY <1>1 DEF StateOK
  <2> HIDE DEF Phases, StampStates
  <2> QED BY <2>1
<1>5. Mine(w)' = {} /\ \A v \in Workers \ {w} : Mine(v)' = Mine(v) BY DEF Mine
<1>6. Recorded(w)' = Recorded(w) BY DEF Recorded
<1>7. ItemInv(w)'
  <2>1. SliceSize(w)' = SliceSize(w) /\ Taken(w)' = Taken(w) BY DatasetFixed DEF Taken
  <2>2. Distinct(Mine(w))' /\ ItemsOf(Mine(w))' = {} BY <1>5 DEF Distinct, ItemsOf
  <2>3. /\ Distinct(queued[w])' /\ Distinct(file[w])'
        /\ ItemsOf(queued[w])' = ItemsOf(queued[w]) /\ ItemsOf(file[w])' = ItemsOf(file[w])
    BY <1>1 DEF Local, ItemInv, Distinct, ItemsOf
  <2>4. Asked(w)' \subseteq Asked(w) BY <1>5 DEF Asked
  <2> QED BY <1>1, <1>4, <2>1, <2>2, <2>3, <2>4 DEF Local, ItemInv
<1>8. EndInv(w)'
  <2>1. Partition(w)' = Partition(w) /\ ItemsOf(Recorded(w))' = ItemsOf(Recorded(w))
    BY <1>6, DatasetFixed DEF ItemsOf
  <2> QED BY <1>1, <1>4, <1>5, <2>1 DEF Local, EndInv
<1>9. TimeInv(w)'
  <2>1. phase[w] = "ended" => phase[w] \in Stopped BY DEF Stopped
  <2>2. p \in Stopped \/ s # "absent" => phase[w] \in Stopped \/ stamps[w] # "absent" BY <2>1
  <2> QED BY <1>1, <1>4, <1>5, <1>6, <2>2 DEF Local, TimeInv
<1>10. Local(w)' BY <1>7, <1>8, <1>9 DEF Local
<1> QED BY <1>3, <1>4, <1>5, <1>10, WorkerFrame

LEMMA TimestampsInv ==
  ASSUME IInv, ReportOpen, NEW w \in Workers, WriteTimestamps(w) \/ Close(w) \/ Crash(w)
  PROVE  IInv'
<1>1. ConfigOK /\ StateOK /\ Local(w) /\ kills \in Nat BY TypeSplit, ConfigFacts DEF IInv
<1>2. phase \in [Workers -> Phases] /\ stamps \in [Workers -> StampStates] BY <1>1 DEF StateOK
<1>3. phase[w] # "run" => inflight \ Mine(w) = inflight BY <1>1 DEF Local, EndInv
<1>4. phase = [phase EXCEPT ![w] = phase[w]] /\ stamps = [stamps EXCEPT ![w] = stamps[w]]
      /\ phase[w] \in Phases /\ stamps[w] \in StampStates
  <2> HIDE DEF Phases, StampStates
  <2> QED BY <1>2
<1>5. /\ {"ended", "closing", "exit", "crashed"} \subseteq Phases
      /\ {"torn", "written"} \subseteq StampStates
  BY DEF Phases, Ended, StampStates
<1>6. CASE WriteTimestamps(w)
  <2>1. /\ phase[w] = "ended" /\ phase[w] \notin Ended
        /\ UNCHANGED <<dataset, concurrency, now, idx, window, whole, inflight, queued, file, kills, report>>
    BY <1>6 DEF WriteTimestamps, config, Ended
  <2>2. ConfigOK' BY <1>1, <2>1, ConfigFrame
  <2>3. CASE stamps[w] = "absent" /\ stamps' = [stamps EXCEPT ![w] = "torn"] /\ UNCHANGED phase
    <3>1. phase' = [phase EXCEPT ![w] = "ended"] BY <1>4, <2>1, <2>3
    <3> QED BY <1>3, <1>5, <2>1, <2>2, <2>3, <3>1, PhaseStep DEF Stopped
  <2>4. CASE /\ stamps[w] = "torn" /\ stamps' = [stamps EXCEPT ![w] = "written"]
             /\ phase' = [phase EXCEPT ![w] = "closing"]
    BY <1>3, <1>5, <2>1, <2>2, <2>4, PhaseStep DEF Stopped
  <2> QED BY <1>6, <2>3, <2>4 DEF WriteTimestamps
<1>7. CASE Close(w)
  <2>1. /\ phase[w] = "closing" /\ phase[w] \notin Ended /\ queued[w] = {}
        /\ phase' = [phase EXCEPT ![w] = "exit"]
        /\ UNCHANGED <<dataset, concurrency, now, idx, window, whole, inflight, queued, file, stamps, kills, report>>
    BY <1>7 DEF Close, config, Ended
  <2>2. ConfigOK' BY <1>1, <2>1, ConfigFrame
  <2>3. stamps[w] = "written" BY <1>1, <2>1 DEF Local, EndInv
  <2>4. stamps' = [stamps EXCEPT ![w] = "written"] BY <1>4, <2>1, <2>3
  <2> QED BY <1>3, <1>5, <2>1, <2>2, <2>3, <2>4, PhaseStep DEF Stopped
<1>8. CASE Crash(w)
  <2>1. /\ phase[w] \notin Ended /\ phase' = [phase EXCEPT ![w] = "crashed"]
        /\ kills > 0 /\ kills' = kills - 1 /\ inflight' = inflight \ Mine(w)
        /\ UNCHANGED <<dataset, concurrency, now, idx, window, whole, queued, file, stamps, report>>
    BY <1>8 DEF Crash, config
  <2>2. ConfigOK' BY <1>1, <2>1, ConfigFrame
  <2>3. stamps' = [stamps EXCEPT ![w] = stamps[w]] BY <1>4, <2>1
  <2> QED BY <1>4, <1>5, <2>1, <2>2, <2>3, PhaseStep DEF Stopped
<1> QED BY <1>6, <1>7, <1>8

LEMMA TickInv ==
  ASSUME IInv, ReportOpen, Tick
  PROVE  IInv'
<1>1. /\ now < MaxTime /\ now' = now + 1
      /\ UNCHANGED <<dataset, concurrency, phase, idx, window, whole, inflight, queued, file, stamps, kills, report>>
  BY DEF Tick, config, workerVars
<1>2. PICK w \in Workers : phase[w] \notin Ended BY DEF Tick, Ended
<1>3. ConfigOK /\ StateOK BY TypeSplit DEF IInv
<1>4. now \in Nat /\ now > 0 /\ MaxTime \in Nat BY <1>2, WorkerFacts
<1>5. ConfigOK' BY <1>1, <1>3, ConfigFrame
<1>6. StateOK'
  <2>1. Record' = Record /\ Request' = Request BY <1>1, DatasetFixed
  <2>2. Phases' = Phases /\ WindowType' = WindowType /\ StampStates' = StampStates /\ Workers' = Workers
    BY DEF Phases, WindowType, StampStates, Workers, Times, Ended
  <2>3. now' \in 1..MaxTime BY <1>1, <1>4
  <2> HIDE DEF Record, Request, Phases, WindowType, StampStates
  <2> QED BY <1>1, <1>3, <2>1, <2>2, <2>3 DEF StateOK
<1>7. ASSUME NEW v \in Workers PROVE Local(v)'
  <2>1. now' \in Nat /\ now <= now' /\ Mine(v)' = Mine(v) BY <1>1, <1>4 DEF Mine
  <2> QED BY <1>1, <2>1, LocalFrame
<1>8. ReportInv' BY <1>1, <1>2, ReportFrame
<1>9. report' \in ReportType'
  <2>1. report \in ReportType /\ ReportType' = ReportType BY <1>1, TypeSplit, DatasetFixed DEF IInv
  <2> QED BY <1>1, <2>1
<1>10. TypeOK' BY <1>5, <1>6, <1>9, TypeSplitNext
<1>11. Workers' = Workers BY DEF Workers
<1> QED BY <1>7, <1>8, <1>10, <1>11 DEF IInv

-----------------------------------------------------------------------------
(* The report.                                                             *)

\* A set of times that is not empty has a greatest and a least element.
LEMMA Extremes ==
  ASSUME NEW S, S # {}, NEW n \in Nat, S \subseteq 0..n
  PROVE  /\ Greatest(S) \in S /\ \A y \in S : y <= Greatest(S)
         /\ Least(S) \in S /\ \A y \in S : Least(S) <= y
<1>1. \E x \in S : \A y \in S : x <= y
  <2>1. S \subseteq Nat OBVIOUS
  <2> QED BY <2>1, NatMin
<1>2. \E x \in S : \A y \in S : y <= x
  <2> DEFINE T == {n - x : x \in S}
  <2>1. \A x \in S : n - x \in Nat OBVIOUS
  <2>2. T \subseteq Nat BY <2>1
  <2>3. T # {}
    <3>1. PICK x \in S : TRUE OBVIOUS
    <3>2. n - x \in T BY <3>1
    <3> QED BY <3>2
  <2> HIDE DEF T
  <2>4. PICK t \in T : \A u \in T : t <= u BY <2>2, <2>3, NatMin
  <2>5. PICK x \in S : t = n - x BY <2>4 DEF T
  <2>6. \A y \in S : n - y \in T BY DEF T
  <2>7. \A y \in S : y <= x
    <3> TAKE y \in S
    <3>1. n - x <= n - y BY <2>4, <2>5, <2>6
    <3>2. x \in 0..n /\ y \in 0..n OBVIOUS
    <3> QED BY <3>1, <3>2
  <2> QED BY <2>7
<1> QED BY <1>1, <1>2 DEF Greatest, Least

\* The window that several workers have in common is one they all were measuring in.
LEMMA CommonIsCommon ==
  ASSUME StateOK, MaxTime \in Nat, NEW W \in SUBSET Workers, W # {}
  PROVE  /\ CommonWindow(W) \in WindowType
         /\ \A w \in W : /\ window[w].start <= CommonWindow(W).start
                         /\ CommonWindow(W).end <= window[w].end
         /\ \E w \in W : CommonWindow(W).start = window[w].start
         /\ \E w \in W : CommonWindow(W).end = window[w].end
<1> DEFINE S == {window[w].start : w \in W}
           E == {window[w].end : w \in W}
<1>1. \A w \in W : window[w].start \in 0..MaxTime /\ window[w].end \in 0..MaxTime
  <2>1. \A w \in W : window[w] \in WindowType BY DEF StateOK
  <2> QED BY <2>1 DEF WindowType, Times
<1>2. S \subseteq 0..MaxTime /\ E \subseteq 0..MaxTime BY <1>1
<1>3. CommonWindow(W) = [start |-> Greatest(S), end |-> Least(E)] BY DEF CommonWindow
<1>4. \A w \in W : window[w].start \in S /\ window[w].end \in E OBVIOUS
<1>5. S # {} /\ E # {} BY <1>4
<1>6. \A x \in S : \E w \in W : x = window[w].start OBVIOUS
<1>7. \A x \in E : \E w \in W : x = window[w].end OBVIOUS
<1> HIDE DEF S, E
<1>8. Greatest(S) \in S /\ \A y \in S : y <= Greatest(S) BY <1>2, <1>5, Extremes
<1>9. Least(E) \in E /\ \A y \in E : Least(E) <= y BY <1>2, <1>5, Extremes
<1>10. CommonWindow(W).start = Greatest(S) /\ CommonWindow(W).end = Least(E) BY <1>3
<1>11. CommonWindow(W) \in WindowType
  <2>1. Greatest(S) \in Times /\ Least(E) \in Times BY <1>2, <1>8, <1>9 DEF Times
  <2> HIDE DEF Times
  <2> QED BY <1>3, <2>1 DEF WindowType
<1>12. \A w \in W : window[w].start <= Greatest(S) /\ Least(E) <= window[w].end
  BY <1>4, <1>8, <1>9
<1>13. (\E w \in W : Greatest(S) = window[w].start) /\ \E w \in W : Least(E) = window[w].end
  BY <1>6, <1>7, <1>8, <1>9
<1> QED BY <1>10, <1>11, <1>12, <1>13

LEMMA MeasurementWindowType ==
  ASSUME StateOK, MaxTime \in Nat, report.stamped \subseteq Workers
  PROVE  LoadMeasurementWindow \in WindowType
<1>1. NoWindow \in WindowType BY DEF NoWindow, WindowType, Times
<1>2. report.stamped # {} => CommonWindow(report.stamped) \in WindowType BY CommonIsCommon
<1> HIDE DEF WindowType
<1> QED BY <1>1, <1>2 DEF LoadMeasurementWindow

\* A step of the report.
LEMMA ReportStep ==
  ASSUME IInv, UNCHANGED <<config, now, workerVars>>, report' \in ReportType, ReportInv'
  PROVE  IInv'
<1>1. UNCHANGED <<dataset, concurrency, now, phase, idx, window, whole, inflight, queued, file, stamps, kills>>
  BY DEF config, workerVars
<1>2. ConfigOK /\ StateOK BY TypeSplit DEF IInv
<1>3. ConfigOK' BY <1>1, <1>2, ConfigFrame
<1>4. /\ Record' = Record /\ Request' = Request /\ ReportType' = ReportType
  BY <1>1, DatasetFixed
<1>5. StateOK'
  <2>1. Phases' = Phases /\ WindowType' = WindowType /\ StampStates' = StampStates /\ Workers' = Workers
    BY DEF Phases, WindowType, StampStates, Workers, Times, Ended
  <2> HIDE DEF Record, Request, Phases, WindowType, StampStates
  <2> QED BY <1>1, <1>2, <1>4, <2>1 DEF StateOK
<1>6. ASSUME NEW v \in Workers PROVE Local(v)'
  <2>1. Mine(v)' = Mine(v) BY <1>1 DEF Mine
  <2>2. now \in Nat /\ now <= now BY WorkerFacts
  <2> QED BY <1>1, <2>1, <2>2, LocalFrame
<1>7. TypeOK' BY <1>3, <1>4, <1>5, TypeSplitNext
<1>8. Workers' = Workers BY DEF Workers
<1> QED BY <1>6, <1>7, <1>8 DEF IInv

LEMMA ListInv ==
  ASSUME IInv, ListArtifacts
  PROVE  IInv'
<1>1. report \in ReportType BY TypeSplit DEF IInv
<1>2. /\ report' = [report EXCEPT !.pc = "listed", !.final = \A w \in Workers : phase[w] \in Ended,
                              !.listed = {w \in Workers : phase[w] # "init"},
                              !.stamped = {w \in Workers : stamps[w] # "absent"}]
      /\ UNCHANGED <<config, now, workerVars>>
  BY DEF ListArtifacts
<1>3. UNCHANGED <<phase, stamps>> BY <1>2 DEF workerVars
<1>4. report' \in ReportType
  <2> HIDE DEF Record, WindowType
  <2> QED BY <1>1, <1>2 DEF ReportType
<1>5. /\ report'.pc = "listed" /\ report'.stamped = {w \in Workers : stamps[w] # "absent"}
      /\ report'.listed = {w \in Workers : phase[w] # "init"}
      /\ report'.final => \A w \in Workers : phase[w] \in Ended
  BY <1>1, <1>2 DEF ReportType
<1>6. report'.final => report'.listed = Workers BY <1>5 DEF Ended
<1>7. ReportInv' BY <1>3, <1>5, <1>6 DEF ReportInv, Workers, Ended
<1> QED BY <1>2, <1>4, <1>7, ReportStep

LEMMA AggregateInv ==
  ASSUME IInv, AggregateRequestArtifacts
  PROVE  IInv'
<1> DEFINE records == UNION {file[w] : w \in report.listed}
           win == LoadMeasurementWindow
           inside == {r \in records : win = NoWindow \/ Inside(r, win)}
<1>1. report \in ReportType /\ StateOK /\ ConfigOK /\ ReportInv BY TypeSplit DEF IInv
<1>2. report.pc = "listed" /\ UNCHANGED <<config, now, workerVars>>
  BY DEF AggregateRequestArtifacts
<1>3. UNCHANGED <<phase, stamps, window, file>> BY <1>2 DEF workerVars
<1>4. report.listed \subseteq Workers /\ report.stamped \subseteq Workers BY <1>1 DEF ReportType
<1>5. win \in WindowType BY <1>1, <1>4, ConfigFacts, MeasurementWindowType
<1>6. records \subseteq Record
  <2>1. \A w \in Workers : file[w] \subseteq Record BY <1>1 DEF StateOK
  <2> HIDE DEF Record
  <2> QED BY <1>4, <2>1
<1>7. CASE report' = [report EXCEPT !.pc = "done", !.window = win, !.counted = inside]
  <2>1. inside \subseteq Record
    <3> HIDE DEF Record, records, win
    <3> QED BY <1>6
  <2>2. report' \in ReportType
    <3> HIDE DEF Record, WindowType, win, inside
    <3> QED BY <1>1, <1>5, <1>7, <2>1 DEF ReportType
  <2>3. /\ report'.pc = "done" /\ report'.window = win /\ report'.counted = inside
        /\ report'.final = report.final /\ report'.listed = report.listed
        /\ report'.stamped = report.stamped
    <3> HIDE DEF win, inside
    <3> QED BY <1>1, <1>7 DEF ReportType
  <2>4. LoadMeasurementWindow' = win
    BY <1>3, <2>3 DEF LoadMeasurementWindow, CommonWindow, NoWindow, Greatest, Least
  <2>5. /\ (UNION {file[w] : w \in report.listed})' = records BY <1>3, <2>3
  <2>6. NoWindow' = NoWindow /\ \A r : Inside(r, report.window)' <=> Inside(r, report'.window)
    BY DEF NoWindow, Inside
  <2>7. ReportInv'
    <3>1. report.stamped' = report.stamped /\ \A w \in report.stamped : stamps'[w] # "absent"
      BY <1>1, <1>2, <1>3, <2>3 DEF ReportInv
    <3>2. report'.final =>
            /\ \A w \in Workers : phase'[w] \in Ended
            /\ report'.listed = Workers
            /\ report'.stamped = {w \in Workers : stamps'[w] # "absent"}
      BY <1>1, <1>2, <1>3, <2>3 DEF ReportInv
    <3>3. report'.counted = {r \in (UNION {file[w] : w \in report.listed})' :
                               report'.window = NoWindow \/ Inside(r, report'.window)}
      BY <2>3, <2>5
    <3>4. Workers' = Workers /\ Ended' = Ended BY DEF Workers, Ended
    <3> HIDE DEF records, win, inside
    <3> QED BY <2>3, <2>4, <2>6, <3>1, <3>2, <3>3, <3>4 DEF ReportInv
  <2> QED BY <1>2, <2>2, <2>7, ReportStep
<1>8. CASE report' = [report EXCEPT !.pc = "failed"]
  <2>1. report' \in ReportType
    <3> HIDE DEF Record, WindowType
    <3> QED BY <1>1, <1>8 DEF ReportType
  <2>2. /\ report'.pc = "failed" /\ report'.final = report.final /\ report'.listed = report.listed
        /\ report'.stamped = report.stamped
    BY <1>1, <1>8 DEF ReportType
  <2>3. ReportInv' BY <1>1, <1>2, <1>3, <2>2 DEF ReportInv, Workers, Ended
  <2> QED BY <1>2, <2>1, <2>3, ReportStep
<1> QED BY <1>7, <1>8 DEF AggregateRequestArtifacts

-----------------------------------------------------------------------------
LEMMA InitInv ==
  ASSUME Init
  PROVE  IInv
<1>1. PICK e \in Evaluations : dataset = e.answers /\ concurrency = e.concurrency /\ kills = e.kills
  BY DEF Init
<1>2. ConfigOK
  <2>1. e.kills \in Nat BY ResultsAssumption
  <2> QED BY <1>1, <2>1 DEF ConfigOK
<1>3. Len(dataset) \in Nat /\ MaxTime \in Nat \ {0} BY <1>2, ConfigFacts
<1>4. StateOK
  <2>1. now \in 1..MaxTime BY <1>3 DEF Init
  <2>2. phase \in [Workers -> Phases] BY DEF Init, Phases
  <2>3. idx \in [Workers -> 0..Len(dataset)] BY <1>3 DEF Init
  <2>4. whole \in [Workers -> BOOLEAN] BY DEF Init
  <2>5. window \in [Workers -> WindowType] BY <1>3 DEF Init, WindowType, NoWindow, Times
  <2>6. stamps \in [Workers -> StampStates] BY DEF Init, StampStates
  <2>7. inflight \subseteq Request BY DEF Init
  <2>8. queued \in [Workers -> SUBSET Record] /\ file \in [Workers -> SUBSET Record] BY DEF Init
  <2> QED BY <2>1, <2>2, <2>3, <2>4, <2>5, <2>6, <2>7, <2>8 DEF StateOK
<1>5. report \in ReportType BY <1>3 DEF Init, ReportType, WindowType, NoWindow, Times
<1>6. TypeOK BY <1>2, <1>4, <1>5, TypeSplit
<1>7. ReportInv BY DEF Init, ReportInv
<1>8. ASSUME NEW w \in Workers PROVE Local(w)
  <2>1. /\ phase[w] = "init" /\ idx[w] = 0 /\ window[w].start = 0 /\ ~whole[w] /\ now = 1
        /\ queued[w] = {} /\ file[w] = {} /\ stamps[w] = "absent"
    BY DEF Init, NoWindow
  <2>2. Mine(w) = {} BY DEF Init, Mine
  <2>3. SliceSize(w) \in Nat BY <1>3, SliceStep
  <2>4. ItemInv(w) BY <2>1, <2>2, <2>3 DEF ItemInv, Distinct, ItemsOf, Asked
  <2>5. EndInv(w) BY <2>1, <2>2 DEF EndInv
  <2>6. TimeInv(w) BY <2>1, <2>2 DEF TimeInv, Recorded, Stopped
  <2> QED BY <2>4, <2>5, <2>6 DEF Local
<1> QED BY <1>6, <1>7, <1>8 DEF IInv

LEMMA StepInv ==
  ASSUME IInv, [Next]_vars
  PROVE  IInv'
<1>1. CASE UNCHANGED vars
  <2>1. UNCHANGED <<config, now, workerVars, report>> BY <1>1 DEF vars
  <2>2. report \in ReportType /\ ReportInv BY TypeSplit DEF IInv
  <2>3. ReportInv'
    <3>1. UNCHANGED <<phase, stamps, window, file, report>> BY <2>1 DEF workerVars
    <3>2. LoadMeasurementWindow' = LoadMeasurementWindow
      BY <3>1 DEF LoadMeasurementWindow, CommonWindow, NoWindow, Greatest, Least
    <3> QED BY <2>2, <3>1, <3>2 DEF ReportInv, Workers, Ended, Inside, NoWindow
  <2> QED BY <2>1, <2>2, <2>3, ReportStep
<1>2. CASE ReportOpen /\ \E w \in Workers : WorkerStep(w) \/ Crash(w)
  BY <1>2, StartInv, AskInv, AskNothingInv, WriteInv, ReturnsInv, TimestampsInv DEF WorkerStep
<1>3. CASE ReportOpen /\ \E r \in inflight : Answer(r) BY <1>3, AnswerInv
<1>4. CASE Report BY <1>4, ListInv, AggregateInv DEF Report
<1>5. CASE ReportOpen /\ Tick BY <1>5, TickInv
<1> QED BY <1>1, <1>2, <1>3, <1>4, <1>5 DEF Next

LEMMA Invariance == Spec => []IInv
  BY InitInv, StepInv, PTL DEF Spec

\* Every worker, file and report holds a value it can have, for any dataset.
THEOREM TypeCorrect == Spec => []TypeOK
<1>1. IInv => TypeOK BY DEF IInv
<1> QED BY <1>1, Invariance, PTL

-----------------------------------------------------------------------------
(* The questions.                                                          *)

\* Requests or records with different items are as many as their items.
LEMMA CountItems ==
  ASSUME NEW R, Distinct(R), IsFiniteSet(ItemsOf(R))
  PROVE  IsFiniteSet(R) /\ Cardinality(R) = Cardinality(ItemsOf(R))
<1> DEFINE f == [r \in R |-> r.item]
<1>1. f \in [R -> ItemsOf(R)] BY DEF ItemsOf
<1>2. f \in Injection(R, ItemsOf(R)) BY <1>1 DEF Injection, IsInjective, Distinct
<1>3. f \in Surjection(R, ItemsOf(R)) BY <1>1 DEF Surjection, ItemsOf
<1> QED BY <1>2, <1>3, FS_Injection

\* The items of a worker, and how many they are.
LEMMA AskedCount ==
  ASSUME IInv, NEW w \in Workers
  PROVE  /\ Asked(w) \subseteq Partition(w)
         /\ Cardinality(Asked(w)) = Cardinality(Mine(w)) + Cardinality(queued[w]) + Cardinality(file[w])
<1> DEFINE A == ItemsOf(Mine(w))
           B == ItemsOf(queued[w])
           C == ItemsOf(file[w])
<1>1. Local(w) /\ Len(dataset) \in Nat BY WorkerFacts DEF IInv
<1>2. Asked(w) \subseteq Partition(w)
  <2>1. /\ idx[w] \in Nat /\ SliceStart(w) \in Nat /\ SliceSize(w) \in Nat
        /\ Partition(w) = SliceStart(w)..(SliceStart(w) + SliceSize(w) - 1)
    BY WorkerFacts
  <2>2. Taken(w) \subseteq Partition(w) BY <1>1, <2>1 DEF Local, ItemInv, Taken
  <2> QED BY <1>1, <2>2 DEF Local, ItemInv
<1>3. Asked(w) = A \cup B \cup C BY DEF Asked, ItemsOf
<1>4. IsFiniteSet(Partition(w)) BY <1>1, PartitionIsSlice
<1>5. A \subseteq Partition(w) /\ B \subseteq Partition(w) /\ C \subseteq Partition(w)
  BY <1>2, <1>3
<1>6. A \cap B = {} /\ (A \cup B) \cap C = {} BY <1>1 DEF Local, ItemInv
<1>7. Distinct(Mine(w)) /\ Distinct(queued[w]) /\ Distinct(file[w]) BY <1>1 DEF Local, ItemInv
<1>8. IsFiniteSet(A) /\ IsFiniteSet(B) /\ IsFiniteSet(C) BY <1>4, <1>5, FS_Subset
<1>9. /\ Cardinality(Mine(w)) = Cardinality(A) /\ Cardinality(queued[w]) = Cardinality(B)
      /\ Cardinality(file[w]) = Cardinality(C)
  BY <1>7, <1>8, CountItems
<1> HIDE DEF A, B, C
<1>10. IsFiniteSet(A \cup B) /\ Cardinality(A \cup B) = Cardinality(A) + Cardinality(B)
  <2>1. /\ IsFiniteSet(A \cup B)
        /\ Cardinality(A \cup B) = Cardinality(A) + Cardinality(B) - Cardinality(A \cap B)
    BY <1>8, FS_Union
  <2>2. Cardinality(A \cap B) = 0 BY <1>6, FS_EmptySet
  <2>3. Cardinality(A) \in Nat /\ Cardinality(B) \in Nat BY <1>8, FS_CardinalityType
  <2> QED BY <2>1, <2>2, <2>3
<1>11. Cardinality((A \cup B) \cup C) = Cardinality(A) + Cardinality(B) + Cardinality(C)
  <2>1. Cardinality((A \cup B) \cup C)
          = Cardinality(A \cup B) + Cardinality(C) - Cardinality((A \cup B) \cap C)
    BY <1>8, <1>10, FS_Union
  <2>2. Cardinality((A \cup B) \cap C) = 0 BY <1>6, FS_EmptySet
  <2>3. Cardinality(A) \in Nat /\ Cardinality(B) \in Nat /\ Cardinality(C) \in Nat
    BY <1>8, FS_CardinalityType
  <2> QED BY <1>10, <2>1, <2>2, <2>3
<1> QED BY <1>2, <1>3, <1>9, <1>11

\* No question of the dataset is asked twice, whatever its length and the number of
\* workers, streams and crashes.
THEOREM QuestionsAskedOnce == Spec => []EachItemOnce
<1>1. IInv => EachItemOnce
  <2> SUFFICES ASSUME IInv, NEW w \in Workers
               PROVE  /\ Cardinality(Asked(w)) = Cardinality(Mine(w)) + Cardinality(queued[w])
                                                   + Cardinality(file[w])
                      /\ \A v \in Workers \ {w} : Asked(v) \cap Asked(w) = {}
    BY DEF EachItemOnce
  <2>1. ASSUME NEW v \in Workers \ {w} PROVE Asked(v) \cap Asked(w) = {}
    <3>1. Asked(v) \subseteq Partition(v) /\ Asked(w) \subseteq Partition(w) BY AskedCount
    <3>2. Partition(v) \cap Partition(w) = {} BY WorkerFacts, SlicesDisjoint
    <3> QED BY <3>1, <3>2
  <2> QED BY <2>1, AskedCount
<1> QED BY <1>1, Invariance, PTL

\* An evaluation whose workers have all ended by themselves has every question of
\* the dataset in its files.
THEOREM EvaluationsAreComplete == Spec => []EvalComplete
<1>1. IInv => EvalComplete
  <2> SUFFICES ASSUME IInv, \A w \in Workers : whole[w] /\ phase[w] = "exit", NEW i \in Items
               PROVE  \E w \in Workers : \E r \in file[w] : r.item = i
    BY DEF EvalComplete
  <2>1. Len(dataset) \in Nat
    <3>1. ConfigOK BY TypeSplit DEF IInv
    <3> QED BY <3>1, ConfigFacts
  <2>2. PICK w \in Workers : i \in Partition(w) BY <2>1, SlicesCover
  <2>3. EndInv(w) BY DEF IInv, Local
  <2>4. queued[w] = {} /\ Partition(w) \subseteq ItemsOf(Recorded(w)) BY <2>3 DEF EndInv
  <2> QED BY <2>2, <2>4 DEF ItemsOf, Recorded
<1> QED BY <1>1, Invariance, PTL

-----------------------------------------------------------------------------
(* The windows.                                                            *)

\* The records of a worker whose timestamps are written lie in its own window.
THEOREM RecordsInOwnWindow == Spec => []OwnWindow
<1>1. IInv => OwnWindow
  <2> SUFFICES ASSUME IInv, NEW w \in Workers, stamps[w] = "written",
                      NEW r \in queued[w] \cup file[w]
               PROVE  window[w].start <= r.start /\ r.end <= window[w].end
    BY DEF OwnWindow
  <2>1. TimeInv(w) BY DEF IInv, Local
  <2> QED BY <2>1 DEF TimeInv, Recorded
<1> QED BY <1>1, Invariance, PTL

\* What is known of a report that is done and has a window.
LEMMA WindowOfReport ==
  ASSUME IInv, report.pc = "done", report.window # NoWindow
  PROVE  /\ report.stamped # {} /\ report.stamped \in SUBSET Workers
         /\ \A w \in report.stamped : stamps[w] = "written"
         /\ report.window = CommonWindow(report.stamped)
         /\ report.window \in WindowType /\ report.window.start < report.window.end
         /\ \A w \in report.stamped : /\ window[w].start <= report.window.start
                                      /\ report.window.end <= window[w].end
         /\ report.window.start > 0
<1>1. report \in ReportType /\ StateOK /\ ConfigOK /\ ReportInv BY TypeSplit DEF IInv
<1>2. report.window = LoadMeasurementWindow BY <1>1 DEF ReportInv
<1>3. report.stamped \in SUBSET Workers /\ report.window \in WindowType BY <1>1 DEF ReportType
<1>4. /\ report.stamped # {} /\ \A w \in report.stamped : stamps[w] # "torn"
      /\ report.window = CommonWindow(report.stamped)
      /\ ~(CommonWindow(report.stamped).end <= CommonWindow(report.stamped).start)
  BY <1>2 DEF LoadMeasurementWindow
<1>5. \A w \in report.stamped : stamps[w] = "written"
  <2>1. \A w \in Workers : stamps[w] \in StampStates BY <1>1 DEF StateOK
  <2>2. \A w \in report.stamped : stamps[w] # "absent" BY <1>1 DEF ReportInv
  <2> QED BY <1>3, <1>4, <2>1, <2>2 DEF StampStates
<1>6. MaxTime \in Nat BY <1>1, ConfigFacts
<1>7. report.window.start < report.window.end
  <2>1. report.window.start \in Nat /\ report.window.end \in Nat BY <1>3, <1>6 DEF WindowType, Times
  <2> QED BY <1>4, <2>1
<1>8. \A w \in report.stamped : /\ window[w].start <= report.window.start
                                /\ report.window.end <= window[w].end
  BY <1>1, <1>3, <1>4, <1>6, CommonIsCommon
<1>9. report.window.start > 0
  <2>1. PICK w \in report.stamped : CommonWindow(report.stamped).start = window[w].start
    BY <1>1, <1>3, <1>4, <1>6, CommonIsCommon
  <2>2. TimeInv(w) /\ stamps[w] # "absent" BY <1>3, <1>5, <2>1 DEF IInv, Local
  <2> QED BY <1>4, <2>1, <2>2 DEF TimeInv
<1> QED BY <1>3, <1>4, <1>5, <1>7, <1>8, <1>9

\* A report counts only what lies in the window of every worker it has timestamps of,
\* whenever it was made; with all workers complete, its window is the final one.
THEOREM ReportsAreExact == Spec => []ExactWindow
<1>1. IInv => ExactWindow
  <2> SUFFICES ASSUME IInv, report.pc = "done", report.window # NoWindow
               PROVE  /\ \A r \in report.counted : \A w \in report.stamped :
                           window[w].start <= r.start /\ r.end <= window[w].end
                      /\ Complete = Workers => report.window = CommonWindow(Workers)
    BY DEF ExactWindow
  <2>1. report \in ReportType /\ StateOK /\ ConfigOK /\ ReportInv BY TypeSplit DEF IInv
  <2>2. MaxTime \in Nat BY <2>1, ConfigFacts
  <2>3. ASSUME NEW r \in report.counted, NEW w \in report.stamped
        PROVE  window[w].start <= r.start /\ r.end <= window[w].end
    <3>1. Inside(r, report.window) BY <2>1 DEF ReportInv
    <3>2. r \in Record /\ report.window \in WindowType BY <2>1 DEF ReportType
    <3>3. w \in Workers BY <2>1 DEF ReportType
    <3>4. window[w] \in WindowType BY <2>1, <3>3 DEF StateOK
    <3>5. /\ r.start \in Nat /\ r.end \in Nat /\ window[w].start \in Nat /\ window[w].end \in Nat
          /\ report.window.start \in Nat /\ report.window.end \in Nat
      BY <2>2, <3>2, <3>4 DEF Record, WindowType, Times
    <3>6. window[w].start <= report.window.start /\ report.window.end <= window[w].end
      BY WindowOfReport
    <3> QED BY <3>1, <3>5, <3>6 DEF Inside
  <2>4. Complete = Workers => report.window = CommonWindow(Workers)
    <3>1. report.stamped \subseteq Workers BY <2>1 DEF ReportType
    <3>2. Complete = Workers => report.stamped = Workers BY <3>1 DEF Complete
    <3> QED BY <3>2, WindowOfReport
  <2> QED BY <2>3, <2>4
<1> QED BY <1>1, Invariance, PTL

-----------------------------------------------------------------------------
(* The report and analyze.                                                 *)

\* The time from the first start to the last end is a number, and at most the length
\* of a window that all of the records are in.
LEMMA SpanBounds ==
  ASSUME MaxTime \in Nat, NEW R, \A r \in R : r.start \in Times /\ r.end \in Times
  PROVE  /\ Span(R) \in Int
         /\ \A a, b \in Nat :
              (a <= b /\ \A r \in R : a <= r.start /\ r.end <= b) => Span(R) <= b - a
<1>1. CASE R = {} BY <1>1 DEF Span
<1>2. CASE R # {}
  <2> DEFINE S == {r.start : r \in R}
             E == {r.end : r \in R}
  <2>1. S \subseteq 0..MaxTime /\ E \subseteq 0..MaxTime BY DEF Times
  <2>2. S # {} /\ E # {}
    <3>1. PICK r \in R : TRUE BY <1>2
    <3>2. r.start \in S /\ r.end \in E BY <3>1
    <3> QED BY <3>2
  <2>3. Span(R) = Greatest(E) - Least(S) BY <1>2 DEF Span
  <2>4. \A a, b \in Nat :
          (\A r \in R : a <= r.start /\ r.end <= b) => (\A x \in S : a <= x) /\ \A y \in E : y <= b
    OBVIOUS
  <2> HIDE DEF S, E
  <2>5. Greatest(E) \in E /\ Least(S) \in S BY <2>1, <2>2, Extremes
  <2>6. Greatest(E) \in Nat /\ Least(S) \in Nat
    <3>1. Greatest(E) \in 0..MaxTime /\ Least(S) \in 0..MaxTime BY <2>1, <2>5, Zenon
    <3> HIDE DEF Greatest, Least
    <3> QED BY <3>1
  <2>7. ASSUME NEW a \in Nat, NEW b \in Nat, \A r \in R : a <= r.start /\ r.end <= b
        PROVE  Span(R) <= b - a
    <3>1. a <= Least(S) /\ Greatest(E) <= b BY <2>4, <2>5, <2>7
    <3> QED BY <2>3, <2>6, <3>1
  <2> QED BY <2>3, <2>6, <2>7
<1> QED BY <1>1, <1>2

\* A report and analyze differ only in their records and in the duration.
LEMMA SameCounts ==
  ASSUME NEW R, NEW d, NEW e, NEW m
  PROVE  LET s == [Summary(R, d) EXCEPT !.conversations = IF @ > m THEN m ELSE @]
             a == Summary(R, e)
         IN /\ \A field \in {"total", "ok", "errors", "evaluated", "correct"} : s[field] = a[field]
            /\ s.conversations \in {a.conversations, m}
            /\ s.duration = d /\ a.duration = e
BY DEF Summary

\* What analyze counts once all workers have ended is what the report has counted.
LEMMA SameRecords ==
  ASSUME IInv, report.pc = "done", report.final,
         ~NeverTogether(report.stamped)
  PROVE  Analyze = Summary(report.counted, Span(report.counted))
<1>1. report \in ReportType /\ StateOK /\ ConfigOK /\ ReportInv BY TypeSplit DEF IInv
<1>2. /\ report.listed = Workers
      /\ report.stamped = {w \in Workers : stamps[w] # "absent"}
      /\ report.counted = {r \in UNION {file[w] : w \in report.listed} :
                             report.window = NoWindow \/ Inside(r, report.window)}
      /\ report.window = LoadMeasurementWindow
  BY <1>1 DEF ReportInv
<1>3. report.counted = {r \in LoadRecords : report.window = NoWindow \/ Inside(r, report.window)}
  BY <1>2 DEF LoadRecords
<1>4. MaxTime \in Nat BY <1>1, ConfigFacts
<1>5. CASE report.stamped = {} \/ \E w \in report.stamped : stamps[w] = "torn"
  <2>1. LoadTimestamps = NoWindow BY <1>2, <1>5 DEF LoadTimestamps
  <2>2. report.window = NoWindow BY <1>2, <1>5 DEF LoadMeasurementWindow
  <2>3. report.counted = LoadRecords BY <1>3, <2>2
  <2>4. ~(NoWindow.start > 0 /\ NoWindow.end > 0) BY DEF NoWindow
  <2> QED BY <2>1, <2>3, <2>4 DEF Analyze, Compute
<1>6. CASE report.stamped # {} /\ \A w \in report.stamped : stamps[w] # "torn"
  <2>1. report.window # NoWindow
    <3> DEFINE common == CommonWindow(report.stamped)
    <3>1. \A w \in report.stamped : stamps[w] = "written" BY <1>1, <1>2, <1>6 DEF StateOK, StampStates
    <3>2. ~(common.end <= common.start) BY <1>6, <3>1 DEF NeverTogether
    <3>3. report.window = common BY <1>2, <1>6, <3>2 DEF LoadMeasurementWindow
    <3>4. NoWindow.end <= NoWindow.start BY DEF NoWindow
    <3> QED BY <3>2, <3>3, <3>4
  <2>2. /\ \A w \in report.stamped : stamps[w] = "written"
        /\ report.window = CommonWindow(report.stamped)
        /\ report.window \in WindowType /\ report.window.start < report.window.end
        /\ report.window.start > 0
    BY <2>1, WindowOfReport
  <2>3. LoadTimestamps = report.window
    <3>1. \A w \in report.stamped : stamps[w] # "torn" BY <2>2
    <3> QED BY <1>2, <1>6, <2>2, <3>1 DEF LoadTimestamps
  <2>4. /\ report.window.start \in Nat /\ report.window.end \in Nat /\ report.window.end > 0
    BY <1>4, <2>2 DEF WindowType, Times
  <2>5. \A r \in LoadRecords : r.start \in Nat /\ r.end \in Nat
    <3>1. \A w \in Workers : file[w] \subseteq Record BY <1>1 DEF StateOK
    <3>2. LoadRecords \subseteq Record
      <4> HIDE DEF Record
      <4> QED BY <3>1 DEF LoadRecords
    <3> QED BY <1>4, <3>2 DEF Record, Times
  <2>6. report.counted = {r \in LoadRecords : /\ r.start >= report.window.start
                                              /\ r.end <= report.window.end}
    <3>1. \A r \in LoadRecords : Inside(r, report.window) <=> /\ r.start >= report.window.start
                                                              /\ r.end <= report.window.end
      BY <2>4, <2>5 DEF Inside
    <3> QED BY <1>3, <2>1, <3>1
  <2> QED BY <2>2, <2>3, <2>4, <2>6 DEF Analyze, Compute
<1> QED BY <1>5, <1>6

\* A report made after the run has the counts of analyze and never a shorter
\* duration, whatever the workers' windows and crashes, unless all timestamps can be
\* read and the windows have no common part.
THEOREM ReportsAgreeWithAnalyze == Spec => []AgreesWithAnalyze
<1>1. IInv => AgreesWithAnalyze
  <2> DEFINE R == report.counted
             d == IF report.window # NoWindow THEN report.window.end - report.window.start ELSE Span(R)
  <2> SUFFICES ASSUME IInv, report.pc = "done", report.final,
                      ~NeverTogether(report.stamped)
               PROVE  LET s == Aggregate(R, report.window)
                          a == Analyze
                      IN /\ \A field \in {"total", "ok", "errors", "evaluated", "correct"} :
                              s[field] = a[field]
                         /\ s.conversations \in {a.conversations, MaxSamples}
                         /\ s.duration >= a.duration
    BY DEF AgreesWithAnalyze
  <2>1. report \in ReportType /\ ConfigOK /\ ReportInv BY TypeSplit DEF IInv
  <2>2. MaxTime \in Nat BY <2>1, ConfigFacts
  <2>3. \A r \in R : r.start \in Times /\ r.end \in Times BY <2>1 DEF ReportType, Record
  <2>4. Span(R) \in Int BY <2>2, <2>3, SpanBounds
  <2>5. d >= Span(R)
    <3>1. CASE report.window = NoWindow BY <2>4, <3>1
    <3>2. CASE report.window # NoWindow
      <4>1. report.window \in WindowType /\ report.window.start < report.window.end
        BY <3>2, WindowOfReport
      <4>2. report.window.start \in Nat /\ report.window.end \in Nat
        BY <2>2, <4>1 DEF WindowType, Times
      <4>3. \A r \in R : Inside(r, report.window) BY <2>1, <3>2 DEF ReportInv
      <4>4. \A r \in R : report.window.start <= r.start /\ r.end <= report.window.end
        BY <2>2, <2>3, <4>2, <4>3 DEF Inside, Times
      <4>5. Span(R) <= report.window.end - report.window.start
        <5> HIDE DEF R
        <5>1. report.window.start <= report.window.end BY <4>1, <4>2
        <5> QED BY <2>2, <2>3, <4>2, <4>4, <5>1, SpanBounds
      <4> QED BY <2>4, <3>2, <4>2, <4>5
    <3> QED BY <3>1, <3>2
  <2>6. Analyze = Summary(R, Span(R)) BY SameRecords
  <2>7. Aggregate(R, report.window)
          = [Summary(R, d) EXCEPT !.conversations = IF @ > MaxSamples THEN MaxSamples ELSE @]
    BY DEF Aggregate
  <2> HIDE DEF R, d
  <2> QED BY <2>5, <2>6, <2>7, SameCounts
<1> QED BY <1>1, Invariance, PTL
=============================================================================
