----------------------- MODULE ConversationPoolProofs -----------------------
(***************************************************************************)
(* Proofs about ConversationPool for any number of streams, any pool sizes *)
(* and any list of stages: a conversation is never in two hands, a stream  *)
(* that may send always finds a conversation, the queue serves the least   *)
(* recently used one, and a limited stage sends exactly its requests.      *)
(***************************************************************************)
EXTENDS ConversationPool, FiniteSetTheorems, SequenceTheorems, WellFoundedInduction, TLAPS

\* The streams in one of the given phases.
In(phases) == {s \in Streams : pc[s] \in phases}

Free == In({"delay", "head", "next"})   \* alive, and without a conversation
Got == In({"got"})                      \* with a reservation not yet used
Busy == {"got", "sent", "back"}         \* with a conversation: Holders = In(Busy)

\* While a pool is running the driver is at its stage; streams run in a pool.
DriverInv ==
  /\ phase \in {"wait", "stopping", "complete"} => cur = i /\ i <= Len(plan)
  /\ cur = 0 => \A s \in Streams : pc[s] = "off"

\* Exclusive, and what a stream holds is live.
HoldInv == Exclusive /\ \A s \in Holders : held[s] \in convs

\* A turn that was sent is a turn the conversation has.
LeftInv == \A s \in Streams : pc[s] = "sent" => left[held[s]] >= 1

\* The pool never grows: neither the live conversations nor those that are in the
\* queue or in a stream's hands exceed its size.
SizeInv ==
  cur # 0 => /\ Cardinality(convs) <= PoolSize(plan[cur])
             /\ Len(Queue) + Cardinality(Holders) <= PoolSize(plan[cur])

\* As long as conversations are replaced, only the streams that are not free can
\* be missing one from the queue; and the first ones can only leave it by a
\* reservation.
SupplyInv ==
  cur # 0 =>
    /\ CanCreate => Len(Queue) + plan[cur].conc >= InitialSlots(plan[cur]) + Cardinality(Free)
    /\ Limit > 0 => Len(Queue) + count >= InitialSlots(plan[cur])

\* What has waited longer is nearer to the head.
RotationInv ==
  cur # 0 => \A p \in 1..Len(Queue) : bypass[Queue[p]] + p <= PoolSize(plan[cur])

\* Unless the stage is cut short every reservation is a request sent or about to
\* be, and a stream is alive while reservations are left.
ReservedInv ==
  cur # 0 =>
    /\ Limit > 0 => count <= Limit
    /\ Limit > 0 /\ ~Cancelled => sent + Cardinality(Got) = count
    /\ ~Cancelled /\ Reserve /\ plan[cur].conc > 0 => \E s \in Streams : pc[s] # "off"

Inv ==
  DriverInv /\ HoldInv /\ LeftInv /\ SizeInv /\ SupplyInv /\ RotationInv /\ ReservedInv

IInv == TypeOK /\ Inv

-----------------------------------------------------------------------------
(* The constants and the operators.                                        *)

LEMMA NumberFacts ==
  /\ NConvs \in Nat /\ MaxTurns \in Nat /\ ErrorLimit \in Nat /\ MaxPending \in Nat
  /\ NConvs >= 1 /\ MaxTurns >= 1 /\ ErrorLimit >= 1 /\ MaxPending >= 1
  /\ CompactAt \in Nat
  /\ Convs \subseteq Nat /\ None \notin Convs /\ IsFiniteSet(Convs)
<1>1. NConvs \in Nat \ {0} /\ MaxTurns \in Nat \ {0} /\ ErrorLimit \in Nat \ {0} /\ MaxPending \in Nat \ {0}
      /\ CompactAt \in Nat
  BY BoundsAssumption
<1>2. IsFiniteSet(Convs) BY <1>1, FS_Interval DEF Convs
<1> QED BY <1>1, <1>2 DEF Convs, None

LEMMA MinOfPair ==
  ASSUME NEW a \in Int, NEW b \in Int
  PROVE  /\ Min({a, b}) = IF a <= b THEN a ELSE b
<1> DEFINE P(x) == \A y \in {a, b} : x <= y
           m == IF a <= b THEN a ELSE b
<1>1. m \in {a, b} /\ P(m) OBVIOUS
<1>2. \A x \in {a, b} : P(x) => x = m OBVIOUS
<1>3. Min({a, b}) = CHOOSE x \in {a, b} : P(x) BY DEF Min
<1> HIDE DEF P, m
<1>4. (CHOOSE x \in {a, b} : P(x)) = m BY <1>1, <1>2
<1> QED BY <1>3, <1>4 DEF m

\* The fresh id of addConversationLocked.
LEMMA MinOfIds ==
  ASSUME NEW S, S \subseteq Nat, S # {}
  PROVE  Min(S) \in S
<1> DEFINE R == OpToRel(<, Nat)
<1>1. \E x \in S : \A y \in S : ~(<<y, x>> \in R) BY NatLessThanWellFounded, WFMin, Zenon
<1>2. PICK x \in S : \A y \in S : ~(<<y, x>> \in R) BY <1>1, Zenon
<1>3. \A y \in S : x <= y
  <2> SUFFICES ASSUME NEW y \in S, ~(x <= y) PROVE FALSE OBVIOUS
  <2>1. x \in Nat /\ y \in Nat /\ y < x OBVIOUS
  <2>2. <<y, x>> \in R BY <2>1, Zenon DEF OpToRel
  <2> QED BY <2>2, <1>2, Zenon
<1> QED BY <1>3 DEF Min

\* A stage of the plan: its pool is at least as large as its concurrency, and it
\* starts with a full pool or with one conversation per request.
LEMMA StageFacts ==
  ASSUME NEW p \in Plans, NEW k \in 1..Len(p)
  PROVE  /\ p[k] \in Stage
         /\ p[k].conc \in Nat /\ p[k].max \in Nat /\ p[k].pool \in Nat
         /\ PoolSize(p[k]) \in Nat /\ p[k].conc <= PoolSize(p[k]) /\ PoolSize(p[k]) <= NConvs
         /\ p[k].conc <= Cardinality(Streams)
         /\ InitialSlots(p[k]) \in Nat /\ InitialSlots(p[k]) <= PoolSize(p[k])
         /\ InitialSlots(p[k]) = PoolSize(p[k]) \/ (p[k].max > 0 /\ InitialSlots(p[k]) = p[k].max)
<1>1. p \in Seq(Stage) BY PlansAssumption
<1>2. p[k] \in Stage BY <1>1
<1>3. p[k].conc \in Nat /\ p[k].max \in Nat /\ p[k].pool \in Nat BY <1>2 DEF Stage
<1>4. PoolSize(p[k]) \in Nat BY <1>3 DEF PoolSize
<1>5. p[k].conc <= PoolSize(p[k]) /\ PoolSize(p[k]) <= NConvs /\ p[k].conc <= Cardinality(Streams)
  BY PlansAssumption DEF Validate
<1>6. /\ InitialSlots(p[k]) \in Nat /\ InitialSlots(p[k]) <= PoolSize(p[k])
      /\ InitialSlots(p[k]) = PoolSize(p[k]) \/ (p[k].max > 0 /\ InitialSlots(p[k]) = p[k].max)
  BY <1>3, <1>4, MinOfPair DEF InitialSlots
<1> QED BY <1>2, <1>3, <1>4, <1>5, <1>6

\* There are as many streams as a stage asks for.
LEMMA ChosenStreams ==
  ASSUME NEW n \in Nat, n <= Cardinality(Streams)
  PROVE  \E T \in SUBSET Streams : Cardinality(T) = n
<1>1. IsFiniteSet(Streams) BY BoundsAssumption
<1>2. Cardinality(Streams) \in Nat /\ ExistsBijection(1..Cardinality(Streams), Streams)
  BY <1>1, FS_CardinalityType
<1>3. PICK f \in Bijection(1..Cardinality(Streams), Streams) : TRUE BY <1>2 DEF ExistsBijection
<1> DEFINE T == {f[k] : k \in 1..n}
<1>4. /\ f \in [1..Cardinality(Streams) -> Streams]
      /\ \A a, b \in 1..Cardinality(Streams) : f[a] = f[b] => a = b
  BY <1>3 DEF Bijection, Injection, IsInjective
<1>5. T \in SUBSET Streams BY <1>2, <1>4
<1> DEFINE g == [k \in 1..n |-> f[k]]
<1>6. g \in Bijection(1..n, T)
  <2>1. g \in [1..n -> T] OBVIOUS
  <2>2. \A a, b \in 1..n : g[a] = g[b] => a = b BY <1>2, <1>4
  <2>3. \A t \in T : \E k \in 1..n : g[k] = t OBVIOUS
  <2> HIDE DEF g, T
  <2> QED BY <2>1, <2>2, <2>3 DEF Bijection, Injection, Surjection, IsInjective
<1>7. Cardinality(T) = n BY <1>6, FS_CountingElements DEF ExistsBijection
<1> QED BY <1>5, <1>7

-----------------------------------------------------------------------------
(* The queue.                                                              *)

LEMMA SuffixFacts ==
  ASSUME NEW r \in Seq(Convs), NEW h \in 0..Len(r), NEW q, q = SubSeq(r, h + 1, Len(r))
  PROVE  /\ q \in Seq(Convs)
         /\ Len(q) = Len(r) - h
         /\ \A p \in 1..Len(q) : q[p] = r[h + p] /\ q[p] \in Convs
         /\ Len(q) \in Nat
<1>1. q \in Seq(Convs) /\ Len(q) = Len(r) - h OBVIOUS
<1>2. \A p \in 1..Len(q) : q[p] = r[h + p] BY <1>1
<1>3. \A p \in 1..Len(q) : q[p] \in Convs BY <1>1
<1>4. Len(q) \in Nat BY <1>1
<1> QED BY <1>1, <1>2, <1>3, <1>4

LEMMA QueueFacts ==
  ASSUME ready \in Seq(Convs), head \in 0..Len(ready)
  PROVE  /\ Queue \in Seq(Convs)
         /\ Len(Queue) = Len(ready) - head
         /\ \A p \in 1..Len(Queue) : Queue[p] = ready[head + p] /\ Queue[p] \in Convs
         /\ Len(Queue) \in Nat
BY SuffixFacts DEF Queue

LEMMA NextQueueFacts ==
  ASSUME ready' \in Seq(Convs), head' \in 0..Len(ready')
  PROVE  /\ Queue' \in Seq(Convs)
         /\ Len(Queue') = Len(ready') - head'
         /\ \A p \in 1..Len(Queue') : Queue'[p] = ready'[head' + p]
BY SuffixFacts DEF Queue

\* popReadyLocked drops the head, whether or not it compacts the slice.
LEMMA PopFacts ==
  ASSUME ready \in Seq(Convs), head \in 0..Len(ready), Queue # <<>>, Compact
  PROVE  /\ ready' \in Seq(Convs) /\ head' \in 0..Len(ready')
         /\ Len(Queue) >= 1 /\ Head(Queue) = Queue[1]
         /\ Len(Queue') = Len(Queue) - 1
         /\ Queue' = Tail(Queue)
         /\ \A p \in 1..Len(Queue') : Queue'[p] = Queue[p + 1]
<1>1. /\ Queue \in Seq(Convs) /\ Len(Queue) = Len(ready) - head /\ Len(Queue) \in Nat
      /\ \A p \in 1..Len(Queue) : Queue[p] = ready[head + p]
  BY QueueFacts
<1>2. Len(Queue) >= 1 /\ Head(Queue) = Queue[1] BY <1>1
<1>3. ready' \in Seq(Convs) /\ head' \in 0..Len(ready') /\ Len(ready') - head' = Len(Queue) - 1
      /\ \A p \in 1..(Len(Queue) - 1) : ready'[head' + p] = ready[head + (p + 1)]
  <2>1. CASE head + 1 > CompactAt /\ (head + 1) * 2 >= Len(ready)
    <3>1. ready' = SubSeq(ready, head + 2, Len(ready)) /\ head' = 0 BY <2>1 DEF Compact
    <3>2. ready' \in Seq(Convs) /\ Len(ready') = Len(ready) - (head + 1) BY <1>1, <1>2, <3>1
    <3>3. \A p \in 1..(Len(Queue) - 1) : ready'[p] = ready[head + (p + 1)] BY <1>1, <1>2, <3>1, <3>2
    <3>4. head' \in 0..Len(ready') /\ Len(ready') - head' = Len(Queue) - 1 BY <1>1, <3>1, <3>2
    <3>5. \A p \in 1..(Len(Queue) - 1) : head' + p = p BY <1>1, <3>1
    <3> QED BY <3>2, <3>3, <3>4, <3>5
  <2>2. CASE ~(head + 1 > CompactAt /\ (head + 1) * 2 >= Len(ready))
    <3>1. ready' = ready /\ head' = head + 1 BY <2>2 DEF Compact
    <3> QED BY <1>1, <1>2, <3>1
  <2> QED BY <2>1, <2>2
<1>4. /\ Queue' \in Seq(Convs) /\ Len(Queue') = Len(ready') - head'
      /\ \A p \in 1..Len(Queue') : Queue'[p] = ready'[head' + p]
  <2>1. ready' \in Seq(Convs) /\ head' \in 0..Len(ready') BY <1>3
  <2> QED BY <2>1, NextQueueFacts
<1>5. Len(Queue') = Len(Queue) - 1 BY <1>3, <1>4
<1>6. ASSUME NEW p \in 1..Len(Queue') PROVE Queue'[p] = Queue[p + 1]
  <2>1. p \in 1..(Len(Queue) - 1) /\ p + 1 \in 1..Len(Queue) BY <1>1, <1>5
  <2>2. Queue'[p] = ready'[head' + p] BY <1>4
  <2>3. ready'[head' + p] = ready[head + (p + 1)] BY <2>1, <1>3
  <2>4. Queue[p + 1] = ready[head + (p + 1)] BY <2>1, <1>1
  <2> QED BY <2>2, <2>3, <2>4
<1>7. Queue' = Tail(Queue)
  <2>1. Tail(Queue) \in Seq(Convs) /\ Len(Tail(Queue)) = Len(Queue) - 1
        /\ \A p \in 1..Len(Tail(Queue)) : Tail(Queue)[p] = Queue[p + 1]
    BY <1>1, <1>2
  <2> QED BY <1>4, <1>5, <1>6, <2>1, SeqEqual
<1> QED BY <1>2, <1>3, <1>5, <1>6, <1>7

\* pushReadyLocked appends to the queue.
LEMMA PushFacts ==
  ASSUME ready \in Seq(Convs), head \in 0..Len(ready), NEW c \in Convs,
         ready' = PushReady(ready, c), head' = head
  PROVE  /\ ready' \in Seq(Convs) /\ head' \in 0..Len(ready')
         /\ Len(Queue') = Len(Queue) + 1
         /\ \A p \in 1..Len(Queue) : Queue'[p] = Queue[p]
         /\ Queue'[Len(Queue) + 1] = c
<1>1. /\ Queue \in Seq(Convs) /\ Len(Queue) = Len(ready) - head /\ Len(Queue) \in Nat
      /\ \A p \in 1..Len(Queue) : Queue[p] = ready[head + p]
  BY QueueFacts
<1>2. ready' \in Seq(Convs) /\ Len(ready') = Len(ready) + 1 /\ ready'[Len(ready) + 1] = c
      /\ \A p \in 1..Len(ready) : ready'[p] = ready[p]
  BY DEF PushReady
<1>3. /\ Queue' \in Seq(Convs) /\ Len(Queue') = Len(ready') - head'
      /\ \A p \in 1..Len(Queue') : Queue'[p] = ready'[head' + p]
  <2>1. ready' \in Seq(Convs) /\ head' \in 0..Len(ready') BY <1>2
  <2> QED BY <2>1, NextQueueFacts
<1>4. \A p \in 1..Len(Queue) : Queue'[p] = Queue[p]
  <2> SUFFICES ASSUME NEW p \in 1..Len(Queue) PROVE Queue'[p] = Queue[p] OBVIOUS
  <2>1. p \in 1..Len(Queue') /\ head + p \in 1..Len(ready) BY <1>1, <1>2, <1>3
  <2> QED BY <1>1, <1>2, <1>3, <2>1
<1>5. Queue'[Len(Queue) + 1] = c
  <2>1. Len(Queue) + 1 \in 1..Len(Queue') BY <1>1, <1>2, <1>3
  <2>2. Queue'[Len(Queue) + 1] = ready'[head' + (Len(Queue) + 1)] BY <2>1, <1>3
  <2>3. head' + (Len(Queue) + 1) = Len(ready) + 1 BY <1>1
  <2> QED BY <2>2, <2>3, <1>2
<1> QED BY <1>1, <1>2, <1>3, <1>4, <1>5

\* Exclusive, position by position.
LEMMA ExclusiveAlt ==
  ASSUME ready \in Seq(Convs), head \in 0..Len(ready)
  PROVE  Exclusive <=>
           /\ \A s, t \in Holders : held[s] = held[t] => s = t
           /\ \A s \in Holders : \A p \in 1..Len(Queue) : Queue[p] # held[s]
           /\ \A p, q \in 1..Len(Queue) : Queue[p] = Queue[q] => p = q
           /\ \A p \in 1..Len(Queue) : Queue[p] \in convs
<1>1. DOMAIN Queue = 1..Len(Queue) BY QueueFacts
<1>2. Range(Queue) = {Queue[p] : p \in 1..Len(Queue)} BY <1>1 DEF Range
<1> QED BY <1>1, <1>2 DEF Exclusive, IsInjective

-----------------------------------------------------------------------------
(* Counting streams by phase.                                              *)

Finite(S) == IsFiniteSet(S) /\ Cardinality(S) \in Nat

LEMMA InFinite == \A P : Finite(In(P))
<1> SUFFICES ASSUME NEW P PROVE Finite(In(P)) OBVIOUS
<1>1. In(P) \subseteq Streams BY DEF In
<1>2. IsFiniteSet(In(P)) BY <1>1, BoundsAssumption, FS_Subset
<1> QED BY <1>2, FS_CardinalityType DEF Finite

\* One stream changes phase.
LEMMA InMoves ==
  ASSUME pc \in [Streams -> StreamPhases], NEW s \in Streams, NEW x, pc' = [pc EXCEPT ![s] = x], NEW P
  PROVE  /\ Finite(In(P)')
         /\ Cardinality(In(P)') = Cardinality(In(P)) + (IF x \in P THEN 1 ELSE 0) - (IF pc[s] \in P THEN 1 ELSE 0)
<1>1. Finite(In(P)) BY InFinite
<1>2. \A t \in Streams : t # s => pc'[t] = pc[t] OBVIOUS
<1>3. pc'[s] = x OBVIOUS
<1>4. CASE x \in P /\ pc[s] \in P
  <2>1. In(P)' = In(P) BY <1>2, <1>3, <1>4 DEF In
  <2> QED BY <1>1, <1>4, <2>1 DEF Finite
<1>5. CASE x \notin P /\ pc[s] \notin P
  <2>1. In(P)' = In(P) BY <1>2, <1>3, <1>5 DEF In
  <2> QED BY <1>1, <1>5, <2>1 DEF Finite
<1>6. CASE x \in P /\ pc[s] \notin P
  <2>1. In(P)' = In(P) \cup {s} /\ s \notin In(P) BY <1>2, <1>3, <1>6 DEF In
  <2>2. IsFiniteSet(In(P)') /\ Cardinality(In(P)') = Cardinality(In(P)) + 1 BY <1>1, <2>1, FS_AddElement DEF Finite
  <2> QED BY <1>1, <1>6, <2>2 DEF Finite
<1>7. CASE x \notin P /\ pc[s] \in P
  <2>1. In(P)' = In(P) \ {s} /\ s \in In(P) BY <1>2, <1>3, <1>7 DEF In
  <2>2. IsFiniteSet(In(P)') /\ Cardinality(In(P)') = Cardinality(In(P)) - 1 BY <1>1, <2>1, FS_RemoveElement DEF Finite
  <2>3. Cardinality(In(P)') \in Nat BY <2>2, FS_CardinalityType
  <2> QED BY <1>1, <1>7, <2>2, <2>3 DEF Finite
<1> QED BY <1>4, <1>5, <1>6, <1>7

LEMMA HoldersAre == Holders = In(Busy) /\ Holders' = In(Busy)'
BY DEF Holders, In, Busy

-----------------------------------------------------------------------------
(* Consequences of the invariant.                                          *)

LEMMA PlanFacts ==
  ASSUME TypeOK
  PROVE  plan \in Plans /\ Len(plan) \in Nat /\ cur \in Nat /\ (cur # 0 => cur \in 1..Len(plan))
<1>1. plan \in Plans /\ plan \in Seq(Stage) BY PlansAssumption DEF TypeOK
<1>2. Len(plan) \in Nat BY <1>1
<1> QED BY <1>1, <1>2 DEF TypeOK

\* The running stage.
LEMMA CurFacts ==
  ASSUME TypeOK, cur # 0
  PROVE  /\ plan[cur].conc \in Nat /\ Limit \in Nat
         /\ PoolSize(plan[cur]) \in Nat /\ plan[cur].conc <= PoolSize(plan[cur])
         /\ InitialSlots(plan[cur]) \in Nat /\ InitialSlots(plan[cur]) <= PoolSize(plan[cur])
         /\ InitialSlots(plan[cur]) = PoolSize(plan[cur]) \/ (Limit > 0 /\ InitialSlots(plan[cur]) = Limit)
BY PlanFacts, StageFacts DEF Limit

LEMMA AliveFacts ==
  ASSUME IInv, NEW s \in Streams, pc[s] # "off"
  PROVE  cur # 0
BY DEF IInv, Inv, DriverInv

\* A stream that can reserve finds a conversation.
LEMMA Supplied == IInv => ReadyWhenNeeded
<1> SUFFICES ASSUME IInv, NEW s \in Streams, pc[s] = "next", Reserve PROVE Queue # <<>>
  BY DEF ReadyWhenNeeded
<1>1. TypeOK /\ cur # 0 BY AliveFacts DEF IInv
<1>2. Len(Queue) \in Nat /\ (Len(Queue) >= 1 => Queue # <<>>) BY <1>1, QueueFacts DEF TypeOK
<1>3. s \in Free BY DEF Free, In
<1>4. Finite(Free) BY InFinite DEF Free
<1>5. Cardinality(Free) >= 1 /\ Cardinality(Free) \in Nat BY <1>3, <1>4, FS_EmptySet DEF Finite
<1>6. count \in Nat BY <1>1 DEF TypeOK
<1>7. Len(Queue) + plan[cur].conc >= InitialSlots(plan[cur]) + Cardinality(Free)
  BY <1>1 DEF IInv, Inv, SupplyInv, Reserve, CanCreate
<1>8. Limit > 0 => Len(Queue) + count >= InitialSlots(plan[cur]) /\ count < Limit
  BY <1>1 DEF IInv, Inv, SupplyInv, Reserve
<1>9. Len(Queue) >= 1
  <2>1. CASE InitialSlots(plan[cur]) = PoolSize(plan[cur]) BY <1>1, <1>2, <1>5, <1>7, <2>1, CurFacts
  <2>2. CASE Limit > 0 /\ InitialSlots(plan[cur]) = Limit BY <1>1, <1>2, <1>6, <1>8, <2>2, CurFacts
  <2> QED BY <1>1, <2>1, <2>2, CurFacts
<1> QED BY <1>2, <1>9

-----------------------------------------------------------------------------
(* Steps that leave the pool and its streams alone.                        *)

PoolParts == HoldInv /\ LeftInv /\ SizeInv /\ SupplyInv /\ RotationInv /\ ReservedInv

Quiet ==
  \/ LeaveLoop \/ OnBarrier \/ StageFinished \/ StageInterrupted \/ StageTimeout
  \/ StageStopped \/ NextStage \/ StopEarly \/ Return \/ Interrupt \/ RecordResult \/ UNCHANGED vars

LEMMA QuietKeeps == ASSUME IInv, Quiet PROVE IInv'
<1> TypeOK BY DEF IInv
<1>1. UNCHANGED <<plan, schedVars, streamVars>> /\ (Cancelled => Cancelled')
  BY DEF Quiet, LeaveLoop, OnBarrier, StageFinished, StageInterrupted, StageTimeout, StageStopped, NextStage,
         StopEarly, Return, Interrupt, RecordResult, vars, driverVars, Cancelled
<1>2. UNCHANGED <<plan, cur, count, ready, head, convs, bypass, left, pc, held, sent>>
  BY <1>1 DEF schedVars, streamVars
<1>3. UNCHANGED <<Queue, Holders, Free, Got, Limit, CanCreate, Reserve>>
  BY <1>2 DEF Queue, Holders, Free, Got, In, Limit, CanCreate, Reserve
<1>4. PoolParts'
  <2>1. PoolParts BY DEF IInv, Inv, PoolParts
  <2>2. HoldInv' BY <1>2, <1>3, <2>1 DEF PoolParts, HoldInv, Exclusive
  <2>3. LeftInv' BY <1>2, <2>1 DEF PoolParts, LeftInv
  <2>4. SizeInv' /\ RotationInv' BY <1>2, <1>3, <2>1 DEF PoolParts, SizeInv, RotationInv
  <2>5. SupplyInv' BY <1>2, <1>3, <2>1 DEF PoolParts, SupplyInv
  <2>6. ReservedInv' BY <1>1, <1>2, <1>3, <2>1 DEF PoolParts, ReservedInv
  <2> QED BY <2>2, <2>3, <2>4, <2>5, <2>6 DEF PoolParts
<1>5. Len(plan) \in Nat /\ i \in Nat /\ i >= 1 /\ pending \in Nat BY PlanFacts, NumberFacts DEF TypeOK
<1>6. DriverInv' /\ i' \in 1..(Len(plan) + 1) /\ phase' \in Phases
  <2> USE DEF IInv, Inv, DriverInv, TypeOK, Phases
  <2>1. CASE LeaveLoop BY <1>2, <2>1 DEF LeaveLoop
  <2>2. CASE OnBarrier BY <1>2, <1>5, <2>2 DEF OnBarrier
  <2>3. CASE StageFinished BY <1>2, <2>3 DEF StageFinished
  <2>4. CASE StageInterrupted BY <1>2, <2>4 DEF StageInterrupted
  <2>5. CASE StageTimeout BY <1>2, <2>5 DEF StageTimeout
  <2>6. CASE StageStopped BY <1>2, <2>6 DEF StageStopped
  <2>7. CASE NextStage BY <1>2, <1>5, <2>7 DEF NextStage
  <2>8. CASE StopEarly BY <1>2, <2>8 DEF StopEarly
  <2>9. CASE Return BY <1>2, <2>9 DEF Return
  <2>10. CASE Interrupt BY <1>2, <2>10 DEF Interrupt
  <2>11. CASE RecordResult BY <1>2, <2>11 DEF RecordResult, driverVars
  <2>12. CASE UNCHANGED vars BY <1>2, <2>12 DEF vars
  <2> QED BY <2>1, <2>2, <2>3, <2>4, <2>5, <2>6, <2>7, <2>8, <2>9, <2>10, <2>11, <2>12 DEF Quiet
<1>7. {ctxDone', stageDone'} \subseteq BOOLEAN
  BY DEF TypeOK, Quiet, LeaveLoop, OnBarrier, StageFinished, StageInterrupted, StageTimeout, StageStopped, NextStage,
         StopEarly, Return, Interrupt, RecordResult, vars, driverVars
<1>8. errors' = errors /\ pending' \in 0..MaxPending
  <2>1. errors' = errors /\ (pending' = pending \/ (pending > 0 /\ pending' = pending - 1))
    BY DEF Quiet, LeaveLoop, OnBarrier, StageFinished, StageInterrupted, StageTimeout, StageStopped, NextStage,
           StopEarly, Return, Interrupt, RecordResult, vars
  <2> QED BY <2>1, NumberFacts DEF TypeOK
<1>9. TypeOK' BY <1>2, <1>6, <1>7, <1>8 DEF TypeOK
<1> QED BY <1>4, <1>6, <1>9 DEF IInv, Inv, PoolParts

-----------------------------------------------------------------------------
(* A new stage.                                                            *)

LEMMA StartStageKeeps == ASSUME IInv, StartStage PROVE IInv'
<1> TypeOK BY DEF IInv
<1>0. plan \in Plans /\ Len(plan) \in Nat /\ i \in 1..Len(plan) /\ plan' = plan /\ i' = i /\ cur' = i
  BY PlanFacts DEF StartStage, TypeOK
<1> DEFINE st == plan[i]
           n == InitialSlots(st)
<1>1. /\ st.conc \in Nat /\ st.max \in Nat /\ PoolSize(st) \in Nat /\ st.conc <= PoolSize(st) /\ PoolSize(st) <= NConvs
      /\ st.conc <= Cardinality(Streams) /\ n \in Nat /\ n <= PoolSize(st)
  BY <1>0, StageFacts
<1>2. PICK used, first :
        /\ used \in SUBSET Streams /\ Cardinality(used) = st.conc
        /\ pc' = [s \in Streams |-> IF s \notin used THEN "off"
                                   ELSE IF st.rampup /\ s # first THEN "delay" ELSE "head"]
  <2> DEFINE u == CHOOSE T \in SUBSET Streams : Cardinality(T) = st.conc
             f == CHOOSE s \in u : TRUE
  <2>1. u \in SUBSET Streams /\ Cardinality(u) = st.conc BY <1>1, ChosenStreams
  <2>2. pc' = [s \in Streams |-> IF s \notin u THEN "off"
                                 ELSE IF st.rampup /\ s # f THEN "delay" ELSE "head"]
    BY DEF StartStage
  <2> HIDE DEF u, f
  <2> QED BY <2>1, <2>2
<1>3. /\ ready' = [k \in 1..n |-> k] /\ head' = 0 /\ convs' = 1..n /\ count' = 0 /\ sent' = 0
      /\ bypass' = [c \in Convs |-> 0] /\ left' = [c \in Convs |-> 0] /\ held' = [s \in Streams |-> None]
      /\ phase' = "wait" /\ stageDone' = FALSE /\ UNCHANGED <<ctxDone, errors, pending>>
  BY DEF StartStage
<1>4. \A s \in Streams : /\ pc'[s] \in {"off", "delay", "head"}
                         /\ pc'[s] # "off" <=> s \in used
  BY <1>2
<1>5. n <= NConvs /\ \A k \in 1..n : k \in Convs BY <1>1, NumberFacts DEF Convs
<1> HIDE DEF n, st
<1>6. ready' \in Seq(Convs) /\ Len(ready') = n /\ head' \in 0..Len(ready') BY <1>1, <1>3, <1>5
<1>7. Queue' = ready'
  <2>1. Queue' = SubSeq(ready', 1, Len(ready')) BY <1>3 DEF Queue
  <2> QED BY <2>1, <1>6
<1>8. Len(Queue') = n /\ \A k \in 1..n : Queue'[k] = k BY <1>3, <1>6, <1>7
<1>9. Holders' = {} /\ Got' = {} /\ Free' = used
  BY <1>2, <1>4 DEF Holders, Got, Free, In
<1>10. TypeOK'
  <2>1. pc' \in [Streams -> StreamPhases] BY <1>2 DEF StreamPhases
  <2>2. held' \in [Streams -> Convs \cup {None}] /\ left' \in [Convs -> 0..MaxTurns] /\ bypass' \in [Convs -> Nat]
    BY <1>3, NumberFacts
  <2>3. convs' \subseteq Convs BY <1>3, <1>5
  <2>4. {ctxDone', stageDone'} \subseteq BOOLEAN /\ {count', sent'} \subseteq Nat /\ phase' \in Phases
    <3>1. ctxDone \in BOOLEAN BY DEF TypeOK
    <3>2. {ctxDone', stageDone'} \subseteq BOOLEAN BY <1>3, <3>1, Zenon
    <3> QED BY <1>3, <3>2 DEF Phases
  <2>5. plan' \in Plans /\ i' \in 1..(Len(plan') + 1) /\ cur' \in 0..Len(plan') BY <1>0
  <2>6. errors' \in 0..ErrorLimit /\ pending' \in 0..MaxPending BY <1>3 DEF TypeOK
  <2> QED BY <1>6, <2>1, <2>2, <2>3, <2>4, <2>5, <2>6 DEF TypeOK
<1>11. DriverInv' BY <1>0, <1>3 DEF DriverInv
<1>12. HoldInv'
  <2>1. DOMAIN Queue' = 1..n BY <1>6, <1>7
  <2>2. Range(Queue)' = {Queue'[k] : k \in 1..n} BY <2>1 DEF Range
  <2> QED BY <1>3, <1>8, <1>9, <2>1, <2>2 DEF HoldInv, Exclusive, IsInjective
<1>13. LeftInv' BY <1>4 DEF LeftInv
<1>14. SizeInv'
  <2>1. Cardinality(convs') = n BY <1>1, <1>3, FS_Interval
  <2>2. Cardinality(Holders') = 0 BY <1>9, FS_EmptySet
  <2> QED BY <1>0, <1>1, <1>8, <2>1, <2>2 DEF SizeInv, st
<1>15. SupplyInv'
  <2>1. Cardinality(Free') = st.conc BY <1>2, <1>9
  <2> QED BY <1>0, <1>1, <1>3, <1>8, <2>1 DEF SupplyInv, st, n
<1>16. RotationInv'
  <2>1. \A k \in 1..Len(Queue') : bypass'[Queue'[k]] = 0 BY <1>3, <1>5, <1>8
  <2> QED BY <1>0, <1>1, <1>8, <2>1 DEF RotationInv, st
<1>17. ReservedInv'
  <2>1. Cardinality(Got') = 0 BY <1>9, FS_EmptySet
  <2>2. Limit' = st.max BY <1>0 DEF Limit, st
  <2>3. st.conc > 0 => \E s \in Streams : pc'[s] # "off"
    <3>1. st.conc > 0 => used # {} BY <1>1, <1>2, FS_EmptySet
    <3> QED BY <3>1, <1>2, <1>4
  <2> QED BY <1>0, <1>1, <1>3, <2>1, <2>2, <2>3 DEF ReservedInv, st
<1> QED BY <1>10, <1>11, <1>12, <1>13, <1>14, <1>15, <1>16, <1>17 DEF IInv, Inv

-----------------------------------------------------------------------------
(* Steps of one stream that leave the scheduler alone.                     *)

FreePhases == {"delay", "head", "next"}

LEMMA PhaseMove ==
  ASSUME IInv, NEW s \in Streams, NEW x \in StreamPhases, pc[s] # "off", pc' = [pc EXCEPT ![s] = x],
         UNCHANGED <<plan, cur, count, ready, head, convs, bypass>>,
         x \in Busy => pc[s] \in Busy,
         \A t \in Streams : pc'[t] \in Busy => held'[t] = held[t],
         Cancelled => Cancelled',
         x \in FreePhases => pc[s] \in FreePhases,
         x = "off" => Cancelled \/ ~Reserve,
         ~Cancelled' /\ Limit > 0 => sent' + Cardinality(Got') = sent + Cardinality(Got)
  PROVE  HoldInv' /\ SizeInv' /\ SupplyInv' /\ RotationInv' /\ ReservedInv'
<1> TypeOK BY DEF IInv
<1>1. cur # 0 BY AliveFacts
<1>2. pc \in [Streams -> StreamPhases] /\ ready \in Seq(Convs) /\ head \in 0..Len(ready) BY DEF TypeOK
<1>3. UNCHANGED <<Queue, Limit, CanCreate, Reserve>> BY DEF Queue, Limit, CanCreate, Reserve
<1>4. Len(Queue) \in Nat BY <1>2, QueueFacts
<1>5. Holders' \subseteq Holders /\ \A t \in Holders' : held'[t] = held[t]
  BY <1>2 DEF Holders, Busy
<1>6. HoldInv' BY <1>3, <1>5 DEF IInv, Inv, HoldInv, Exclusive
<1>7. Cardinality(Holders') <= Cardinality(Holders) /\ Cardinality(Holders') \in Nat /\ Cardinality(Holders) \in Nat
  <2>1. Finite(Holders) /\ Finite(Holders') BY <1>2, HoldersAre, InFinite, InMoves
  <2> QED BY <2>1, <1>5, FS_Subset DEF Finite
<1>8. SizeInv' BY <1>1, <1>3, <1>4, <1>7, CurFacts DEF IInv, Inv, SizeInv
<1>9. Cardinality(Free') <= Cardinality(Free) /\ Cardinality(Free') \in Nat /\ Cardinality(Free) \in Nat
  <2>1. Free = In(FreePhases) /\ Free' = In(FreePhases)' BY DEF Free, FreePhases
  <2>2. Finite(Free) /\ Finite(Free') BY <1>2, <2>1, InFinite, InMoves
  <2>3. Free' \subseteq Free BY <1>2, <2>1 DEF In
  <2> QED BY <2>2, <2>3, FS_Subset DEF Finite
<1>10. SupplyInv' BY <1>1, <1>3, <1>4, <1>9, CurFacts DEF IInv, Inv, SupplyInv
<1>11. RotationInv' BY <1>3 DEF IInv, Inv, RotationInv
<1>12. ReservedInv'
  <2>1. Limit > 0 => count <= Limit BY <1>1 DEF IInv, Inv, ReservedInv
  <2>2. Limit > 0 /\ ~Cancelled' => sent' + Cardinality(Got') = count BY <1>1 DEF IInv, Inv, ReservedInv
  <2>3. ASSUME ~Cancelled', Reserve, plan[cur].conc > 0 PROVE \E t \in Streams : pc'[t] # "off"
    <3>1. x # "off" BY <2>3
    <3> QED BY <1>2, <3>1
  <2>4. Cardinality(Got)' = Cardinality(Got') OBVIOUS
  <2> QED BY <1>3, <2>1, <2>2, <2>3, <2>4 DEF ReservedInv
<1> QED BY <1>6, <1>8, <1>10, <1>11, <1>12

\* Neither a new reservation nor a used one.
LEMMA SameGot ==
  ASSUME TypeOK, NEW s \in Streams, NEW x, pc' = [pc EXCEPT ![s] = x], pc[s] # "got", x # "got"
  PROVE  Cardinality(Got') = Cardinality(Got)
<1>1. pc \in [Streams -> StreamPhases] BY DEF TypeOK
<1>2. Got' = Got BY <1>1 DEF Got, In
<1> QED BY <1>2

\* The parts of the driver's state that no stream touches.
LEMMA StreamDriver ==
  ASSUME IInv, NEW s \in Streams, pc[s] # "off", UNCHANGED driverVars, UNCHANGED cur
  PROVE  DriverInv'
<1>1. cur # 0 BY AliveFacts
<1> QED BY <1>1 DEF IInv, Inv, DriverInv, driverVars

\* Waiting for the start, looking at the context, finding nothing to send.
LEMMA IdleKeeps ==
  ASSUME IInv, NEW s \in Streams, Begin(s) \/ CheckContext(s) \/ NothingNext(s)
  PROVE  IInv'
<1> TypeOK BY DEF IInv
<1>1. pc \in [Streams -> StreamPhases] BY DEF TypeOK
<1>2. pc[s] \in FreePhases /\ UNCHANGED <<driverVars, ctxDone, left, held, sent, errors, pending>>
  BY DEF Begin, CheckContext, NothingNext, FreePhases
<1>3. PICK x \in {"off", "head", "next"} : pc' = [pc EXCEPT ![s] = x] /\ (x = "off" => Cancelled \/ ~Reserve)
  <2>1. CASE Begin(s) BY <2>1 DEF Begin
  <2>2. CASE CheckContext(s) BY <2>2 DEF CheckContext
  <2>3. CASE NothingNext(s)
    <3>1. ~Reserve BY <2>3, Supplied DEF NothingNext, ReadyWhenNeeded
    <3> QED BY <2>3, <3>1 DEF NothingNext
  <2> QED BY <2>1, <2>2, <2>3
<1>4. UNCHANGED <<plan, cur, count, ready, head, convs, bypass>>
  <2>1. CASE Begin(s) \/ CheckContext(s) BY <2>1 DEF Begin, CheckContext, driverVars, schedVars
  <2>2. CASE NothingNext(s)
    <3>1. ~Reserve BY <2>2, Supplied DEF NothingNext, ReadyWhenNeeded
    <3> QED BY <2>2, <3>1 DEF NothingNext, driverVars
  <2> QED BY <2>1, <2>2
<1>5. Cancelled' <=> Cancelled BY <1>2 DEF Cancelled, driverVars
<1>6. Cardinality(Got') = Cardinality(Got) BY <1>2, <1>3, SameGot DEF FreePhases
<1>7. x \in StreamPhases /\ x \notin Busy /\ pc[s] # "off" BY <1>2 DEF StreamPhases, Busy, FreePhases
<1>8. \A t \in Streams : pc'[t] \in Busy => held'[t] = held[t] BY <1>2
<1>9. HoldInv' /\ SizeInv' /\ SupplyInv' /\ RotationInv' /\ ReservedInv'
  BY <1>2, <1>3, <1>4, <1>5, <1>6, <1>7, <1>8, PhaseMove
<1>10. LeftInv' BY <1>1, <1>2, <1>3 DEF IInv, Inv, LeftInv
<1>11. DriverInv' BY <1>2, <1>4, <1>7, StreamDriver
<1>12. TypeOK'
  <2>1. pc' \in [Streams -> StreamPhases] BY <1>1, <1>3, <1>7
  <2> QED BY <1>2, <1>4, <2>1 DEF TypeOK, driverVars
<1> QED BY <1>9, <1>10, <1>11, <1>12 DEF IInv, Inv

LEMMA SendKeeps == ASSUME IInv, NEW s \in Streams, Send(s) PROVE IInv'
<1> TypeOK BY DEF IInv
<1>1. pc \in [Streams -> StreamPhases] /\ left \in [Convs -> 0..MaxTurns] /\ sent \in Nat BY DEF TypeOK
<1>2. pc[s] = "got" /\ UNCHANGED <<driverVars, ctxDone, schedVars, held, errors, pending>> BY DEF Send
<1>3. UNCHANGED <<plan, cur, count, ready, head, convs, bypass>> BY <1>2 DEF driverVars, schedVars
<1>4. held[s] \in Convs BY <1>2 DEF IInv, Inv, HoldInv, Holders, TypeOK
<1>5. /\ left' \in [Convs -> 0..MaxTurns] /\ left'[held[s]] >= 1
      /\ \A c \in Convs : left[c] >= 1 => left'[c] >= 1
  <2>1. CASE left[held[s]] = 0
    <3>1. PICK n \in 1..MaxTurns : left' = [left EXCEPT ![held[s]] = n] BY <2>1 DEF Send
    <3> QED BY <1>1, <1>4, <3>1, NumberFacts
  <2>2. CASE left[held[s]] # 0
    <3>1. left' = left BY <2>2 DEF Send
    <3>2. left[held[s]] \in Nat BY <1>1, <1>4
    <3> QED BY <1>1, <2>2, <3>1, <3>2
  <2> QED BY <2>1, <2>2
<1> DEFINE x == IF Cancelled THEN "off" ELSE "sent"
<1>6. /\ x \in {"off", "sent"} /\ pc' = [pc EXCEPT ![s] = x]
      /\ Cancelled => x = "off" /\ sent' = sent
      /\ ~Cancelled => x = "sent" /\ sent' = Min({sent + 1, Limit + 1})
  <2>1. CASE Cancelled BY <2>1 DEF Send
  <2>2. CASE ~Cancelled BY <2>2 DEF Send
  <2> QED BY <2>1, <2>2
<1> HIDE DEF x
<1>7. cur # 0 BY <1>2, AliveFacts
<1>8. Limit \in Nat BY <1>7, CurFacts
<1>9. Cancelled' <=> Cancelled BY <1>2 DEF Cancelled, driverVars
<1>10. /\ Cardinality(Got') = Cardinality(Got) - 1 /\ Cardinality(Got) \in Nat /\ Cardinality(Got') \in Nat
  <2>1. Got = In({"got"}) /\ Got' = In({"got"})' BY DEF Got
  <2>0. pc' = [pc EXCEPT ![s] = x] /\ x # "got" BY <1>6
  <2>2. Finite(Got) /\ Finite(Got') BY <1>1, <2>0, <2>1, InFinite, InMoves
  <2>3. Cardinality(Got') = Cardinality(Got) + (IF x \in {"got"} THEN 1 ELSE 0) - (IF pc[s] \in {"got"} THEN 1 ELSE 0)
    BY <1>1, <2>0, <2>1, InMoves, ZenonT(60)
  <2> QED BY <1>2, <2>0, <2>2, <2>3 DEF Finite
<1>11. ~Cancelled' /\ Limit > 0 => sent' + Cardinality(Got') = sent + Cardinality(Got)
  <2> SUFFICES ASSUME ~Cancelled, Limit > 0 PROVE sent' + Cardinality(Got') = sent + Cardinality(Got) BY <1>9
  <2>1. sent + Cardinality(Got) = count /\ count <= Limit BY <1>7 DEF IInv, Inv, ReservedInv
  <2>2. sent' = Min({sent + 1, Limit + 1}) BY <1>6
  <2>3. sent' = sent + 1 BY <1>1, <1>8, <1>10, <2>1, <2>2, MinOfPair
  <2> QED BY <1>1, <1>10, <2>3
<1>12. x \in StreamPhases /\ x \notin FreePhases /\ pc[s] \in Busy /\ pc[s] # "off"
  BY <1>2, <1>6 DEF StreamPhases, Busy, FreePhases
<1>13. \A t \in Streams : pc'[t] \in Busy => held'[t] = held[t] BY <1>2
<1>14. HoldInv' /\ SizeInv' /\ SupplyInv' /\ RotationInv' /\ ReservedInv'
  BY <1>3, <1>6, <1>9, <1>11, <1>12, <1>13, PhaseMove
<1>15. LeftInv'
  <2> SUFFICES ASSUME NEW t \in Streams, pc'[t] = "sent" PROVE left'[held[t]] >= 1 BY <1>2 DEF LeftInv
  <2>1. CASE t = s BY <2>1, <1>5
  <2>2. CASE t # s
    <3>1. pc[t] = "sent" BY <1>1, <1>6, <2>2
    <3>2. held[t] \in Convs BY <3>1 DEF IInv, Inv, HoldInv, Holders, TypeOK
    <3> QED BY <3>1, <3>2, <1>5 DEF IInv, Inv, LeftInv
  <2> QED BY <2>1, <2>2
<1>16. DriverInv' BY <1>2, <1>3, <1>12, StreamDriver
<1>17. TypeOK'
  <2>1. pc' \in [Streams -> StreamPhases] BY <1>1, <1>6, <1>12
  <2>2. sent' \in Nat
    <3>1. Min({sent + 1, Limit + 1}) \in Nat BY <1>1, <1>8, MinOfPair
    <3> QED BY <1>1, <1>6, <3>1
  <2> QED BY <1>2, <1>3, <1>5, <2>1, <2>2 DEF TypeOK, driverVars
<1> QED BY <1>14, <1>15, <1>16, <1>17 DEF IInv, Inv

LEMMA StatusFacts ==
  ASSUME TypeOK, NEW failed \in BOOLEAN, TrackRequestStatus(failed)
  PROVE  errors' \in 0..ErrorLimit /\ ctxDone' \in BOOLEAN /\ (ctxDone => ctxDone')
<1>1. errors \in Nat /\ errors <= ErrorLimit BY NumberFacts DEF TypeOK
<1>2. Min({errors + 1, ErrorLimit}) \in 0..ErrorLimit BY <1>1, NumberFacts, MinOfPair
<1>3. errors' \in 0..ErrorLimit BY <1>2, NumberFacts DEF TrackRequestStatus
<1>4. ctxDone' = (ctxDone \/ (failed /\ errors + 1 >= ErrorLimit)) BY DEF TrackRequestStatus
<1> QED BY <1>3, <1>4

LEMMA RespondKeeps ==
  ASSUME IInv, NEW s \in Streams, RespondOk(s) \/ RespondError(s) \/ RespondCut(s)
  PROVE  IInv'
<1> TypeOK BY DEF IInv
<1>1. pc \in [Streams -> StreamPhases] /\ left \in [Convs -> 0..MaxTurns] BY DEF TypeOK
<1>2. pc[s] = "sent" /\ UNCHANGED <<driverVars, schedVars, held, sent>>
  BY DEF RespondOk, RespondError, RespondCut
<1>3. UNCHANGED <<plan, cur, count, ready, head, convs, bypass>> BY <1>2 DEF driverVars, schedVars
<1>4. held[s] \in Convs /\ left[held[s]] >= 1 BY <1>2 DEF IInv, Inv, HoldInv, LeftInv, Holders, TypeOK
<1>5. /\ left' \in [Convs -> 0..MaxTurns]
      /\ \A c \in Convs : c # held[s] => left'[c] = left[c]
  <2>1. CASE RespondOk(s)
    <3>1. left' = [left EXCEPT ![held[s]] = left[held[s]] - 1] BY <2>1 DEF RespondOk
    <3>2. left[held[s]] - 1 \in 0..MaxTurns
      <4>1. MaxTurns \in Nat BY NumberFacts
      <4>2. left[held[s]] \in 0..MaxTurns BY <1>1, <1>4
      <4> QED BY <1>4, <4>1, <4>2
    <3> QED BY <1>1, <1>4, <3>1, <3>2
  <2>2. CASE RespondError(s)
    <3>1. left' = [left EXCEPT ![held[s]] = 0] BY <2>2 DEF RespondError
    <3> QED BY <1>1, <1>4, <3>1, NumberFacts
  <2>3. CASE RespondCut(s) BY <1>1, <2>3 DEF RespondCut
  <2> QED BY <2>1, <2>2, <2>3
<1>6. PICK x \in {"off", "back"} : pc' = [pc EXCEPT ![s] = x] /\ (x = "off" => Cancelled)
  <2>1. CASE RespondOk(s) \/ RespondError(s) BY <2>1 DEF RespondOk, RespondError
  <2>2. CASE RespondCut(s) BY <2>2 DEF RespondCut
  <2> QED BY <2>1, <2>2
<1>7. errors' \in 0..ErrorLimit /\ ctxDone' \in BOOLEAN /\ (ctxDone => ctxDone')
  BY StatusFacts DEF RespondOk, RespondError, RespondCut
<1>8. Cancelled => Cancelled' BY <1>2, <1>7 DEF Cancelled, driverVars
<1>9. Cardinality(Got') = Cardinality(Got) BY <1>2, <1>6, SameGot
<1>10. x \in StreamPhases /\ x \notin FreePhases /\ pc[s] \in Busy /\ pc[s] # "off"
  BY <1>2 DEF StreamPhases, Busy, FreePhases
<1>11. \A t \in Streams : pc'[t] \in Busy => held'[t] = held[t] BY <1>2
<1>12. HoldInv' /\ SizeInv' /\ SupplyInv' /\ RotationInv' /\ ReservedInv'
  BY <1>2, <1>3, <1>6, <1>8, <1>9, <1>10, <1>11, PhaseMove
<1>13. LeftInv'
  <2> SUFFICES ASSUME NEW t \in Streams, pc'[t] = "sent" PROVE left'[held[t]] >= 1 BY <1>2 DEF LeftInv
  <2>1. t # s /\ pc[t] = "sent" BY <1>1, <1>6
  <2>2. held[t] # held[s] /\ held[t] \in Convs
    BY <1>2, <2>1 DEF IInv, Inv, HoldInv, Exclusive, Holders, TypeOK
  <2> QED BY <1>5, <2>1, <2>2 DEF IInv, Inv, LeftInv
<1>14. DriverInv' BY <1>2, <1>3, <1>10, StreamDriver
<1>15. TypeOK'
  <2>1. pc' \in [Streams -> StreamPhases] BY <1>1, <1>6, <1>10
  <2>2. pending' \in 0..MaxPending
    <3>1. MaxPending \in Nat /\ pending \in 0..MaxPending BY NumberFacts DEF TypeOK
    <3>2. pending' = pending \/ (pending < MaxPending /\ pending' = pending + 1)
      BY DEF RespondOk, RespondError, RespondCut
    <3> QED BY <3>1, <3>2
  <2>3. stageDone' \in BOOLEAN BY <1>2 DEF TypeOK, driverVars
  <2>4. {ctxDone', stageDone'} \subseteq BOOLEAN BY <1>7, <2>3
  <2>5. plan' \in Plans /\ i' \in 1..(Len(plan') + 1) /\ phase' \in Phases /\ cur' \in 0..Len(plan')
    BY <1>2, <1>3 DEF TypeOK, driverVars
  <2>6. {count', sent'} \subseteq Nat /\ ready' \in Seq(Convs) /\ head' \in 0..Len(ready') /\ convs' \subseteq Convs
        /\ bypass' \in [Convs -> Nat] /\ held' \in [Streams -> Convs \cup {None}]
    BY <1>2, <1>3 DEF TypeOK
  <2> QED BY <1>5, <1>7, <2>1, <2>2, <2>4, <2>5, <2>6 DEF TypeOK
<1> QED BY <1>12, <1>13, <1>14, <1>15 DEF IInv, Inv

-----------------------------------------------------------------------------
(* next takes the head of the queue.                                       *)

LEMMA TakeNextKeeps == ASSUME IInv, NEW s \in Streams, TakeNext(s) PROVE IInv'
<1> TypeOK BY DEF IInv
<1>1. pc \in [Streams -> StreamPhases] /\ held \in [Streams -> Convs \cup {None}] /\ bypass \in [Convs -> Nat]
      /\ ready \in Seq(Convs) /\ head \in 0..Len(ready) /\ count \in Nat /\ sent \in Nat
  BY DEF TypeOK
<1>2. /\ pc[s] = "next" /\ Reserve /\ Queue # <<>> /\ Compact
      /\ count' = (IF Limit = 0 THEN count ELSE count + 1)
      /\ held' = [held EXCEPT ![s] = Head(Queue)] /\ pc' = [pc EXCEPT ![s] = "got"]
      /\ bypass' = [c \in Convs |-> IF c \in Range(Tail(Queue)) THEN bypass[c] + 1 ELSE 0]
      /\ UNCHANGED <<driverVars, ctxDone, cur, convs, left, sent, errors, pending>>
  BY DEF TakeNext
<1>3. cur # 0 /\ plan' = plan /\ cur' = cur BY <1>2, AliveFacts DEF driverVars
<1>4. /\ ready' \in Seq(Convs) /\ head' \in 0..Len(ready')
      /\ Len(Queue) >= 1 /\ Head(Queue) = Queue[1]
      /\ Len(Queue') = Len(Queue) - 1 /\ Queue' = Tail(Queue)
      /\ \A p \in 1..Len(Queue') : Queue'[p] = Queue[p + 1]
  BY <1>1, <1>2, PopFacts
<1>5. Len(Queue) \in Nat /\ \A p \in 1..Len(Queue) : Queue[p] \in Convs BY <1>1, QueueFacts
<1>6. held'[s] = Queue[1] /\ Queue[1] \in Convs /\ \A t \in Streams : t # s => held'[t] = held[t]
  BY <1>1, <1>2, <1>4, <1>5
<1>7. pc'[s] = "got" /\ \A t \in Streams : t # s => pc'[t] = pc[t] BY <1>1, <1>2
<1>8. Limit' = Limit /\ Limit \in Nat BY <1>3, CurFacts DEF Limit
<1>9. count' \in Nat /\ count' >= count /\ (Limit > 0 => count' = count + 1 /\ count < Limit)
  BY <1>1, <1>2, <1>8 DEF Reserve
<1>10. TypeOK'
  <2>1. pc' \in [Streams -> StreamPhases] BY <1>1, <1>2 DEF StreamPhases
  <2>2. held' \in [Streams -> Convs \cup {None}] BY <1>1, <1>2, <1>4, <1>6
  <2>3. bypass' \in [Convs -> Nat] BY <1>1, <1>2
  <2> QED BY <1>2, <1>3, <1>4, <1>9, <2>1, <2>2, <2>3 DEF TypeOK, driverVars
<1>11. DriverInv' BY <1>2, StreamDriver
<1>12. Holders' = Holders \cup {s} /\ s \notin Holders BY <1>2, <1>7 DEF Holders
<1>13. HoldInv'
  <2>1. /\ \A u, t \in Holders : held[u] = held[t] => u = t
        /\ \A t \in Holders : \A p \in 1..Len(Queue) : Queue[p] # held[t]
        /\ \A p, q \in 1..Len(Queue) : Queue[p] = Queue[q] => p = q
        /\ \A p \in 1..Len(Queue) : Queue[p] \in convs
        /\ \A t \in Holders : held[t] \in convs
    BY <1>1, ExclusiveAlt DEF IInv, Inv, HoldInv
  <2>2. 1 \in 1..Len(Queue) /\ \A p \in 1..Len(Queue') : p + 1 \in 1..Len(Queue) BY <1>4, <1>5
  <2>3. \A t \in Holders : t # s /\ held'[t] = held[t] BY <1>6, <1>12 DEF Holders
  <2>4. /\ \A u, t \in Holders' : held'[u] = held'[t] => u = t
        /\ \A t \in Holders' : held'[t] \in convs
    BY <1>6, <1>12, <2>1, <2>2, <2>3
  <2>5. \A t \in Holders' : \A p \in 1..Len(Queue') : Queue'[p] # held'[t]
    <3> SUFFICES ASSUME NEW t \in Holders', NEW p \in 1..Len(Queue') PROVE Queue'[p] # held'[t] OBVIOUS
    <3>1. Queue'[p] = Queue[p + 1] /\ p + 1 \in 1..Len(Queue) /\ p + 1 # 1 BY <1>4, <1>5, <2>2
    <3>2. CASE t = s BY <1>6, <2>1, <2>2, <3>1, <3>2
    <3>3. CASE t # s BY <1>12, <2>1, <2>3, <3>1, <3>3
    <3> QED BY <3>2, <3>3
  <2>6. \A p, q \in 1..Len(Queue') : Queue'[p] = Queue'[q] => p = q
    <3> SUFFICES ASSUME NEW p \in 1..Len(Queue'), NEW q \in 1..Len(Queue'), Queue'[p] = Queue'[q] PROVE p = q OBVIOUS
    <3>1. p + 1 = q + 1 BY <1>4, <2>1, <2>2
    <3> QED BY <1>4, <1>5, <3>1
  <2>7. \A p \in 1..Len(Queue') : Queue'[p] \in convs BY <1>4, <2>1, <2>2
  <2>8. DOMAIN Queue' = 1..Len(Queue') BY <1>1, <1>4, <1>5, QueueFacts
  <2>9. Range(Queue)' = {Queue'[p] : p \in 1..Len(Queue')} BY <2>8 DEF Range
  <2>10. Exclusive' BY <1>2, <2>4, <2>5, <2>6, <2>7, <2>8, <2>9 DEF Exclusive, IsInjective
  <2> QED BY <1>2, <2>4, <2>10 DEF HoldInv
<1>14. LeftInv'
  <2> SUFFICES ASSUME NEW t \in Streams, pc'[t] = "sent" PROVE left[held'[t]] >= 1 BY <1>2 DEF LeftInv
  <2>1. t # s BY <1>7
  <2> QED BY <1>6, <1>7, <2>1 DEF IInv, Inv, LeftInv
<1>15. SizeInv'
  <2>1. Cardinality(Holders') = Cardinality(Holders) + 1 /\ Cardinality(Holders) \in Nat
    <3>1. Finite(Holders) BY HoldersAre, InFinite
    <3> QED BY <1>12, <3>1, FS_AddElement DEF Finite
  <2> QED BY <1>2, <1>3, <1>4, <1>5, <2>1, CurFacts DEF IInv, Inv, SizeInv
<1>16. SupplyInv'
  <2>1. CanCreate' => CanCreate BY <1>1, <1>8, <1>9 DEF CanCreate
  <2>2. Cardinality(Free') = Cardinality(Free) - 1 /\ Cardinality(Free) \in Nat /\ Cardinality(Free') \in Nat
    <3>1. Free = In(FreePhases) /\ Free' = In(FreePhases)' BY DEF Free, FreePhases
    <3>2. Finite(Free) /\ Finite(Free') BY <1>1, <1>2, <3>1, InFinite, InMoves
    <3>3. Cardinality(Free') = Cardinality(Free) + (IF "got" \in FreePhases THEN 1 ELSE 0)
                                                - (IF pc[s] \in FreePhases THEN 1 ELSE 0)
      BY <1>1, <1>2, <3>1, InMoves
    <3> QED BY <1>2, <3>2, <3>3 DEF Finite, FreePhases
  <2>3. CanCreate => Len(Queue) + plan[cur].conc >= InitialSlots(plan[cur]) + Cardinality(Free)
    BY <1>3 DEF IInv, Inv, SupplyInv
  <2>4. Limit > 0 => Len(Queue) + count >= InitialSlots(plan[cur])
    BY <1>3 DEF IInv, Inv, SupplyInv
  <2>5. plan[cur].conc \in Nat /\ InitialSlots(plan[cur]) \in Nat BY <1>3, CurFacts
  <2>6. CanCreate => Len(Queue') + plan[cur].conc >= InitialSlots(plan[cur]) + Cardinality(Free')
    BY <1>4, <1>5, <2>2, <2>3, <2>5, SMTT(30)
  <2>7. Limit > 0 => Len(Queue') + count' >= InitialSlots(plan[cur])
    BY <1>1, <1>4, <1>5, <1>9, <2>4, <2>5
  <2> QED BY <1>3, <1>8, <2>1, <2>6, <2>7 DEF SupplyInv
<1>17. RotationInv'
  <2> SUFFICES ASSUME NEW p \in 1..Len(Queue') PROVE bypass'[Queue'[p]] + p <= PoolSize(plan[cur])
    BY <1>3 DEF RotationInv
  <2>1. p + 1 \in 1..Len(Queue) /\ Queue'[p] = Queue[p + 1] /\ Queue[p + 1] \in Convs BY <1>4, <1>5
  <2>2. Queue'[p] \in Range(Tail(Queue))
    <3>1. DOMAIN Queue' = 1..Len(Queue') BY <1>1, <1>4, <1>5, QueueFacts
    <3> QED BY <1>4, <3>1 DEF Range
  <2>3. bypass'[Queue'[p]] = bypass[Queue[p + 1]] + 1 BY <1>2, <2>1, <2>2
  <2>4. bypass[Queue[p + 1]] + (p + 1) <= PoolSize(plan[cur]) BY <1>3, <2>1 DEF IInv, Inv, RotationInv
  <2>5. bypass[Queue[p + 1]] \in Nat /\ PoolSize(plan[cur]) \in Nat BY <1>1, <1>3, <2>1, CurFacts
  <2> QED BY <1>4, <1>5, <2>3, <2>4, <2>5
<1>18. ReservedInv'
  <2>1. Cardinality(Got') = Cardinality(Got) + 1 /\ Cardinality(Got) \in Nat
    <3>1. Got = In({"got"}) /\ Got' = In({"got"})' BY DEF Got
    <3>2. Finite(Got) BY <3>1, InFinite
    <3>3. Cardinality(Got') = Cardinality(Got) + (IF "got" \in {"got"} THEN 1 ELSE 0) - (IF pc[s] \in {"got"} THEN 1 ELSE 0)
      BY <1>1, <1>2, <3>1, InMoves
    <3> QED BY <1>2, <3>2, <3>3 DEF Finite
  <2>2. Cancelled' <=> Cancelled BY <1>2 DEF Cancelled, driverVars
  <2>3. Limit > 0 /\ ~Cancelled => sent + Cardinality(Got) = count BY <1>3 DEF IInv, Inv, ReservedInv
  <2>4. Limit > 0 => count' <= Limit BY <1>1, <1>8, <1>9
  <2>5. Limit > 0 /\ ~Cancelled' => sent' + Cardinality(Got') = count'
    <3> SUFFICES ASSUME Limit > 0, ~Cancelled' PROVE sent' + Cardinality(Got') = count' OBVIOUS
    <3>1. sent + Cardinality(Got) = count BY <2>2, <2>3
    <3>2. sent' = sent /\ count' = count + 1 BY <1>2, <1>9
    <3>3. sent \in Int BY <1>1
    <3>4. sent' + Cardinality(Got') = sent + (Cardinality(Got) + 1) BY <2>1, <3>2
    <3> QED BY <2>1, <3>1, <3>2, <3>3, <3>4
  <2>6. \E t \in Streams : pc'[t] # "off" BY <1>7
  <2>7. Cardinality(Got)' = Cardinality(Got') OBVIOUS
  <2> QED BY <1>8, <2>4, <2>5, <2>6, <2>7 DEF ReservedInv
<1> QED BY <1>10, <1>11, <1>13, <1>14, <1>15, <1>16, <1>17, <1>18 DEF IInv, Inv

-----------------------------------------------------------------------------
(* complete puts a conversation back, or replaces it.                      *)

\* The context ended: the stream leaves and its conversation with it.
LEMMA AbandonKeeps == ASSUME IInv, NEW s \in Streams, CompleteTurn(s), Cancelled PROVE IInv'
<1> TypeOK BY DEF IInv
<1>1. pc \in [Streams -> StreamPhases] /\ held \in [Streams -> Convs \cup {None}] BY DEF TypeOK
<1>2. /\ pc[s] = "back" /\ pc' = [pc EXCEPT ![s] = "off"] /\ held' = [held EXCEPT ![s] = None]
      /\ UNCHANGED <<driverVars, ctxDone, cur, count, ready, head, convs, bypass, left, sent, errors, pending>>
  BY DEF CompleteTurn
<1>3. UNCHANGED <<plan, cur, count, ready, head, convs, bypass>> BY <1>2 DEF driverVars
<1>4. Cancelled' BY <1>2 DEF Cancelled, driverVars
<1>5. "off" \in StreamPhases /\ "off" \notin Busy /\ "off" \notin FreePhases /\ pc[s] # "off"
  BY <1>2 DEF StreamPhases, Busy, FreePhases
<1>6. \A t \in Streams : pc'[t] \in Busy => held'[t] = held[t] BY <1>1, <1>2 DEF Busy
<1>7. HoldInv' /\ SizeInv' /\ SupplyInv' /\ RotationInv' /\ ReservedInv'
  BY <1>2, <1>3, <1>4, <1>5, <1>6, PhaseMove
<1>8. LeftInv' BY <1>1, <1>2 DEF IInv, Inv, LeftInv
<1>9. DriverInv' BY <1>2, <1>5, StreamDriver
<1>10. TypeOK'
  <2>1. pc' \in [Streams -> StreamPhases] /\ held' \in [Streams -> Convs \cup {None}] BY <1>1, <1>2, <1>5
  <2> QED BY <1>2, <1>3, <2>1 DEF TypeOK, driverVars
<1> QED BY <1>7, <1>8, <1>9, <1>10 DEF IInv, Inv

\* What complete does with the conversation c: it is retired without a successor
\* only when no request is left, else an item nobody has joins the queue.
Retired(c) == convs' = convs \ {c} /\ UNCHANGED <<ready, bypass>> /\ ~CanCreate
Pushed(c, item) ==
  /\ item \in Convs /\ item \notin convs \ {c}
  /\ convs' = (convs \ {c}) \cup {item}
  /\ Cardinality(convs') <= PoolSize(plan[cur])
  /\ ready' = PushReady(ready, item)
  /\ bypass' = [bypass EXCEPT ![item] = 0]

LEMMA CompleteFacts ==
  ASSUME IInv, cur # 0, NEW c \in convs, NEW replace \in BOOLEAN, Complete(c, replace)
  PROVE  Retired(c) \/ \E item \in Convs : Pushed(c, item)
<1> TypeOK BY DEF IInv
<1> DEFINE others == convs \ {c}
           create == Cardinality(others) < PoolSize(plan[cur]) /\ CanCreate
           item == IF replace THEN Min(Convs \ others) ELSE c
<1>1. convs \subseteq Convs /\ c \in Convs BY DEF TypeOK
<1>2. IsFiniteSet(convs) /\ Cardinality(convs) \in Nat /\ Cardinality(convs) <= PoolSize(plan[cur])
  BY <1>1, NumberFacts, FS_Subset, FS_CardinalityType DEF IInv, Inv, SizeInv
<1>3. IsFiniteSet(others) /\ Cardinality(others) = Cardinality(convs) - 1 BY <1>2, FS_RemoveElement
<1>4. PoolSize(plan[cur]) \in Nat BY CurFacts
<1>5. Cardinality(others) < PoolSize(plan[cur]) BY <1>2, <1>3, <1>4
<1>6. item \in Convs /\ item \notin others
  <2>1. Min(Convs \ others) \in Convs \ others
    <3>1. Convs \ others \subseteq Nat /\ Convs \ others # {} BY <1>1, NumberFacts
    <3> HIDE DEF others
    <3> QED BY <3>1, MinOfIds
  <2> QED BY <1>1, <2>1
<1>7. CASE replace /\ ~create
  <2>1. convs' = others /\ UNCHANGED <<ready, bypass>> BY <1>7 DEF Complete
  <2>2. ~CanCreate BY <1>5, <1>7
  <2> QED BY <2>1, <2>2 DEF Retired
<1>8. CASE ~(replace /\ ~create)
  <2>1. convs' = others \cup {item} /\ ready' = PushReady(ready, item) /\ bypass' = [bypass EXCEPT ![item] = 0]
    BY <1>8 DEF Complete
  <2>2. Cardinality(others \cup {item}) = Cardinality(others) + 1
    <3> HIDE DEF others, item
    <3> QED BY <1>3, <1>6, FS_AddElement
  <2>3. Cardinality(convs') <= PoolSize(plan[cur])
    <3> HIDE DEF others, item
    <3> QED BY <1>2, <1>3, <1>4, <2>1, <2>2
  <2> HIDE DEF item
  <2> QED BY <1>6, <2>1, <2>3 DEF Pushed
<1> QED BY <1>7, <1>8

LEMMA CompleteTurnKeeps == ASSUME IInv, NEW s \in Streams, CompleteTurn(s), ~Cancelled PROVE IInv'
<1> TypeOK BY DEF IInv
<1>1. pc \in [Streams -> StreamPhases] /\ held \in [Streams -> Convs \cup {None}] /\ bypass \in [Convs -> Nat]
      /\ ready \in Seq(Convs) /\ head \in 0..Len(ready)
  BY DEF TypeOK
<1> DEFINE c == held[s]
<1>2. /\ pc[s] = "back" /\ pc' = [pc EXCEPT ![s] = "head"] /\ held' = [held EXCEPT ![s] = None]
      /\ Complete(c, left[c] = 0)
      /\ UNCHANGED <<driverVars, ctxDone, cur, count, head, left, sent, errors, pending>>
  BY DEF CompleteTurn
<1>3. cur # 0 /\ plan' = plan /\ cur' = cur BY <1>2, AliveFacts DEF driverVars
<1>4. s \in Holders /\ c \in convs BY <1>2 DEF IInv, Inv, HoldInv, Holders
<1>5. Retired(c) \/ \E item \in Convs : Pushed(c, item)
  <2>1. (left[c] = 0) \in BOOLEAN OBVIOUS
  <2> HIDE DEF c
  <2> QED BY <1>2, <1>3, <1>4, <2>1, CompleteFacts
<1>6. pc'[s] = "head" /\ (\A t \in Streams : t # s => pc'[t] = pc[t] /\ held'[t] = held[t]) BY <1>1, <1>2
<1>7. Holders' = Holders \ {s} /\ \A t \in Holders' : held'[t] = held[t] BY <1>6 DEF Holders
<1>8. UNCHANGED <<Limit, CanCreate, Reserve>> BY <1>2, <1>3 DEF Limit, CanCreate, Reserve
<1>9. Cancelled' <=> Cancelled BY <1>2 DEF Cancelled, driverVars
<1>10. /\ PoolSize(plan[cur]) \in Nat /\ plan[cur].conc \in Nat /\ InitialSlots(plan[cur]) \in Nat /\ Limit \in Nat
       /\ count \in Nat
  BY <1>3, CurFacts DEF TypeOK
<1>11. Len(Queue) \in Nat /\ \A p \in 1..Len(Queue) : Queue[p] \in Convs BY <1>1, QueueFacts
<1>12. /\ \A u, t \in Holders : held[u] = held[t] => u = t
       /\ \A t \in Holders : \A p \in 1..Len(Queue) : Queue[p] # held[t]
       /\ \A p, q \in 1..Len(Queue) : Queue[p] = Queue[q] => p = q
       /\ \A p \in 1..Len(Queue) : Queue[p] \in convs
       /\ \A t \in Holders : held[t] \in convs
  BY <1>1, ExclusiveAlt DEF IInv, Inv, HoldInv
<1>13. Cardinality(Holders') = Cardinality(Holders) - 1 /\ Cardinality(Holders) \in Nat /\ Cardinality(Holders') \in Nat
  <2>1. Finite(Holders) BY HoldersAre, InFinite
  <2>2. IsFiniteSet(Holders') /\ Cardinality(Holders') = Cardinality(Holders) - 1
    BY <1>4, <1>7, <2>1, FS_RemoveElement DEF Finite
  <2> QED BY <2>1, <2>2, FS_CardinalityType DEF Finite
<1>14. Cardinality(Free') = Cardinality(Free) + 1 /\ Cardinality(Free) \in Nat
  <2>1. Free = In(FreePhases) /\ Free' = In(FreePhases)' BY DEF Free, FreePhases
  <2>2. Finite(Free) BY <2>1, InFinite
  <2>3. Cardinality(Free') = Cardinality(Free) + (IF "head" \in FreePhases THEN 1 ELSE 0)
                                              - (IF pc[s] \in FreePhases THEN 1 ELSE 0)
    BY <1>1, <1>2, <2>1, InMoves
  <2> QED BY <1>2, <2>2, <2>3 DEF Finite, FreePhases
<1>15. /\ Cardinality(convs) <= PoolSize(plan[cur])
       /\ Len(Queue) + Cardinality(Holders) <= PoolSize(plan[cur])
       /\ CanCreate => Len(Queue) + plan[cur].conc >= InitialSlots(plan[cur]) + Cardinality(Free)
       /\ Limit > 0 => Len(Queue) + count >= InitialSlots(plan[cur])
       /\ \A p \in 1..Len(Queue) : bypass[Queue[p]] + p <= PoolSize(plan[cur])
  BY <1>3 DEF IInv, Inv, SizeInv, SupplyInv, RotationInv
<1>16. LeftInv'
  <2> SUFFICES ASSUME NEW t \in Streams, pc'[t] = "sent" PROVE left[held'[t]] >= 1 BY <1>2 DEF LeftInv
  <2>1. t # s BY <1>6
  <2> QED BY <1>6, <2>1 DEF IInv, Inv, LeftInv
<1>17. DriverInv' BY <1>2, StreamDriver
<1>18. ReservedInv'
  <2>1. Cardinality(Got') = Cardinality(Got) BY <1>2, SameGot
  <2>2. /\ Limit > 0 => count <= Limit
        /\ Limit > 0 /\ ~Cancelled => sent + Cardinality(Got) = count
    BY <1>3 DEF IInv, Inv, ReservedInv
  <2>3. \E t \in Streams : pc'[t] # "off" BY <1>6
  <2>4. count' = count /\ sent' = sent BY <1>2
  <2>5. Cardinality(Got)' = Cardinality(Got') OBVIOUS
  <2> QED BY <1>8, <1>9, <2>1, <2>2, <2>3, <2>4, <2>5 DEF ReservedInv
<1>19. ASSUME ready' \in Seq(Convs), head' \in 0..Len(ready'), convs' \subseteq Convs, bypass' \in [Convs -> Nat]
       PROVE  TypeOK'
  <2>1. pc' \in [Streams -> StreamPhases] /\ held' \in [Streams -> Convs \cup {None}]
    BY <1>1, <1>2 DEF StreamPhases
  <2> QED BY <1>2, <1>3, <1>19, <2>1 DEF TypeOK, driverVars
<1>20. CASE Retired(c)
  <2>1. UNCHANGED <<ready, head, bypass>> /\ convs' = convs \ {c} /\ ~CanCreate BY <1>2, <1>20 DEF Retired
  <2>2. Queue' = Queue BY <2>1 DEF Queue
  <2>3. TypeOK' BY <1>19, <2>1 DEF TypeOK
  <2>4. HoldInv'
    <3>1. \A t \in Holders' : t \in Holders /\ t # s /\ held[t] # c BY <1>4, <1>7, <1>12
    <3>2. \A p \in 1..Len(Queue) : Queue[p] # c BY <1>4, <1>12
    <3>3. DOMAIN Queue = 1..Len(Queue) BY <1>1, QueueFacts
    <3>4. Range(Queue) = {Queue[p] : p \in 1..Len(Queue)} BY <3>3 DEF Range
    <3>5. Range(Queue)' = Range(Queue) /\ IsInjective(Queue)' = IsInjective(Queue) BY <2>2
    <3> HIDE DEF c
    <3>6. IsInjective(Queue) BY <1>12, <3>3 DEF IsInjective
    <3>7. \A t \in Holders' : held'[t] \in convs' /\ held'[t] \notin Range(Queue)
      BY <1>7, <1>12, <2>1, <3>1, <3>4
    <3>8. Range(Queue) \subseteq convs' BY <1>12, <2>1, <3>2, <3>4
    <3>9. \A u, t \in Holders' : held'[u] = held'[t] => u = t BY <1>7, <1>12
    <3> QED BY <3>5, <3>6, <3>7, <3>8, <3>9 DEF HoldInv, Exclusive
  <2>5. SizeInv'
    <3>1. IsFiniteSet(convs) BY NumberFacts, FS_Subset DEF TypeOK
    <3>2. Cardinality(convs') <= Cardinality(convs) /\ Cardinality(convs') \in Nat /\ Cardinality(convs) \in Nat
      BY <2>1, <3>1, FS_Subset, FS_CardinalityType
    <3> QED BY <1>3, <1>10, <1>11, <1>13, <1>15, <2>2, <3>2 DEF SizeInv
  <2>6. SupplyInv' BY <1>2, <1>3, <1>8, <1>15, <2>1, <2>2 DEF SupplyInv
  <2>7. RotationInv' BY <1>3, <1>15, <2>1, <2>2 DEF RotationInv
  <2> QED BY <1>16, <1>17, <1>18, <2>3, <2>4, <2>5, <2>6, <2>7 DEF IInv, Inv
<1>21. ASSUME NEW item \in Convs, Pushed(c, item) PROVE IInv'
  <2>1. /\ item \notin convs \ {c} /\ convs' = (convs \ {c}) \cup {item} /\ Cardinality(convs') <= PoolSize(plan[cur])
        /\ ready' = PushReady(ready, item) /\ head' = head /\ bypass' = [bypass EXCEPT ![item] = 0]
    BY <1>2, <1>21 DEF Pushed
  <2>2. /\ ready' \in Seq(Convs) /\ head' \in 0..Len(ready')
        /\ Len(Queue') = Len(Queue) + 1
        /\ \A p \in 1..Len(Queue) : Queue'[p] = Queue[p]
        /\ Queue'[Len(Queue) + 1] = item
    BY <1>1, <2>1, PushFacts
  <2>3. TypeOK'
    <3>1. convs' \subseteq Convs /\ bypass' \in [Convs -> Nat] BY <1>1, <2>1 DEF TypeOK
    <3> QED BY <1>19, <2>2, <3>1
  <2>4. HoldInv'
    <3> DEFINE n == Len(Queue)
    <3>1. \A t \in Holders' : t \in Holders /\ t # s /\ held[t] # c /\ held[t] \in convs /\ held[t] # item
      BY <1>4, <1>7, <1>12, <2>1
    <3>2. \A p \in 1..n : Queue[p] \in convs /\ Queue[p] # c /\ Queue[p] # item BY <1>4, <1>12, <2>1
    <3>3. \A p \in 1..Len(Queue') : p \in 1..n \/ p = n + 1 BY <1>11, <2>2
    <3> HIDE DEF c, n
    <3>4. \A u, t \in Holders' : held'[u] = held'[t] => u = t BY <1>7, <1>12
    <3>5. ASSUME NEW t \in Holders', NEW p \in 1..Len(Queue') PROVE Queue'[p] # held'[t]
      <4>1. CASE p \in 1..n BY <1>7, <1>12, <2>2, <3>1, <4>1 DEF n
      <4>2. CASE p = n + 1 BY <1>7, <2>2, <3>1, <4>2 DEF n
      <4> QED BY <3>3, <4>1, <4>2
    <3>6. ASSUME NEW p \in 1..Len(Queue'), NEW q \in 1..Len(Queue'), Queue'[p] = Queue'[q] PROVE p = q
      <4>1. CASE p \in 1..n /\ q \in 1..n BY <1>12, <2>2, <3>6, <4>1 DEF n
      <4>2. CASE p \in 1..n /\ q = n + 1
        <5>1. Queue'[p] = Queue[p] /\ Queue'[q] = item BY <2>2, <4>2 DEF n
        <5> QED BY <3>2, <3>6, <4>2, <5>1
      <4>3. CASE p = n + 1 /\ q \in 1..n
        <5>1. Queue'[q] = Queue[q] /\ Queue'[p] = item BY <2>2, <4>3 DEF n
        <5> QED BY <3>2, <3>6, <4>3, <5>1
      <4>4. CASE p = n + 1 /\ q = n + 1 BY <4>4
      <4> QED BY <3>3, <4>1, <4>2, <4>3, <4>4
    <3>7. ASSUME NEW p \in 1..Len(Queue') PROVE Queue'[p] \in convs'
      <4>1. CASE p \in 1..n BY <2>1, <2>2, <3>2, <4>1 DEF n
      <4>2. CASE p = n + 1 BY <2>1, <2>2, <4>2 DEF n
      <4> QED BY <3>3, <4>1, <4>2
    <3>8. \A t \in Holders' : held'[t] \in convs' BY <1>7, <2>1, <3>1
    <3>9. DOMAIN Queue' = 1..Len(Queue')
      <4>1. Queue' = SubSeq(ready', head' + 1, Len(ready')) BY DEF Queue
      <4>2. Queue' \in Seq(Convs) BY <2>2, <4>1, SuffixFacts
      <4> QED BY <4>2
    <3>10. Range(Queue)' = {Queue'[p] : p \in 1..Len(Queue')} BY <3>9 DEF Range
    <3>11. Exclusive' BY <3>4, <3>5, <3>6, <3>7, <3>9, <3>10 DEF Exclusive, IsInjective
    <3> QED BY <3>8, <3>11 DEF HoldInv
  <2>5. SizeInv' BY <1>3, <1>10, <1>11, <1>13, <1>15, <2>1, <2>2 DEF SizeInv
  <2>6. SupplyInv'
    <3>1. CanCreate => Len(Queue') + plan[cur].conc >= InitialSlots(plan[cur]) + Cardinality(Free')
      BY <1>10, <1>11, <1>14, <1>15, <2>2, SMTT(30)
    <3>2. Limit > 0 => Len(Queue') + count >= InitialSlots(plan[cur]) BY <1>10, <1>11, <1>15, <2>2
    <3>3. count' = count BY <1>2
    <3> QED BY <1>3, <1>8, <3>1, <3>2, <3>3 DEF SupplyInv
  <2>7. RotationInv'
    <3> SUFFICES ASSUME NEW p \in 1..Len(Queue') PROVE bypass'[Queue'[p]] + p <= PoolSize(plan[cur])
      BY <1>3 DEF RotationInv
    <3>1. CASE p \in 1..Len(Queue)
      <4>1. Queue'[p] = Queue[p] /\ Queue[p] \in Convs BY <1>11, <2>2, <3>1
      <4>2. bypass'[Queue[p]] <= bypass[Queue[p]] /\ bypass'[Queue[p]] \in Nat /\ bypass[Queue[p]] \in Nat
        BY <1>1, <2>1, <4>1
      <4>3. bypass[Queue[p]] + p <= PoolSize(plan[cur]) BY <1>15, <3>1
      <4> QED BY <1>10, <1>11, <3>1, <4>1, <4>2, <4>3
    <3>2. CASE p = Len(Queue) + 1
      <4>1. bypass'[Queue'[p]] = 0 BY <1>1, <2>1, <2>2, <3>2
      <4>2. Len(Queue) + 1 <= PoolSize(plan[cur]) BY <1>10, <1>11, <1>13, <1>15
      <4> QED BY <3>2, <4>1, <4>2
    <3> QED BY <1>11, <2>2, <3>1, <3>2
  <2> QED BY <1>16, <1>17, <1>18, <2>3, <2>4, <2>5, <2>6, <2>7 DEF IInv, Inv
<1> QED BY <1>5, <1>20, <1>21

-----------------------------------------------------------------------------
LEMMA InitInv == Init => IInv
<1> SUFFICES ASSUME Init PROVE IInv OBVIOUS
<1>1. plan \in Plans /\ plan \in Seq(Stage) /\ Len(plan) \in Nat BY PlansAssumption DEF Init
<1>2. TypeOK
  <2>1. /\ plan \in Plans /\ i \in 1..(Len(plan) + 1) /\ phase \in Phases /\ cur \in 0..Len(plan)
        /\ {count, sent} \subseteq Nat /\ ready \in Seq(Convs) /\ head \in 0..Len(ready) /\ convs \subseteq Convs
    BY <1>1 DEF Init, Phases
  <2>2. {ctxDone, stageDone} \subseteq BOOLEAN BY DEF Init
  <2>3. /\ left \in [Convs -> 0..MaxTurns] /\ bypass \in [Convs -> Nat] /\ pc \in [Streams -> StreamPhases]
        /\ held \in [Streams -> Convs \cup {None}] /\ errors \in 0..ErrorLimit /\ pending \in 0..MaxPending
    BY NumberFacts DEF Init, StreamPhases
  <2> QED BY <2>1, <2>2, <2>3 DEF TypeOK
<1>3. DriverInv /\ LeftInv BY DEF Init, DriverInv, LeftInv
<1>4. SizeInv /\ SupplyInv /\ RotationInv /\ ReservedInv
  BY DEF Init, SizeInv, SupplyInv, RotationInv, ReservedInv
<1>5. HoldInv
  <2>1. Holders = {} BY DEF Init, Holders
  <2>2. Len(Queue) = 0 BY <1>2, QueueFacts DEF Init, TypeOK
  <2>3. 1..Len(Queue) = {} BY <2>2
  <2>4. Exclusive BY <1>2, <2>1, <2>3, ExclusiveAlt DEF TypeOK
  <2> QED BY <2>1, <2>4 DEF HoldInv
<1> QED BY <1>2, <1>3, <1>4, <1>5 DEF IInv, Inv

LEMMA StepInv == IInv /\ [Next]_vars => IInv'
<1> SUFFICES ASSUME IInv, [Next]_vars PROVE IInv' OBVIOUS
<1>1. CASE Driver \/ Interrupt \/ RecordResult \/ Returned \/ UNCHANGED vars
  <2>1. Quiet \/ StartStage BY <1>1 DEF Driver, Quiet, Returned
  <2> QED BY <2>1, QuietKeeps, StartStageKeeps
<1>2. ASSUME NEW s \in Streams, StreamStep(s) \/ ServerStep(s) PROVE IInv'
  <2>1. CASE Begin(s) \/ CheckContext(s) \/ NothingNext(s) BY <2>1, IdleKeeps
  <2>2. CASE TakeNext(s) BY <2>2, TakeNextKeeps
  <2>3. CASE Send(s) BY <2>3, SendKeeps
  <2>4. CASE RespondOk(s) \/ RespondError(s) \/ RespondCut(s) BY <2>4, RespondKeeps
  <2>5. CASE CompleteTurn(s) BY <2>5, AbandonKeeps, CompleteTurnKeeps
  <2> QED BY <1>2, <2>1, <2>2, <2>3, <2>4, <2>5 DEF StreamStep, ServerStep
<1> QED BY <1>1, <1>2 DEF Next

LEMMA Invariance == Spec => []IInv
BY InitInv, StepInv, PTL DEF Spec

\* The scheduler's queue and tables, the streams' phases and the driver's state keep
\* their types (conversation_pool.go:14-33, 147-163).
THEOREM TypeCorrect == Spec => []TypeOK
<1>1. IInv => TypeOK BY DEF IInv
<1> QED BY <1>1, Invariance, PTL

\* A conversation is in one stream's hands or once in the queue, however next,
\* complete and the replacement of retired conversations interleave
\* (conversation_pool.go:70-85, 118-134).
THEOREM ConversationsAreExclusive == Spec => []Exclusive
<1>1. IInv => Exclusive BY DEF IInv, Inv, HoldInv
<1> QED BY <1>1, Invariance, PTL

\* next never reserves a request that it has no conversation for, in a pool that
\* Validate admits (conversation_pool.go:87-116).
THEOREM AlwaysReady == Spec => []ReadyWhenNeeded
<1> QED BY Supplied, Invariance, PTL

\* The ready queue is fair: a conversation is overtaken by fewer turns than the
\* pool has conversations, also after the slice is compacted
\* (conversation_pool.go:100-134).
THEOREM OldestGoesFirst == Spec => []LeastRecentlyUsed
<1>1. IInv => LeastRecentlyUsed
  <2> SUFFICES ASSUME IInv, phase = "wait", NEW c \in Range(Queue) PROVE bypass[c] < PoolSize(plan[cur])
    BY DEF LeastRecentlyUsed
  <2> TypeOK BY DEF IInv
  <2>1. cur # 0 BY DEF IInv, Inv, DriverInv, TypeOK
  <2>2. Queue \in Seq(Convs) /\ Len(Queue) \in Nat BY QueueFacts DEF TypeOK
  <2>3. PICK p \in 1..Len(Queue) : c = Queue[p] BY <2>2 DEF Range
  <2>4. bypass[c] + p <= PoolSize(plan[cur]) BY <2>1, <2>3 DEF IInv, Inv, RotationInv
  <2>5. c \in Convs BY <2>2, <2>3
  <2>6. bypass[c] \in Nat /\ PoolSize(plan[cur]) \in Nat BY <2>1, <2>5, CurFacts DEF TypeOK
  <2> QED BY <2>2, <2>4, <2>6
<1> QED BY <1>1, Invariance, PTL

\* A stage with max_requests that is not cut short sends exactly that many,
\* whatever fails and is replaced on the way (conversation_pool.go:87-116,
\* 239-258).
THEOREM RequestsAreExact == Spec => ExactRequests
<1>1. IInv /\ [Next]_vars =>
        [(StageFinished /\ ~Cancelled /\ Limit > 0 /\ plan[cur].conc > 0) => sent = Limit]_vars
  <2> SUFFICES ASSUME IInv, StageFinished, ~Cancelled, Limit > 0, plan[cur].conc > 0 PROVE sent = Limit
    OBVIOUS
  <2> TypeOK BY DEF IInv
  <2>1. cur # 0 /\ \A s \in Streams : pc[s] = "off" BY DEF StageFinished, AllOff, IInv, Inv, DriverInv, TypeOK
  <2>2. count <= Limit /\ sent + Cardinality(Got) = count /\ ~Reserve BY <2>1 DEF IInv, Inv, ReservedInv
  <2>3. Got = {} BY <2>1 DEF Got, In
  <2>4. Cardinality(Got) = 0 BY <2>3, FS_EmptySet
  <2>5. Limit \in Nat /\ count \in Nat /\ sent \in Nat BY <2>1, CurFacts DEF TypeOK
  <2>6. ~(count < Limit) BY <2>2 DEF Reserve
  <2> QED BY <2>2, <2>4, <2>5, <2>6
<1> QED BY <1>1, Invariance, PTL DEF Spec, ExactRequests
=============================================================================
