---------------------------- MODULE BarrierProofs ----------------------------
(***************************************************************************)
(* Proofs about Barrier for any number of workers, barriers, retries and   *)
(* lost connections: nobody passes a barrier that some worker has not      *)
(* reached, and fewer lost connections than workers leave one start time   *)
(* per barrier.                                                            *)
(***************************************************************************)
EXTENDS Barrier, FiniteSetTheorems, TLAPS

\* The worker has come to barrier k, or is past it.
Reached(w, k) == at[w] > k \/ (at[w] = k /\ pc[w] # "work")

\* A worker that is still running has a barrier ahead of it.
ClientInv == \A w \in Workers : pc[w] \in {"work", "try", "wait"} => at[w] <= NBarriers

\* A call works for a barrier its worker has reached, on a barrierState that was
\* made; a call whose client listens is the only one, and the client waits for it.
CallInv(w, a, k) ==
  /\ Reached(w, k)
  /\ handler[w][a].at # "get" => handler[w][a].g \in 1..Len(objs[k])
  /\ handler[w][a].open => /\ pc[w] = "wait" /\ at[w] = k
                           /\ \A b \in Attempts : handler[w][b].open => b = a

HandlerInv ==
  \A w \in Workers, a \in Attempts : \A k \in Barriers :
    handler[w][a].at # "none" /\ handler[w][a].k = k => CallInv(w, a, k)

\* A closed slot of the handler table is not open.
OpenInv == \A w \in Workers, a \in Attempts : handler[w][a].open => handler[w][a].at # "none"

\* Who is registered has reached the barrier, and a start time was computed by a
\* barrierState in which all are registered.
ReadyInv ==
  /\ \A k \in Barriers : \A g \in 1..Len(objs[k]) : \A w \in objs[k][g] : Reached(w, k)
  /\ \A w \in Workers : \A k \in Barriers :
       start[w][k] # 0 => start[w][k] \in 1..Len(objs[k]) /\ objs[k][start[w][k]] = Workers

-----------------------------------------------------------------------------
(* Counting registrations. A worker that is, or will be, registered twice  *)
(* at one barrier has lost a connection while it waited there.             *)

Registered(w, k) == {g \in 1..Len(objs[k]) : w \in objs[k][g]}
Registering(w, k) == {a \in Attempts : handler[w][a].at \in {"get", "lock"} /\ handler[w][a].k = k}

Once(w, k) == Registered(w, k) # {} \/ Registering(w, k) # {}
Twice(w, k) ==
  \/ \E g, h \in Registered(w, k) : g # h
  \/ \E a, b \in Registering(w, k) : a # b
  \/ Registered(w, k) # {} /\ Registering(w, k) # {}

\* Registered twice at a barrier, or about to try there once more.
Ghost(w) ==
  \E k \in Barriers : Twice(w, k) \/ (server = "up" /\ pc[w] = "try" /\ at[w] = k /\ Once(w, k))

Ghosts == {w \in Workers : Ghost(w)}

GhostInv == Cardinality(Ghosts) <= losses

\* Before the server listens nobody has called it.
StartInv ==
  server = "starting" =>
    /\ \A w \in Workers, a \in Attempts : handler[w][a].at = "none"
    /\ \A k \in Barriers : objs[k] = <<>>

Inv == StartInv /\ ClientInv /\ HandlerInv /\ OpenInv /\ ReadyInv /\ GhostInv

IInv == TypeOK /\ Inv

-----------------------------------------------------------------------------
(* Typing.                                                                 *)

Handler == [at : HandlerPhases, k : Barriers, g : Nat, open : BOOLEAN]
HandlerTable == [Workers -> [Attempts -> Handler]]

LEMMA NumberFacts ==
  /\ NBarriers \in Nat /\ NBarriers >= 1 /\ Retries \in Nat /\ MaxLosses \in Nat
  /\ 1 \in Barriers
  /\ NoHandler \in Handler
<1>1. NBarriers \in Nat /\ NBarriers >= 1 /\ Retries \in Nat /\ MaxLosses \in Nat BY BarrierAssumption
<1> QED BY <1>1 DEF Barriers, NoHandler, Handler, HandlerPhases

LEMMA TypeInit == Init => TypeOK
<1> SUFFICES ASSUME Init PROVE TypeOK OBVIOUS
<1>1. objs \in [Barriers -> Seq(SUBSET Workers)] /\ \A k \in Barriers : current[k] \in 0..Len(objs[k])
  BY DEF Init
<1>2. handler \in HandlerTable BY NumberFacts DEF Init, HandlerTable
<1>3. at \in [Workers -> 1..(NBarriers + 1)] /\ att \in [Workers -> 0..(NBarriers + Retries)] /\ losses \in 0..MaxLosses
  BY NumberFacts DEF Init
<1>4. pc \in [Workers -> ClientPhases] /\ start \in [Workers -> [Barriers -> Nat]]
  BY DEF Init, ClientPhases
<1> QED BY <1>1, <1>2, <1>3, <1>4 DEF Init, TypeOK, HandlerTable, Handler

\* One call changes, and no other.
SetHandler(w, a, h) ==
  /\ handler' \in HandlerTable
  /\ handler'[w][a] = h
  /\ \A v \in Workers, b \in Attempts : v # w \/ b # a => handler'[v][b] = handler[v][b]

LEMMA SetOne ==
  ASSUME TypeOK, NEW w \in Workers, NEW a \in Attempts, NEW h \in Handler,
         handler' = [handler EXCEPT ![w][a] = h]
  PROVE  SetHandler(w, a, h)
<1>1. handler \in HandlerTable BY DEF TypeOK, HandlerTable, Handler
<1> QED BY <1>1 DEF SetHandler, HandlerTable

\* The worker's calls lose their client.
HungUp(w) ==
  /\ handler' \in HandlerTable
  /\ \A v \in Workers, b \in Attempts :
       /\ v # w => handler'[v][b] = handler[v][b]
       /\ handler'[v][b].at = handler[v][b].at /\ handler'[v][b].k = handler[v][b].k
       /\ handler'[v][b].g = handler[v][b].g
  /\ \A b \in Attempts : ~handler'[w][b].open

LEMMA HangsUp ==
  ASSUME TypeOK, NEW w \in Workers, HangUp(w)
  PROVE  HungUp(w)
<1>1. handler \in HandlerTable BY DEF TypeOK, HandlerTable, Handler
<1> DEFINE row == [a \in Attempts |-> [handler[w][a] EXCEPT !.open = FALSE]]
<1>2. handler' = [handler EXCEPT ![w] = row] BY <1>1 DEF HangUp
<1>3. \A a \in Attempts : handler[w][a] \in Handler BY <1>1 DEF HandlerTable
<1>4. \A h \in Handler : /\ [h EXCEPT !.open = FALSE] \in Handler
                         /\ [h EXCEPT !.open = FALSE].at = h.at /\ [h EXCEPT !.open = FALSE].k = h.k
                         /\ [h EXCEPT !.open = FALSE].g = h.g /\ [h EXCEPT !.open = FALSE].open = FALSE
  BY DEF Handler
<1>5. row \in [Attempts -> Handler] BY <1>3, <1>4
<1>6. handler'[w] = row /\ handler' \in HandlerTable /\ \A v \in Workers : v # w => handler'[v] = handler[v]
  BY <1>1, <1>2, <1>5 DEF HandlerTable
<1>7. \A b \in Attempts : handler'[w][b] = [handler[w][b] EXCEPT !.open = FALSE] BY <1>6
<1>8. ASSUME NEW b \in Attempts
      PROVE  /\ handler'[w][b].at = handler[w][b].at /\ handler'[w][b].k = handler[w][b].k
             /\ handler'[w][b].g = handler[w][b].g /\ handler'[w][b].open = FALSE
  <2> DEFINE h == handler[w][b]
             n == [h EXCEPT !.open = FALSE]
  <2>1. h \in Handler BY <1>3
  <2>2. n.at = h.at /\ n.k = h.k /\ n.g = h.g /\ n.open = FALSE
    <3> HIDE DEF h
    <3> QED BY <2>1 DEF Handler
  <2>3. handler'[w][b] = n BY <1>7
  <2> HIDE DEF n
  <2> QED BY <2>2, <2>3
<1>9. ASSUME NEW v \in Workers, NEW b \in Attempts
      PROVE  /\ v # w => handler'[v][b] = handler[v][b]
             /\ handler'[v][b].at = handler[v][b].at /\ handler'[v][b].k = handler[v][b].k
             /\ handler'[v][b].g = handler[v][b].g
  <2>1. CASE v = w BY <2>1, <1>8
  <2>2. CASE v # w BY <2>2, <1>6
  <2> QED BY <2>1, <2>2
<1> QED BY <1>6, <1>8, <1>9 DEF HungUp

\* A call goes on to phase x, with the barrierState g.
Moved(w, a, x, g) ==
  /\ handler' \in HandlerTable
  /\ handler'[w][a].at = x /\ handler'[w][a].g = g
  /\ handler'[w][a].k = handler[w][a].k /\ handler'[w][a].open = handler[w][a].open
  /\ \A v \in Workers, b \in Attempts : v # w \/ b # a => handler'[v][b] = handler[v][b]

LEMMA MovesOn ==
  ASSUME TypeOK, NEW w \in Workers, NEW a \in Attempts, NEW x \in HandlerPhases, NEW g \in Nat
  PROVE  /\ handler' = [handler EXCEPT ![w][a].at = x, ![w][a].g = g] => Moved(w, a, x, g)
         /\ handler' = [handler EXCEPT ![w][a].at = x] => Moved(w, a, x, handler[w][a].g)
<1>1. handler \in HandlerTable /\ handler[w][a] \in Handler /\ handler[w] \in [Attempts -> Handler]
  BY DEF TypeOK, HandlerTable, Handler
<1> DEFINE h == handler[w][a]
           one == [h EXCEPT !.at = x]
           two == [one EXCEPT !.g = g]
<1>2. one \in Handler /\ one.at = x /\ one.g = h.g /\ one.k = h.k /\ one.open = h.open
  BY <1>1 DEF Handler
<1>3. two \in Handler /\ two.at = x /\ two.g = g /\ two.k = h.k /\ two.open = h.open
  <2> HIDE DEF one
  <2> QED BY <1>2 DEF Handler
<1>4. ASSUME handler' = [handler EXCEPT ![w][a].at = x] PROVE Moved(w, a, x, handler[w][a].g)
  <2>1. handler' = [handler EXCEPT ![w][a] = one] BY <1>1, <1>4
  <2> HIDE DEF one
  <2>2. SetHandler(w, a, one) BY <2>1, <1>2, SetOne
  <2> QED BY <2>2, <1>2 DEF SetHandler, Moved
<1>5. ASSUME handler' = [handler EXCEPT ![w][a].at = x, ![w][a].g = g] PROVE Moved(w, a, x, g)
  <2> DEFINE mid == [handler EXCEPT ![w][a] = one]
  <2>1. mid = [handler EXCEPT ![w][a].at = x] /\ mid[w][a] = one /\ mid \in HandlerTable
    <3>1. mid = [handler EXCEPT ![w][a].at = x] BY <1>1
    <3>2. mid[w][a] = one /\ mid \in HandlerTable
      <4> HIDE DEF one
      <4> QED BY <1>1, <1>2 DEF HandlerTable
    <3> QED BY <3>1, <3>2
  <2>2. handler' = [mid EXCEPT ![w][a].g = g] BY <1>5, <2>1
  <2>3. handler' = [mid EXCEPT ![w][a] = two]
    <3> HIDE DEF mid, one
    <3> QED BY <2>1, <2>2
  <2>4. \A v \in Workers, b \in Attempts : v # w \/ b # a => mid[v][b] = handler[v][b]
    <3> HIDE DEF one
    <3> QED BY <1>1 DEF HandlerTable
  <2>5. handler' \in HandlerTable /\ handler'[w][a] = two
        /\ \A v \in Workers, b \in Attempts : v # w \/ b # a => handler'[v][b] = mid[v][b]
    <3> HIDE DEF mid, one, two
    <3> QED BY <2>1, <2>3, <1>3 DEF HandlerTable
  <2> HIDE DEF mid, one, two
  <2> QED BY <2>4, <2>5, <1>3 DEF Moved
<1> QED BY <1>4, <1>5

LEMMA TypeClient ==
  ASSUME TypeOK, ClientInv, NEW w \in Workers,
         ClientStep(w) \/ Refused(w) \/ Lose(w) \/ Timeout(w)
  PROVE  TypeOK'
<1> USE DEF TypeOK
<1>1. CASE Arrive(w) BY <1>1 DEF Arrive, ClientPhases, serverVars
<1>2. CASE Refused(w)
  <2>1. at[w] <= NBarriers BY <1>2 DEF Refused, ClientInv
  <2>2. att' \in [Workers -> 0..(NBarriers + Retries)] BY <1>2, <2>1, NumberFacts, SMTT(30) DEF Refused
  <2> QED BY <1>2, <2>2 DEF Refused, serverVars
<1>3. CASE Post(w)
  <2>1. att[w] + 1 \in Attempts BY <1>3, NumberFacts, SMTT(30) DEF Post, Attempts
  <2>2. at[w] \in Barriers BY <1>3, NumberFacts DEF Post, ClientInv, Barriers
  <2>3. [at |-> "get", k |-> at[w], g |-> 0, open |-> TRUE] \in Handler BY <2>2 DEF Handler, HandlerPhases
  <2>4. handler' \in HandlerTable BY <1>3, <2>1, <2>3, SetOne DEF Post, SetHandler
  <2>5. att' \in [Workers -> 0..(NBarriers + Retries)] BY <1>3, NumberFacts DEF Post
  <2>6. pc' \in [Workers -> ClientPhases] BY <1>3 DEF Post, ClientPhases
  <2> QED BY <1>3, <2>4, <2>5, <2>6 DEF Post, serverVars, HandlerTable, Handler
<1>4. CASE Lose(w)
  <2>1. handler' \in HandlerTable BY <1>4, HangsUp DEF Lose, HungUp
  <2>2. losses' \in 0..MaxLosses BY <1>4, NumberFacts DEF Lose
  <2>3. pc' \in [Workers -> ClientPhases] BY <1>4 DEF Lose, ClientPhases
  <2> QED BY <1>4, <2>1, <2>2, <2>3 DEF Lose, serverVars, HandlerTable, Handler
<1>5. CASE Timeout(w)
  <2>1. handler' \in HandlerTable BY <1>5, HangsUp DEF Timeout, HungUp
  <2>2. pc' \in [Workers -> ClientPhases] BY <1>5 DEF Timeout, ClientPhases
  <2> QED BY <1>5, <2>1, <2>2 DEF Timeout, serverVars, HandlerTable, Handler
<1> QED BY <1>1, <1>2, <1>3, <1>4, <1>5 DEF ClientStep

LEMMA TypeHandler ==
  ASSUME IInv, NEW w \in Workers, NEW a \in Attempts, HandlerStep(w, a)
  PROVE  TypeOK'
<1> USE DEF TypeOK
<1> TypeOK BY DEF IInv
<1>1. handler[w][a] \in Handler BY DEF Handler
<1> DEFINE k == handler[w][a].k
           g == handler[w][a].g
<1>2. k \in Barriers /\ g \in Nat /\ objs[k] \in Seq(SUBSET Workers) /\ current[k] \in 0..Len(objs[k])
  BY <1>1 DEF Handler
<1>3. handler[w][a].at # "none" /\ handler[w][a].at # "get" => g \in 1..Len(objs[k])
  BY <1>2 DEF IInv, Inv, HandlerInv, CallInv
<1>4. CASE GetBarrier(w, a)
  <2> DEFINE n == IF current[k] = 0 THEN Len(objs[k]) + 1 ELSE current[k]
  <2>1. n \in Nat /\ n >= 1 BY <1>2
  <2>2. handler' = [handler EXCEPT ![w][a].at = "lock", ![w][a].g = n] BY <1>4 DEF GetBarrier
  <2>3. handler' \in HandlerTable
    <3> HIDE DEF n
    <3> QED BY <2>1, <2>2, MovesOn DEF HandlerPhases, Moved
  <2>4. current' = [current EXCEPT ![k] = n] BY <1>4 DEF GetBarrier
  <2>5. objs' \in [Barriers -> Seq(SUBSET Workers)] /\ \A j \in Barriers : current'[j] \in 0..Len(objs'[j])
    <3>1. CASE current[k] = 0
      <4>1. objs' = [objs EXCEPT ![k] = Append(@, {})] BY <1>4, <3>1 DEF GetBarrier
      <4>2. Append(objs[k], {}) \in Seq(SUBSET Workers) /\ Len(Append(objs[k], {})) = Len(objs[k]) + 1 BY <1>2
      <4> HIDE DEF k
      <4> QED BY <1>2, <2>4, <3>1, <4>1, <4>2, SMTT(30)
    <3>2. CASE current[k] # 0
      <4>1. objs' = objs BY <1>4, <3>2 DEF GetBarrier
      <4> HIDE DEF k
      <4> QED BY <1>2, <2>4, <3>2, <4>1, SMTT(30)
    <3> QED BY <3>1, <3>2
  <2>6. UNCHANGED <<server, clientVars, losses, faults>> BY <1>4 DEF GetBarrier
  <2> QED BY <2>3, <2>5, <2>6 DEF clientVars, HandlerTable, Handler
<1>5. CASE Register(w, a)
  <2>1. handler[w][a].at = "lock" BY <1>5 DEF Register
  <2>2. g \in 1..Len(objs[k]) BY <1>3, <2>1
  <2>3. PICK x \in {"delete", "select"} : handler' = [handler EXCEPT ![w][a].at = x] BY <1>5 DEF Register
  <2>4. handler' \in HandlerTable BY <2>3, <1>2, MovesOn DEF HandlerPhases, Moved
  <2>5. objs' = [objs EXCEPT ![k][g] = @ \cup {w}] BY <1>5 DEF Register
  <2>6. objs' \in [Barriers -> Seq(SUBSET Workers)] /\ \A j \in Barriers : Len(objs'[j]) = Len(objs[j])
    <3> HIDE DEF k, g
    <3> QED BY <1>2, <2>2, <2>5
  <2>7. UNCHANGED <<server, current, clientVars, losses, faults>> BY <1>5 DEF Register
  <2> QED BY <2>4, <2>6, <2>7 DEF clientVars, HandlerTable, Handler
<1>6. CASE Conflict(w, a)
  <2>1. handler' \in HandlerTable BY <1>6, NumberFacts, SetOne DEF Conflict, Returned, SetHandler
  <2>2. pc' \in [Workers -> ClientPhases] BY <1>6 DEF Conflict, ClientPhases
  <2> QED BY <1>6, <2>1, <2>2 DEF Conflict, serverVars, HandlerTable, Handler
<1>7. CASE DeleteBarrier(w, a)
  <2>1. handler' \in HandlerTable BY <1>7, <1>2, MovesOn DEF DeleteBarrier, HandlerPhases, Moved
  <2>2. \A j \in Barriers : current'[j] \in 0..Len(objs[j])
    <3>1. current' = [current EXCEPT ![k] = 0] BY <1>7 DEF DeleteBarrier
    <3>2. \A j \in Barriers : Len(objs[j]) \in Nat OBVIOUS
    <3> HIDE DEF k
    <3> QED BY <3>1, <3>2, <1>2
  <2> QED BY <1>7, <2>1, <2>2 DEF DeleteBarrier, clientVars, HandlerTable, Handler
<1>8. CASE Reply(w, a)
  <2>1. handler' \in HandlerTable BY <1>8, NumberFacts, SetOne DEF Reply, Returned, SetHandler
  <2>2. CASE handler[w][a].open
    <3>1. start' = [start EXCEPT ![w][k] = g] /\ at' = [at EXCEPT ![w] = k + 1]
          /\ pc' = [pc EXCEPT ![w] = IF k = NBarriers THEN "done" ELSE "work"]
      BY <1>8, <2>2 DEF Reply
    <3>2. k + 1 \in 1..(NBarriers + 1) BY <1>2, NumberFacts, SMTT(30) DEF Barriers
    <3>3. start' \in [Workers -> [Barriers -> Nat]]
      <4> HIDE DEF k, g
      <4> QED BY <3>1, <1>2
    <3>4. at' \in [Workers -> 1..(NBarriers + 1)]
      <4> HIDE DEF k, g
      <4> QED BY <3>1, <3>2
    <3>5. pc' \in [Workers -> ClientPhases] BY <3>1 DEF ClientPhases
    <3> QED BY <1>8, <2>1, <3>3, <3>4, <3>5 DEF Reply, serverVars, HandlerTable, Handler
  <2>3. CASE ~handler[w][a].open
    <3>1. UNCHANGED <<start, at, pc>> BY <1>8, <2>3 DEF Reply
    <3> QED BY <1>8, <2>1, <3>1 DEF Reply, serverVars, HandlerTable, Handler
  <2> QED BY <2>2, <2>3
<1>9. CASE RequestGone(w, a)
  <2>1. handler' \in HandlerTable BY <1>9, NumberFacts, SetOne DEF RequestGone, Returned, SetHandler
  <2> QED BY <1>9, <2>1 DEF RequestGone, serverVars, clientVars, HandlerTable, Handler
<1> QED BY <1>4, <1>5, <1>6, <1>7, <1>8, <1>9 DEF HandlerStep

LEMMA TypeServer ==
  ASSUME TypeOK, Listen \/ ServerGone \/ UNCHANGED vars
  PROVE  TypeOK'
<1> USE DEF TypeOK
<1>1. CASE Listen BY <1>1 DEF Listen, clientVars
<1>2. CASE ServerGone
  <2>1. handler' \in HandlerTable BY <1>2, NumberFacts DEF ServerGone, HandlerTable
  <2>2. pc' \in [Workers -> ClientPhases] BY <1>2 DEF ServerGone, ClientPhases
  <2>3. faults' \subseteq {"lost", "timeout", "gone"} BY <1>2 DEF ServerGone
  <2> QED BY <1>2, <2>1, <2>2, <2>3 DEF ServerGone, HandlerTable, Handler
<1>3. CASE UNCHANGED vars BY <1>3 DEF vars, serverVars, clientVars
<1> QED BY <1>1, <1>2, <1>3

-----------------------------------------------------------------------------
(* A worker that has reached a barrier stays there or goes on.             *)

\* What the table says of one call.
LEMMA CallFacts ==
  ASSUME IInv, NEW w \in Workers, NEW a \in Attempts, handler[w][a].at # "none"
  PROVE  /\ handler[w][a] \in Handler
         /\ handler[w][a].k \in Barriers
         /\ handler[w][a].g \in Nat
         /\ objs[handler[w][a].k] \in Seq(SUBSET Workers)
         /\ server # "starting"
         /\ Reached(w, handler[w][a].k)
         /\ handler[w][a].at # "get" => handler[w][a].g \in 1..Len(objs[handler[w][a].k])
         /\ handler[w][a].open => /\ pc[w] = "wait" /\ handler[w][a].k = at[w]
                                  /\ \A b \in Attempts : handler[w][b].open => b = a
<1>1. handler[w][a] \in Handler BY DEF IInv, TypeOK, Handler
<1>2. handler[w][a].k \in Barriers /\ handler[w][a].g \in Nat BY <1>1 DEF Handler
<1>3. objs[handler[w][a].k] \in Seq(SUBSET Workers) BY <1>2 DEF IInv, TypeOK
<1>4. server # "starting" BY DEF IInv, Inv, StartInv
<1> QED BY <1>1, <1>2, <1>3, <1>4 DEF IInv, Inv, HandlerInv, CallInv

LEMMA NotOpen ==
  ASSUME IInv, NEW w \in Workers, pc[w] # "wait", NEW a \in Attempts
  PROVE  ~handler[w][a].open
BY CallFacts DEF IInv, Inv, OpenInv

LEMMA ReachedStays ==
  ASSUME IInv, [Next]_vars, NEW v \in Workers, NEW j \in Barriers, Reached(v, j)
  PROVE  Reached(v, j)'
<1> TypeOK BY DEF IInv
<1>0. /\ at \in [Workers -> 1..(NBarriers + 1)] /\ pc \in [Workers -> ClientPhases]
      /\ j \in Int /\ at[v] \in Int /\ NBarriers \in Nat
  BY NumberFacts DEF TypeOK, Barriers
<1> USE DEF Reached
<1>1. CASE Listen BY <1>0, <1>1 DEF Listen, clientVars
<1>2. CASE ServerGone BY <1>0, <1>2 DEF ServerGone
<1>3. ASSUME NEW w \in Workers, ClientStep(w) \/ Refused(w) \/ Lose(w) \/ Timeout(w) PROVE Reached(v, j)'
  BY <1>0, <1>3 DEF ClientStep, Arrive, Post, Refused, Lose, Timeout
<1>4. ASSUME NEW w \in Workers, NEW a \in Attempts, HandlerStep(w, a) PROVE Reached(v, j)'
  <2>1. CASE Reply(w, a) /\ handler[w][a].open
    <3>1. handler[w][a].at # "none" BY <2>1 DEF Reply
    <3>2. handler[w][a].k = at[w] /\ handler[w][a].k \in Barriers BY <2>1, <3>1, CallFacts
    <3>3. at' = [at EXCEPT ![w] = handler[w][a].k + 1]
          /\ pc' = [pc EXCEPT ![w] = IF handler[w][a].k = NBarriers THEN "done" ELSE "work"]
      BY <2>1 DEF Reply
    <3>4. at' = [at EXCEPT ![w] = at[w] + 1] BY <3>2, <3>3
    <3>5. CASE v = w BY <1>0, <3>4, <3>5
    <3>6. CASE v # w BY <1>0, <3>3, <3>6
    <3> QED BY <3>5, <3>6
  <2>2. CASE Reply(w, a) /\ ~handler[w][a].open BY <2>2 DEF Reply
  <2>3. CASE Conflict(w, a) BY <1>0, <2>3 DEF Conflict
  <2>4. CASE GetBarrier(w, a) \/ Register(w, a) \/ DeleteBarrier(w, a) \/ RequestGone(w, a)
    BY <2>4 DEF GetBarrier, Register, DeleteBarrier, RequestGone, clientVars
  <2> QED BY <1>4, <2>1, <2>2, <2>3, <2>4 DEF HandlerStep
<1>5. CASE Ended \/ UNCHANGED vars BY <1>5 DEF Ended, vars, clientVars
<1> QED BY <1>1, <1>2, <1>3, <1>4, <1>5 DEF Next

-----------------------------------------------------------------------------
(* Counting: which steps can make a ghost.                                 *)

\* No step but the loss of a connection raises the number of ghosts.
LEMMA GhostBound ==
  ASSUME IInv, Ghosts' \subseteq Ghosts, losses' = losses
  PROVE  GhostInv'
<1>1. IsFiniteSet(Ghosts)
  <2>1. Ghosts \subseteq Workers BY DEF Ghosts
  <2> QED BY <2>1, BarrierAssumption, FS_Subset
<1>2. Cardinality(Ghosts') <= Cardinality(Ghosts) /\ IsFiniteSet(Ghosts') BY <1>1, FS_Subset
<1>3. Cardinality(Ghosts) \in Nat /\ Cardinality(Ghosts') \in Nat BY <1>1, <1>2, FS_CardinalityType
<1>4. Cardinality(Ghosts) <= losses /\ losses \in Int BY DEF IInv, Inv, GhostInv, TypeOK
<1>5. Cardinality(Ghosts)' = Cardinality(Ghosts') OBVIOUS
<1> QED BY <1>2, <1>3, <1>4, <1>5 DEF GhostInv

LEMMA GhostLoss ==
  ASSUME IInv, NEW w \in Workers, Ghosts' \subseteq Ghosts \cup {w}, losses' = losses + 1
  PROVE  GhostInv'
<1>1. IsFiniteSet(Ghosts)
  <2>1. Ghosts \subseteq Workers BY DEF Ghosts
  <2> QED BY <2>1, BarrierAssumption, FS_Subset
<1>2. IsFiniteSet(Ghosts \cup {w}) /\ Cardinality(Ghosts \cup {w}) <= Cardinality(Ghosts) + 1
  <2>1. /\ IsFiniteSet(Ghosts \cup {w})
        /\ Cardinality(Ghosts \cup {w}) = IF w \in Ghosts THEN Cardinality(Ghosts) ELSE Cardinality(Ghosts) + 1
    BY <1>1, FS_AddElement
  <2>2. Cardinality(Ghosts) \in Nat BY <1>1, FS_CardinalityType
  <2> QED BY <2>1, <2>2
<1>3. Cardinality(Ghosts') <= Cardinality(Ghosts \cup {w}) /\ IsFiniteSet(Ghosts') BY <1>2, FS_Subset
<1>4. Cardinality(Ghosts) \in Nat /\ Cardinality(Ghosts') \in Nat /\ Cardinality(Ghosts \cup {w}) \in Nat
  BY <1>1, <1>2, <1>3, FS_CardinalityType
<1>5. Cardinality(Ghosts) <= losses /\ losses \in Int BY DEF IInv, Inv, GhostInv, TypeOK
<1>6. Cardinality(Ghosts)' = Cardinality(Ghosts') OBVIOUS
<1> QED BY <1>2, <1>3, <1>4, <1>5, <1>6 DEF GhostInv

\* A worker whose registrations do not grow, and that does not start to try.
LEMMA NoNewGhost ==
  ASSUME NEW w \in Workers,
         \A k \in Barriers : Registered(w, k)' \subseteq Registered(w, k) /\ Registering(w, k)' \subseteq Registering(w, k),
         server' = "up" /\ pc'[w] = "try" => server = "up" /\ pc[w] = "try" /\ at'[w] = at[w],
         Ghost(w)'
  PROVE  Ghost(w)
<1>1. PICK k \in Barriers :
        Twice(w, k)' \/ (server' = "up" /\ pc'[w] = "try" /\ at'[w] = k /\ Once(w, k)')
  BY DEF Ghost, Once, Twice, Registered, Registering
<1>2. Registered(w, k)' \subseteq Registered(w, k) /\ Registering(w, k)' \subseteq Registering(w, k) OBVIOUS
<1>3. Twice(w, k)' => Twice(w, k) BY <1>2 DEF Twice
<1>4. Once(w, k)' => Once(w, k) BY <1>2 DEF Once
<1> QED BY <1>1, <1>3, <1>4 DEF Ghost

\* A worker that has not come to its barrier has no call and no registration there.
LEMMA NotYet ==
  ASSUME IInv, NEW w \in Workers, pc[w] = "work"
  PROVE  at[w] \in Barriers => ~Once(w, at[w])
<1> SUFFICES ASSUME at[w] \in Barriers, Once(w, at[w]) PROVE FALSE OBVIOUS
<1>1. at[w] \in Int /\ ~Reached(w, at[w]) BY DEF IInv, TypeOK, Reached
<1>2. CASE Registered(w, at[w]) # {} BY <1>1, <1>2 DEF Registered, IInv, Inv, ReadyInv
<1>3. CASE Registering(w, at[w]) # {} BY <1>1, <1>3 DEF Registering, IInv, Inv, HandlerInv, CallInv
<1> QED BY <1>2, <1>3 DEF Once

-----------------------------------------------------------------------------
(* The worker's steps keep the invariant.                                  *)

\* ReadyInv speaks of the barrierStates, of the start times and of who reached
\* what.
LEMMA ReadyKept ==
  ASSUME IInv, [Next]_vars, UNCHANGED <<objs, start>>
  PROVE  ReadyInv'
<1>1. ASSUME NEW k \in Barriers, NEW g \in 1..Len(objs[k]), NEW v \in objs[k][g] PROVE Reached(v, k)'
  <2>1. objs[k] \in Seq(SUBSET Workers) BY DEF IInv, TypeOK
  <2>2. v \in Workers BY <2>1
  <2>3. Reached(v, k) BY DEF IInv, Inv, ReadyInv
  <2> QED BY <2>2, <2>3, ReachedStays
<1> QED BY <1>1 DEF IInv, Inv, ReadyInv

\* The calls that a step leaves alone.
LEMMA CallKept ==
  ASSUME IInv, [Next]_vars, NEW v \in Workers, NEW b \in Attempts, NEW k \in Barriers,
         handler[v][b].at # "none", handler[v][b].k = k
  PROVE  /\ Reached(v, k)'
         /\ handler[v][b].at # "get" => handler[v][b].g \in 1..Len(objs[k])
         /\ handler[v][b].open => /\ pc[v] = "wait" /\ at[v] = k
                                  /\ \A c \in Attempts : handler[v][c].open => c = b
BY CallFacts, ReachedStays

LEMMA ClientKeepsHandlers ==
  ASSUME IInv, [Next]_vars, NEW w \in Workers, ClientStep(w) \/ Refused(w) \/ Lose(w) \/ Timeout(w)
  PROVE  StartInv' /\ ClientInv' /\ HandlerInv' /\ OpenInv'
<1> TypeOK BY DEF IInv
<1>0. at \in [Workers -> 1..(NBarriers + 1)] /\ pc \in [Workers -> ClientPhases]
  BY DEF TypeOK
<1>2. CASE Arrive(w)
  <2>1. \A b \in Attempts : ~handler[w][b].open BY <1>2, NotOpen DEF Arrive
  <2>2. UNCHANGED <<server, objs, handler, at>> /\ pc' = [pc EXCEPT ![w] = "try"] BY <1>2 DEF Arrive, serverVars
  <2>3. HandlerInv'
    <3> SUFFICES ASSUME NEW v \in Workers, NEW b \in Attempts, NEW k \in Barriers,
                        handler[v][b].at # "none", handler[v][b].k = k
                 PROVE  CallInv(v, b, k)'
      BY <2>2 DEF HandlerInv
    <3>1. CASE v = w BY <2>1, <2>2, <3>1, CallKept DEF CallInv
    <3>2. CASE v # w BY <1>0, <2>2, <3>2, CallKept DEF CallInv
    <3> QED BY <3>1, <3>2
  <2> QED BY <1>0, <1>2, <2>2, <2>3 DEF Arrive, IInv, Inv, StartInv, ClientInv, OpenInv
<1>3. CASE Refused(w)
  <2>1. UNCHANGED <<server, objs, handler, at, pc>> BY <1>3 DEF Refused, serverVars
  <2>2. HandlerInv' BY <2>1, CallKept DEF HandlerInv, CallInv
  <2> QED BY <2>1, <2>2 DEF IInv, Inv, StartInv, ClientInv, OpenInv
<1>4. CASE Post(w)
  <2> DEFINE a == att[w] + 1
             h == [at |-> "get", k |-> at[w], g |-> 0, open |-> TRUE]
  <2>1. a \in Attempts /\ at[w] \in Barriers
    <3>1. at[w] <= NBarriers BY <1>4 DEF Post, IInv, Inv, ClientInv
    <3>2. att[w] \in Nat /\ att[w] < NBarriers + Retries BY <1>4, NumberFacts DEF Post, TypeOK
    <3> QED BY <1>0, <3>1, <3>2, NumberFacts DEF Attempts, Barriers
  <2>2. h \in Handler BY <2>1 DEF Handler, HandlerPhases
  <2>3. SetHandler(w, a, h) BY <1>4, <2>1, <2>2, SetOne DEF Post
  <2>4. \A b \in Attempts : ~handler[w][b].open BY <1>4, NotOpen DEF Post
  <2>5. UNCHANGED <<server, objs, at>> /\ pc' = [pc EXCEPT ![w] = "wait"] /\ server = "up" BY <1>4 DEF Post, serverVars
  <2>6. handler'[w][a].at = "get" /\ handler'[w][a].k = at[w] BY <2>3 DEF SetHandler
  <2>7. Reached(w, at[w])' /\ pc'[w] = "wait" BY <1>0, <2>5 DEF Reached
  <2>8. \A v \in Workers, b \in Attempts : v # w \/ b # a => handler'[v][b] = handler[v][b] BY <2>3 DEF SetHandler
  <2> HIDE DEF a, h
  <2>9. HandlerInv'
    <3> SUFFICES ASSUME NEW v \in Workers, NEW b \in Attempts, NEW k \in Barriers,
                        handler'[v][b].at # "none", handler'[v][b].k = k
                 PROVE  CallInv(v, b, k)'
      BY DEF HandlerInv
    <3>1. CASE v = w /\ b = a
      <4>1. \A c \in Attempts : handler'[w][c].open => c = a BY <2>1, <2>4, <2>8
      <4>2. k = at[w] /\ at'[w] = k BY <2>5, <2>6, <3>1
      <4>3. Reached(w, k)' BY <2>7, <4>2 DEF Reached
      <4> QED BY <2>6, <2>7, <3>1, <4>1, <4>2, <4>3 DEF CallInv
    <3>2. CASE v = w /\ b # a
      <4>1. handler'[v][b] = handler[v][b] BY <2>8, <3>2
      <4> QED BY <4>1, CallKept, <2>4, <2>5, <3>2 DEF CallInv
    <3>3. CASE v # w
      <4>1. \A c \in Attempts : handler'[v][c] = handler[v][c] BY <2>8, <3>3
      <4> QED BY <4>1, <1>0, CallKept, <2>5, <3>3 DEF CallInv
    <3> QED BY <3>1, <3>2, <3>3
  <2>10. OpenInv'
    <3> SUFFICES ASSUME NEW v \in Workers, NEW b \in Attempts, handler'[v][b].open
                 PROVE  handler'[v][b].at # "none"
      BY DEF OpenInv
    <3>1. CASE v = w /\ b = a BY <2>6, <3>1
    <3>2. CASE v # w \/ b # a BY <2>8, <3>2 DEF IInv, Inv, OpenInv
    <3> QED BY <3>1, <3>2
  <2>11. ClientInv' BY <1>0, <1>4, <2>5 DEF Post, IInv, Inv, ClientInv
  <2> QED BY <2>5, <2>9, <2>10, <2>11 DEF StartInv
<1>5. CASE Lose(w) \/ Timeout(w)
  <2>1. HungUp(w) BY <1>5, HangsUp DEF Lose, Timeout
  <2>2. UNCHANGED <<server, objs, at>> /\ pc[w] \in {"try", "wait"} /\ pc' \in {[pc EXCEPT ![w] = "try"], [pc EXCEPT ![w] = "failed"]}
    BY <1>5 DEF Lose, Timeout, serverVars
  <2>3. HandlerInv'
    <3> SUFFICES ASSUME NEW v \in Workers, NEW b \in Attempts, NEW k \in Barriers,
                        handler'[v][b].at # "none", handler'[v][b].k = k
                 PROVE  CallInv(v, b, k)'
      BY DEF HandlerInv
    <3>1. handler'[v][b].at = handler[v][b].at /\ handler'[v][b].k = handler[v][b].k /\ handler'[v][b].g = handler[v][b].g
      BY <2>1 DEF HungUp
    <3>2. handler[v][b].at # "none" /\ handler[v][b].k = k BY <3>1
    <3>3. CASE v = w
      <4>1. ~handler'[v][b].open BY <2>1, <3>3 DEF HungUp
      <4> QED BY <2>2, <3>1, <3>2, <4>1, CallKept DEF CallInv
    <3>4. CASE v # w
      <4>1. \A c \in Attempts : handler'[v][c] = handler[v][c] BY <2>1, <3>4 DEF HungUp
      <4>2. pc'[v] = pc[v] BY <1>0, <2>2, <3>4
      <4> QED BY <4>1, <4>2, <3>2, <2>2, CallKept DEF CallInv
    <3> QED BY <3>3, <3>4
  <2>4. OpenInv'
    <3> SUFFICES ASSUME NEW v \in Workers, NEW b \in Attempts, handler'[v][b].open
                 PROVE  handler'[v][b].at # "none"
      BY DEF OpenInv
    <3>1. v # w BY <2>1 DEF HungUp
    <3> QED BY <2>1, <3>1 DEF HungUp, IInv, Inv, OpenInv
  <2>5. StartInv' BY <2>1, <2>2 DEF HungUp, IInv, Inv, StartInv
  <2>6. ClientInv' BY <1>0, <2>2 DEF IInv, Inv, ClientInv
  <2> QED BY <2>3, <2>4, <2>5, <2>6
<1> QED BY <1>2, <1>3, <1>4, <1>5 DEF ClientStep

\* A worker none of whose calls change, when no barrierState changes.
LEMMA SameTable ==
  ASSUME NEW v \in Workers, UNCHANGED objs, NEW k \in Barriers,
         \A b \in Attempts : handler'[v][b].at = handler[v][b].at /\ handler'[v][b].k = handler[v][b].k
  PROVE  Registered(v, k)' = Registered(v, k) /\ Registering(v, k)' = Registering(v, k)
BY DEF Registered, Registering

LEMMA ClientKeepsGhosts ==
  ASSUME IInv, NEW w \in Workers, ClientStep(w) \/ Refused(w) \/ Lose(w) \/ Timeout(w)
  PROVE  GhostInv'
<1> TypeOK BY DEF IInv
<1>0. at \in [Workers -> 1..(NBarriers + 1)] /\ pc \in [Workers -> ClientPhases]
  BY DEF TypeOK
<1>1. CASE Arrive(w)
  <2>1. UNCHANGED <<server, objs, handler, at, losses>> /\ pc' = [pc EXCEPT ![w] = "try"] /\ pc[w] = "work"
    BY <1>1 DEF Arrive, serverVars
  <2>2. ASSUME NEW v \in Workers, Ghost(v)' PROVE Ghost(v)
    <3>1. CASE v # w
      <4>1. \A k \in Barriers : Registered(v, k)' \subseteq Registered(v, k) /\ Registering(v, k)' \subseteq Registering(v, k)
        BY <2>1, SameTable
      <4>2. pc'[v] = pc[v] BY <1>0, <2>1, <3>1
      <4> QED BY <4>1, <4>2, <2>1, <2>2, NoNewGhost
    <3>2. CASE v = w
      <4>1. PICK k \in Barriers :
              Twice(w, k)' \/ (server' = "up" /\ pc'[w] = "try" /\ at'[w] = k /\ Once(w, k)')
        BY <2>2, <3>2 DEF Ghost, Once, Twice, Registered, Registering
      <4>2. Registered(w, k)' = Registered(w, k) /\ Registering(w, k)' = Registering(w, k) BY <2>1, SameTable
      <4>3. ~(at'[w] = k /\ Once(w, k)') BY <2>1, <4>2, NotYet DEF Once
      <4>4. Twice(w, k) BY <4>1, <4>2, <4>3 DEF Twice
      <4> QED BY <4>4, <3>2 DEF Ghost
    <3> QED BY <3>1, <3>2
  <2>3. Ghosts' \subseteq Ghosts BY <2>2 DEF Ghosts
  <2> QED BY <2>1, <2>3, GhostBound
<1>2. CASE Refused(w)
  <2>1. UNCHANGED <<server, objs, handler, at, pc, losses>> BY <1>2 DEF Refused, serverVars
  <2>2. ASSUME NEW v \in Workers, Ghost(v)' PROVE Ghost(v)
    <3>1. \A k \in Barriers : Registered(v, k)' \subseteq Registered(v, k) /\ Registering(v, k)' \subseteq Registering(v, k)
      BY <2>1, SameTable
    <3> QED BY <3>1, <2>1, <2>2, NoNewGhost
  <2>3. Ghosts' \subseteq Ghosts BY <2>2 DEF Ghosts
  <2> QED BY <2>1, <2>3, GhostBound
<1>3. CASE Post(w)
  <2> DEFINE a == att[w] + 1
             h == [at |-> "get", k |-> at[w], g |-> 0, open |-> TRUE]
  <2>1. a \in Attempts /\ at[w] \in Barriers
    <3>1. at[w] <= NBarriers BY <1>3 DEF Post, IInv, Inv, ClientInv
    <3>2. att[w] \in Nat /\ att[w] < NBarriers + Retries BY <1>3, NumberFacts DEF Post, TypeOK
    <3> QED BY <1>0, <3>1, <3>2, NumberFacts DEF Attempts, Barriers
  <2>2. h \in Handler BY <2>1 DEF Handler, HandlerPhases
  <2>3. SetHandler(w, a, h) BY <1>3, <2>1, <2>2, SetOne DEF Post
  <2>4. UNCHANGED <<server, objs, at, losses>> /\ pc' = [pc EXCEPT ![w] = "wait"] /\ pc[w] = "try" /\ server = "up"
    BY <1>3 DEF Post, serverVars
  <2>5. handler'[w][a].k = at[w] BY <2>3 DEF SetHandler
  <2>6. \A v \in Workers, b \in Attempts : v # w \/ b # a => handler'[v][b] = handler[v][b] BY <2>3 DEF SetHandler
  <2> HIDE DEF a, h
  <2>7. ASSUME NEW v \in Workers, Ghost(v)' PROVE Ghost(v)
    <3>1. CASE v # w
      <4>1. \A k \in Barriers : Registered(v, k)' \subseteq Registered(v, k) /\ Registering(v, k)' \subseteq Registering(v, k)
        BY <2>4, <2>6, <3>1, SameTable
      <4>2. pc'[v] = pc[v] BY <1>0, <2>4, <3>1
      <4> QED BY <4>1, <4>2, <2>4, <2>7, NoNewGhost
    <3>2. CASE v = w
      <4>1. PICK k \in Barriers :
              Twice(w, k)' \/ (server' = "up" /\ pc'[w] = "try" /\ at'[w] = k /\ Once(w, k)')
        BY <2>7, <3>2 DEF Ghost, Once, Twice, Registered, Registering
      <4>2. Twice(w, k)' BY <1>0, <2>4, <4>1
      <4>3. Registered(w, k)' = Registered(w, k) BY <2>4 DEF Registered
      <4>4. CASE k = at[w]
        <5>1. Registering(w, k)' \subseteq Registering(w, k) \cup {a} BY <2>6 DEF Registering
        <5>2. Once(w, k) BY <4>2, <4>3, <5>1 DEF Once, Twice
        <5> QED BY <2>4, <3>2, <4>4, <5>2 DEF Ghost
      <4>5. CASE k # at[w]
        <5>1. Registering(w, k)' \subseteq Registering(w, k) BY <2>5, <2>6, <4>5 DEF Registering
        <5>2. Twice(w, k) BY <4>2, <4>3, <5>1 DEF Twice
        <5> QED BY <3>2, <5>2 DEF Ghost
      <4> QED BY <4>4, <4>5
    <3> QED BY <3>1, <3>2
  <2>8. Ghosts' \subseteq Ghosts BY <2>7 DEF Ghosts
  <2> QED BY <2>4, <2>8, GhostBound
<1>4. CASE Lose(w) \/ Timeout(w)
  <2>1. HungUp(w) BY <1>4, HangsUp DEF Lose, Timeout
  <2>2. UNCHANGED <<server, objs, at>> /\ pc' \in {[pc EXCEPT ![w] = "try"], [pc EXCEPT ![w] = "failed"]}
    BY <1>4 DEF Lose, Timeout, serverVars
  <2>3. ASSUME NEW v \in Workers, Ghost(v)', v # w \/ pc'[w] = "failed" PROVE Ghost(v)
    <3>1. \A k \in Barriers : Registered(v, k)' \subseteq Registered(v, k) /\ Registering(v, k)' \subseteq Registering(v, k)
      BY <2>1, <2>2, SameTable DEF HungUp
    <3>2. pc'[v] = "try" => pc[v] = "try" BY <1>0, <2>2, <2>3
    <3> QED BY <3>1, <3>2, <2>2, <2>3, NoNewGhost
  <2>4. CASE Lose(w)
    <3>1. Ghosts' \subseteq Ghosts \cup {w} BY <2>3 DEF Ghosts
    <3> QED BY <2>4, <3>1, GhostLoss DEF Lose
  <2>5. CASE Timeout(w)
    <3>1. pc'[w] = "failed" BY <1>0, <2>5 DEF Timeout
    <3>2. Ghosts' \subseteq Ghosts BY <2>3, <3>1 DEF Ghosts
    <3> QED BY <2>5, <3>2, GhostBound DEF Timeout
  <2> QED BY <1>4, <2>4, <2>5
<1> QED BY <1>1, <1>2, <1>3, <1>4 DEF ClientStep

LEMMA ServerKeeps ==
  ASSUME IInv, [Next]_vars, Listen \/ ServerGone \/ UNCHANGED vars
  PROVE  Inv'
<1> TypeOK BY DEF IInv
<1>1. CASE Listen
  <2>1. UNCHANGED <<objs, handler, at, pc, start, losses>> /\ server = "starting" /\ server' = "up"
    BY <1>1 DEF Listen, clientVars
  <2>2. StartInv' /\ ClientInv' /\ OpenInv' BY <2>1 DEF IInv, Inv, StartInv, ClientInv, OpenInv
  <2>3. HandlerInv' BY <2>1, CallKept DEF HandlerInv, CallInv
  <2>4. ReadyInv' BY <2>1, ReadyKept
  <2>5. ASSUME NEW v \in Workers, NEW k \in Barriers PROVE Registered(v, k)' = {} /\ Registering(v, k)' = {}
    <3>1. objs[k] = <<>> /\ \A b \in Attempts : handler[v][b].at = "none" BY <2>1 DEF IInv, Inv, StartInv
    <3>2. 1..Len(<<>>) = {} OBVIOUS
    <3> QED BY <2>1, <3>1, <3>2 DEF Registered, Registering
  <2>6. ASSUME NEW v \in Workers PROVE ~Ghost(v)' BY <2>5 DEF Ghost, Once, Twice
  <2>7. Ghosts' \subseteq Ghosts BY <2>6 DEF Ghosts
  <2> QED BY <2>1, <2>2, <2>3, <2>4, <2>7, GhostBound DEF Inv
<1>2. CASE ServerGone
  <2>1. /\ UNCHANGED <<objs, at, start, losses>> /\ server' = "down"
        /\ handler' = [w \in Workers |-> [a \in Attempts |-> NoHandler]]
        /\ pc' = [w \in Workers |-> IF pc[w] = "wait" THEN "try" ELSE pc[w]]
    BY <1>2 DEF ServerGone
  <2>2. \A w \in Workers, a \in Attempts : handler'[w][a].at = "none" /\ handler'[w][a].open = FALSE
    BY <2>1 DEF NoHandler
  <2>3. StartInv' /\ OpenInv' /\ HandlerInv' BY <2>1, <2>2 DEF StartInv, OpenInv, HandlerInv
  <2>4. ClientInv' BY <2>1 DEF IInv, Inv, ClientInv, TypeOK
  <2>5. ReadyInv' BY <2>1, ReadyKept
  <2>6. ASSUME NEW v \in Workers, Ghost(v)' PROVE Ghost(v)
    <3>1. \A k \in Barriers : Registered(v, k)' \subseteq Registered(v, k) /\ Registering(v, k)' \subseteq Registering(v, k)
      BY <2>1, <2>2 DEF Registered, Registering
    <3> QED BY <3>1, <2>1, <2>6, NoNewGhost
  <2>7. Ghosts' \subseteq Ghosts BY <2>6 DEF Ghosts
  <2> QED BY <2>1, <2>3, <2>4, <2>5, <2>7, GhostBound DEF Inv
<1>3. CASE UNCHANGED vars
  BY <1>3 DEF vars, serverVars, clientVars, IInv, Inv, StartInv, ClientInv, HandlerInv, CallInv, Reached, OpenInv,
              ReadyInv, GhostInv, Ghosts, Ghost, Once, Twice, Registered, Registering
<1> QED BY <1>1, <1>2, <1>3

-----------------------------------------------------------------------------
(* The server's steps keep the invariant.                                  *)

\* A call goes on, and the worker does not notice.
LEMMA MoveKeeps ==
  ASSUME IInv, [Next]_vars, NEW w \in Workers, NEW a \in Attempts, handler[w][a].at # "none",
         NEW x \in {"lock", "delete", "select"}, NEW g, Moved(w, a, x, g),
         UNCHANGED <<server, at, pc>>,
         \A j \in Barriers : Len(objs'[j]) \in Nat /\ Len(objs'[j]) >= Len(objs[j]),
         NEW n \in Barriers, handler[w][a].k = n, g \in 1..Len(objs'[n])
  PROVE  StartInv' /\ ClientInv' /\ HandlerInv' /\ OpenInv'
<1> TypeOK BY DEF IInv
<1>1. HandlerInv'
  <2> SUFFICES ASSUME NEW v \in Workers, NEW b \in Attempts, NEW k \in Barriers,
                      handler'[v][b].at # "none", handler'[v][b].k = k
               PROVE  CallInv(v, b, k)'
    BY DEF HandlerInv
  <2>1. \A u \in Workers, c \in Attempts : handler'[u][c].open = handler[u][c].open /\ handler'[u][c].k = handler[u][c].k
    BY DEF Moved
  <2>2. handler[v][b].at # "none" BY DEF Moved
  <2>3. handler[v][b].k = k BY <2>1
  <2>4. /\ Reached(v, k)'
        /\ handler[v][b].at # "get" => handler[v][b].g \in 1..Len(objs[k])
        /\ handler[v][b].open => /\ pc[v] = "wait" /\ at[v] = k
                                 /\ \A c \in Attempts : handler[v][c].open => c = b
    BY <2>2, <2>3, CallKept
  <2>5. handler'[v][b].at # "get" => handler'[v][b].g \in 1..Len(objs'[k])
    <3>1. CASE v = w /\ b = a BY <2>3, <3>1 DEF Moved
    <3>2. CASE v # w \/ b # a
      <4>1. handler'[v][b] = handler[v][b] BY <3>2 DEF Moved
      <4>2. Len(objs[k]) \in Nat BY DEF TypeOK
      <4> QED BY <4>1, <4>2, <2>4
    <3> QED BY <3>1, <3>2
  <2> QED BY <2>1, <2>4, <2>5 DEF CallInv
<1>2. OpenInv'
  <2> SUFFICES ASSUME NEW v \in Workers, NEW b \in Attempts, handler'[v][b].open
               PROVE  handler'[v][b].at # "none"
    BY DEF OpenInv
  <2>1. CASE v = w /\ b = a BY <2>1 DEF Moved
  <2>2. CASE v # w \/ b # a BY <2>2 DEF Moved, IInv, Inv, OpenInv
  <2> QED BY <2>1, <2>2
<1>3. StartInv' BY CallFacts DEF StartInv
<1>4. ClientInv' BY DEF IInv, Inv, ClientInv
<1> QED BY <1>1, <1>2, <1>3, <1>4

\* A call returns; its worker goes on only if it listens.
LEMMA ReturnKeeps ==
  ASSUME IInv, [Next]_vars, NEW w \in Workers, NEW a \in Attempts, handler[w][a].at # "none",
         SetHandler(w, a, NoHandler), UNCHANGED <<server, objs>>,
         \A v \in Workers : v # w \/ ~handler[w][a].open => pc'[v] = pc[v] /\ at'[v] = at[v]
  PROVE  StartInv' /\ HandlerInv' /\ OpenInv'
<1> TypeOK BY DEF IInv
<1>1. handler'[w][a].at = "none" /\ handler'[w][a].open = FALSE BY DEF SetHandler, NoHandler
<1>2. HandlerInv'
  <2> SUFFICES ASSUME NEW v \in Workers, NEW b \in Attempts, NEW k \in Barriers,
                      handler'[v][b].at # "none", handler'[v][b].k = k
               PROVE  CallInv(v, b, k)'
    BY DEF HandlerInv
  <2>1. v # w \/ b # a BY <1>1
  <2>2. handler'[v][b] = handler[v][b] BY <2>1 DEF SetHandler
  <2>3. /\ Reached(v, k)'
        /\ handler[v][b].at # "get" => handler[v][b].g \in 1..Len(objs[k])
        /\ handler[v][b].open => /\ pc[v] = "wait" /\ at[v] = k
                                 /\ \A c \in Attempts : handler[v][c].open => c = b
    BY <2>2, CallKept
  <2>4. handler[v][b].open => v # w \/ ~handler[w][a].open BY <2>1, <2>3
  <2>5. \A c \in Attempts : handler'[v][c].open => handler[v][c].open BY <1>1 DEF SetHandler
  <2> QED BY <2>2, <2>3, <2>4, <2>5 DEF CallInv
<1>3. OpenInv' BY <1>1 DEF SetHandler, IInv, Inv, OpenInv
<1>4. StartInv' BY CallFacts DEF StartInv
<1> QED BY <1>2, <1>3, <1>4

\* A call that leaves the phases before the registration makes no ghost.
LEMMA LeavingKeepsGhosts ==
  ASSUME IInv, UNCHANGED <<server, objs, losses>>,
         \A v \in Workers, b \in Attempts :
           handler'[v][b].at \in {"get", "lock"} => handler'[v][b] = handler[v][b],
         \A v \in Workers : pc'[v] = "try" => pc[v] = "try" /\ at'[v] = at[v]
  PROVE  GhostInv'
<1>1. ASSUME NEW v \in Workers, Ghost(v)' PROVE Ghost(v)
  <2>1. \A k \in Barriers : Registered(v, k)' \subseteq Registered(v, k) /\ Registering(v, k)' \subseteq Registering(v, k)
    BY DEF Registered, Registering
  <2> QED BY <1>1, <2>1, NoNewGhost
<1>2. Ghosts' \subseteq Ghosts BY <1>1 DEF Ghosts
<1> QED BY <1>2, GhostBound

LEMMA ReturnsKeep ==
  ASSUME IInv, [Next]_vars, NEW w \in Workers, NEW a \in Attempts,
         Conflict(w, a) \/ Reply(w, a) \/ RequestGone(w, a)
  PROVE  Inv'
<1> TypeOK BY DEF IInv
<1>0. /\ at \in [Workers -> 1..(NBarriers + 1)] /\ pc \in [Workers -> ClientPhases]
      /\ start \in [Workers -> [Barriers -> Nat]] /\ NBarriers \in Nat
  BY NumberFacts DEF TypeOK
<1>1. handler[w][a].at # "none" /\ UNCHANGED <<server, objs, losses>> /\ Returned(w, a)
  BY DEF Conflict, Reply, RequestGone, serverVars
<1>2. SetHandler(w, a, NoHandler) BY <1>1, NumberFacts, SetOne DEF Returned
<1> DEFINE k == handler[w][a].k
           g == handler[w][a].g
<1>3. k \in Barriers /\ g \in Nat /\ objs[k] \in Seq(SUBSET Workers) BY <1>1, CallFacts
<1>4. handler[w][a].open => pc[w] = "wait" /\ k = at[w] BY <1>1, CallFacts
<1>5. \A v \in Workers : v # w \/ ~handler[w][a].open => pc'[v] = pc[v] /\ at'[v] = at[v]
  BY <1>0 DEF Conflict, Reply, RequestGone, clientVars
<1>6. handler[w][a].open => \/ pc'[w] = "failed" /\ at'[w] = at[w]
                            \/ pc'[w] = "done"
                            \/ pc'[w] = "work" /\ at'[w] = k + 1 /\ k # NBarriers
  BY <1>0 DEF Conflict, Reply, RequestGone
<1>7. StartInv' /\ HandlerInv' /\ OpenInv' BY <1>1, <1>2, <1>5, ReturnKeeps
<1>8. ClientInv'
  <2> SUFFICES ASSUME NEW v \in Workers, pc'[v] \in {"work", "try", "wait"} PROVE at'[v] <= NBarriers
    BY DEF ClientInv
  <2>1. CASE v # w \/ ~handler[w][a].open BY <1>5, <2>1 DEF IInv, Inv, ClientInv
  <2>2. CASE v = w /\ handler[w][a].open BY <1>0, <1>3, <1>6, <2>2 DEF Barriers
  <2> QED BY <2>1, <2>2
<1>9. GhostInv'
  <2>1. \A v \in Workers, b \in Attempts : handler'[v][b].at \in {"get", "lock"} => handler'[v][b] = handler[v][b]
    BY <1>2 DEF SetHandler, NoHandler
  <2>2. \A v \in Workers : pc'[v] = "try" => pc[v] = "try" /\ at'[v] = at[v] BY <1>5, <1>6
  <2> QED BY <1>1, <2>1, <2>2, LeavingKeepsGhosts
<1>10. ReadyInv'
  <2>1. CASE UNCHANGED start BY <1>1, <2>1, ReadyKept
  <2>2. CASE Reply(w, a) /\ handler[w][a].open
    <3>1. start' = [start EXCEPT ![w][k] = g] /\ AllReady(objs[k][g]) /\ handler[w][a].at = "select" BY <2>2 DEF Reply
    <3>2. g \in 1..Len(objs[k]) BY <1>1, <3>1, CallFacts
    <3>3. objs[k][g] = Workers
      <4>1. objs[k][g] \in SUBSET Workers BY <1>3, <3>2
      <4> HIDE DEF k, g
      <4> QED BY <4>1, <3>1, BarrierAssumption, FS_Subset DEF AllReady
    <3>4. ASSUME NEW j \in Barriers, NEW f \in 1..Len(objs[j]), NEW v \in objs[j][f] PROVE Reached(v, j)'
      <4>1. objs[j] \in Seq(SUBSET Workers) BY DEF TypeOK
      <4>2. v \in Workers /\ Reached(v, j) BY <4>1 DEF IInv, Inv, ReadyInv
      <4> QED BY <4>2, ReachedStays
    <3>5. ASSUME NEW v \in Workers, NEW j \in Barriers, start'[v][j] # 0
          PROVE  start'[v][j] \in 1..Len(objs[j]) /\ objs[j][start'[v][j]] = Workers
      <4>1. CASE v = w /\ j = k
        <5>1. start'[v][j] = g
          <6> HIDE DEF k, g
          <6> QED BY <1>0, <1>3, <3>1, <4>1
        <5> QED BY <5>1, <4>1, <3>2, <3>3
      <4>2. CASE v # w \/ j # k
        <5>1. start'[v][j] = start[v][j]
          <6> HIDE DEF k, g
          <6> QED BY <1>0, <1>3, <3>1, <4>2
        <5> QED BY <5>1, <3>5 DEF IInv, Inv, ReadyInv
      <4> QED BY <4>1, <4>2
    <3> QED BY <1>1, <3>4, <3>5 DEF ReadyInv
  <2> QED BY <2>1, <2>2 DEF Conflict, Reply, RequestGone, clientVars
<1> QED BY <1>7, <1>8, <1>9, <1>10 DEF Inv

\* barrierStates may be added empty, and workers may register that have reached
\* the barrier.
LEMMA ReadyGrows ==
  ASSUME IInv, [Next]_vars, UNCHANGED start,
         \A j \in Barriers :
           /\ Len(objs'[j]) \in Nat /\ Len(objs'[j]) >= Len(objs[j])
           /\ \A f \in 1..Len(objs[j]) : objs[j][f] \subseteq objs'[j][f]
           /\ \A f \in 1..Len(objs'[j]) : objs'[j][f] \subseteq Workers
           /\ \A f \in 1..Len(objs'[j]) : \A v \in objs'[j][f] :
                Reached(v, j) \/ (f \in 1..Len(objs[j]) /\ v \in objs[j][f])
  PROVE  ReadyInv'
<1> TypeOK BY DEF IInv
<1>1. ASSUME NEW j \in Barriers, NEW f \in 1..Len(objs'[j]), NEW v \in objs'[j][f] PROVE Reached(v, j)'
  <2>1. v \in Workers OBVIOUS
  <2>2. Reached(v, j) BY DEF IInv, Inv, ReadyInv
  <2> QED BY <2>1, <2>2, ReachedStays
<1>2. ASSUME NEW v \in Workers, NEW j \in Barriers, start[v][j] # 0
      PROVE  start[v][j] \in 1..Len(objs'[j]) /\ objs'[j][start[v][j]] = Workers
  <2>1. start[v][j] \in 1..Len(objs[j]) /\ objs[j][start[v][j]] = Workers BY <1>2 DEF IInv, Inv, ReadyInv
  <2>2. Len(objs[j]) \in Nat BY DEF TypeOK
  <2>3. start[v][j] \in 1..Len(objs'[j]) BY <2>1, <2>2
  <2> QED BY <2>1, <2>3
<1> QED BY <1>1, <1>2 DEF ReadyInv

LEMMA GetBarrierKeeps ==
  ASSUME IInv, [Next]_vars, NEW w \in Workers, NEW a \in Attempts, GetBarrier(w, a)
  PROVE  Inv'
<1> TypeOK BY DEF IInv
<1>1. handler[w][a].at = "get" /\ UNCHANGED <<server, at, pc, start, losses>> BY DEF GetBarrier, clientVars
<1> DEFINE k == handler[w][a].k
           n == IF current[k] = 0 THEN Len(objs[k]) + 1 ELSE current[k]
<1>2. k \in Barriers /\ objs[k] \in Seq(SUBSET Workers) BY <1>1, CallFacts
<1>3. current[k] \in 0..Len(objs[k]) BY <1>2 DEF TypeOK
<1>4. n \in Nat BY <1>2, <1>3
<1>5. handler' = [handler EXCEPT ![w][a].at = "lock", ![w][a].g = n] BY DEF GetBarrier
<1>6. Moved(w, a, "lock", n)
  <2> HIDE DEF n
  <2> QED BY <1>4, <1>5, MovesOn DEF HandlerPhases
<1>7. \/ objs' = objs /\ n \in 1..Len(objs[k])
      \/ objs' = [objs EXCEPT ![k] = Append(objs[k], {})] /\ n = Len(objs[k]) + 1
  <2>1. CASE current[k] = 0
    <3>1. objs' = [objs EXCEPT ![k] = Append(objs[k], {})] BY <2>1 DEF GetBarrier
    <3> QED BY <2>1, <3>1
  <2>2. CASE current[k] # 0
    <3>1. objs' = objs BY <2>2 DEF GetBarrier
    <3>2. n \in 1..Len(objs[k]) BY <1>2, <1>3, <2>2
    <3> QED BY <3>1, <3>2
  <2> QED BY <2>1, <2>2
<1>8. /\ \A j \in Barriers :
           /\ Len(objs'[j]) \in Nat /\ Len(objs'[j]) >= Len(objs[j])
           /\ \A f \in 1..Len(objs[j]) : objs'[j][f] = objs[j][f]
           /\ \A f \in 1..Len(objs'[j]) : f \in 1..Len(objs[j]) \/ objs'[j][f] = {}
      /\ n \in 1..Len(objs'[k])
  <2>1. \A j \in Barriers : objs[j] \in Seq(SUBSET Workers) /\ Len(objs[j]) \in Nat BY DEF TypeOK
  <2>2. CASE objs' = objs /\ n \in 1..Len(objs[k]) BY <2>1, <2>2
  <2>3. CASE objs' = [objs EXCEPT ![k] = Append(objs[k], {})] /\ n = Len(objs[k]) + 1
    <3>1. objs'[k] = Append(objs[k], {}) /\ \A j \in Barriers : j # k => objs'[j] = objs[j]
      <4> HIDE DEF k, n
      <4> QED BY <2>3, <1>2 DEF TypeOK
    <3> DEFINE t == Append(objs[k], {})
    <3>2. Len(t) = Len(objs[k]) + 1 /\ t[Len(objs[k]) + 1] = {} /\ \A f \in 1..Len(objs[k]) : t[f] = objs[k][f]
      BY <1>2, SMTT(30)
    <3> HIDE DEF k, n, t
    <3> QED BY <2>1, <1>2, <2>3, <3>1, <3>2 DEF t
  <2> QED BY <1>7, <2>2, <2>3
<1>9. StartInv' /\ ClientInv' /\ HandlerInv' /\ OpenInv'
  <2> HIDE DEF n, k
  <2>1. handler[w][a].k = k BY DEF k
  <2>2. handler[w][a].at # "none" BY <1>1
  <2> QED BY <1>1, <1>2, <1>6, <1>8, <2>1, <2>2, MoveKeeps
<1>10. ReadyInv'
  <2>1. \A j \in Barriers : \A f \in 1..Len(objs[j]) : objs[j][f] \subseteq Workers BY DEF TypeOK
  <2> HIDE DEF n, k
  <2> QED BY <1>1, <1>8, <2>1, ReadyGrows
<1>11. GhostInv'
  <2>1. ASSUME NEW v \in Workers, Ghost(v)' PROVE Ghost(v)
    <3>1. \A j \in Barriers : Registered(v, j)' \subseteq Registered(v, j)
      <4> HIDE DEF n, k
      <4> QED BY <1>8 DEF Registered
    <3>2. \A b \in Attempts : handler'[v][b].at \in {"get", "lock"} =>
            handler[v][b].at \in {"get", "lock"} /\ handler'[v][b].k = handler[v][b].k
      <4> HIDE DEF n, k
      <4> QED BY <1>1, <1>6 DEF Moved
    <3>3. \A j \in Barriers : Registering(v, j)' \subseteq Registering(v, j) BY <3>2 DEF Registering
    <3> QED BY <1>1, <2>1, <3>1, <3>3, NoNewGhost
  <2>2. Ghosts' \subseteq Ghosts BY <2>1 DEF Ghosts
  <2> QED BY <1>1, <2>2, GhostBound
<1> QED BY <1>9, <1>10, <1>11 DEF Inv

LEMMA RegisterKeeps ==
  ASSUME IInv, [Next]_vars, NEW w \in Workers, NEW a \in Attempts, Register(w, a)
  PROVE  Inv'
<1> TypeOK BY DEF IInv
<1>1. handler[w][a].at = "lock" /\ UNCHANGED <<server, at, pc, start, losses>> BY DEF Register, clientVars
<1> DEFINE k == handler[w][a].k
           g == handler[w][a].g
<1>2. k \in Barriers /\ objs[k] \in Seq(SUBSET Workers) /\ g \in 1..Len(objs[k]) /\ g \in Nat /\ Reached(w, k)
  BY <1>1, CallFacts
<1>3. PICK x \in {"delete", "select"} : handler' = [handler EXCEPT ![w][a].at = x] BY DEF Register
<1>4. Moved(w, a, x, g)
  BY <1>2, <1>3, MovesOn DEF HandlerPhases
<1>5. objs' = [objs EXCEPT ![k][g] = objs[k][g] \cup {w}] /\ w \notin objs[k][g] BY DEF Register
<1>6. /\ \A j \in Barriers : /\ Len(objs'[j]) = Len(objs[j])
                              /\ \A f \in 1..Len(objs[j]) : j # k \/ f # g => objs'[j][f] = objs[j][f]
      /\ objs'[k][g] = objs[k][g] \cup {w}
  <2>1. \A j \in Barriers : objs[j] \in Seq(SUBSET Workers) BY DEF TypeOK
  <2>2. objs \in [Barriers -> Seq(SUBSET Workers)] BY DEF TypeOK
  <2> HIDE DEF k, g
  <2> QED BY <2>1, <2>2, <1>2, <1>5
<1>7. \A j \in Barriers : /\ Len(objs[j]) \in Nat
                          /\ \A f \in 1..Len(objs[j]) : objs[j][f] \subseteq Workers
  BY DEF TypeOK
<1>8. StartInv' /\ ClientInv' /\ HandlerInv' /\ OpenInv'
  <2>1. handler[w][a].k = k /\ handler[w][a].at # "none" BY <1>1
  <2>2. \A j \in Barriers : Len(objs'[j]) \in Nat /\ Len(objs'[j]) >= Len(objs[j]) BY <1>6, <1>7
  <2>3. g \in 1..Len(objs'[k]) BY <1>2, <1>6
  <2> HIDE DEF g, k
  <2> QED BY <1>1, <1>2, <1>4, <2>1, <2>2, <2>3, MoveKeeps
<1>9. ReadyInv'
  <2> HIDE DEF g, k
  <2>1. ASSUME NEW j \in Barriers
        PROVE  /\ Len(objs'[j]) \in Nat /\ Len(objs'[j]) >= Len(objs[j])
               /\ \A f \in 1..Len(objs[j]) : objs[j][f] \subseteq objs'[j][f]
               /\ \A f \in 1..Len(objs'[j]) : objs'[j][f] \subseteq Workers
               /\ \A f \in 1..Len(objs'[j]) : \A v \in objs'[j][f] :
                    Reached(v, j) \/ (f \in 1..Len(objs[j]) /\ v \in objs[j][f])
    <3>1. ASSUME NEW f \in 1..Len(objs[j])
          PROVE  /\ objs[j][f] \subseteq objs'[j][f] /\ objs'[j][f] \subseteq Workers
                 /\ \A v \in objs'[j][f] : Reached(v, j) \/ v \in objs[j][f]
      <4>1. CASE j = k /\ f = g BY <1>2, <1>6, <1>7, <4>1
      <4>2. CASE j # k \/ f # g BY <1>6, <1>7, <4>2
      <4> QED BY <4>1, <4>2
    <3> QED BY <1>6, <1>7, <3>1
  <2> QED BY <1>1, <2>1, ReadyGrows
<1>10. GhostInv'
  <2>1. ASSUME NEW v \in Workers, Ghost(v)' PROVE Ghost(v)
    <3>1. \A b \in Attempts : v # w \/ b # a => handler'[v][b] = handler[v][b] BY <1>4 DEF Moved
    <3>2. CASE v # w
      <4>1. \A j \in Barriers : Registered(v, j)' \subseteq Registered(v, j)
        <5> HIDE DEF g, k
        <5> QED BY <1>6, <3>2 DEF Registered
      <4>2. \A j \in Barriers : Registering(v, j)' \subseteq Registering(v, j) BY <3>1, <3>2 DEF Registering
      <4> QED BY <1>1, <2>1, <4>1, <4>2, NoNewGhost
    <3>3. CASE v = w
      <4>1. PICK j \in Barriers :
              Twice(w, j)' \/ (server' = "up" /\ pc'[w] = "try" /\ at'[w] = j /\ Once(w, j)')
        BY <2>1, <3>3 DEF Ghost, Once, Twice, Registered, Registering
      <4>2. Registering(w, j)' \subseteq Registering(w, j) /\ a \notin Registering(w, j)'
        BY <3>1, <3>3, <1>4 DEF Registering, Moved
      <4>3. j = k => a \in Registering(w, j) BY <1>1 DEF Registering
      <4>4. /\ j # k => Registered(w, j)' \subseteq Registered(w, j)
            /\ j = k => Registered(w, j)' \subseteq Registered(w, j) \cup {g}
        <5> HIDE DEF g, k
        <5> QED BY <1>6 DEF Registered
      <4>5. (Twice(w, j)' => Twice(w, j)) /\ (Once(w, j)' => Once(w, j))
        <5> HIDE DEF g, k
        <5>1. CASE j # k BY <5>1, <4>2, <4>4 DEF Once, Twice
        <5>2. CASE j = k
          <6>1. Once(w, j) BY <5>2, <4>3 DEF Once
          <6>2. ASSUME Twice(w, j)' PROVE Twice(w, j)
            <7>1. CASE \E e, f \in Registered(w, j)' : e # f
              <8>1. Registered(w, j) # {} BY <7>1, <4>4, <5>2
              <8> QED BY <8>1, <4>3, <5>2 DEF Twice
            <7>2. CASE Registering(w, j)' # {}
              <8>1. PICK b \in Registering(w, j) : b # a BY <7>2, <4>2
              <8> QED BY <8>1, <4>3, <5>2 DEF Twice
            <7> QED BY <6>2, <7>1, <7>2 DEF Twice
          <6> QED BY <6>1, <6>2
        <5> QED BY <5>1, <5>2
      <4> QED BY <4>1, <4>5, <1>1, <3>3 DEF Ghost
    <3> QED BY <3>2, <3>3
  <2>2. Ghosts' \subseteq Ghosts BY <2>1 DEF Ghosts
  <2> QED BY <1>1, <2>2, GhostBound
<1> QED BY <1>8, <1>9, <1>10 DEF Inv

LEMMA DeleteBarrierKeeps ==
  ASSUME IInv, [Next]_vars, NEW w \in Workers, NEW a \in Attempts, DeleteBarrier(w, a)
  PROVE  Inv'
<1> TypeOK BY DEF IInv
<1>1. handler[w][a].at = "delete" /\ UNCHANGED <<server, objs, at, pc, start, losses>> BY DEF DeleteBarrier, clientVars
<1> DEFINE k == handler[w][a].k
           g == handler[w][a].g
<1>2. k \in Barriers /\ g \in 1..Len(objs[k]) /\ g \in Nat BY <1>1, CallFacts
<1>3. Moved(w, a, "select", g) BY <1>2, MovesOn DEF DeleteBarrier, HandlerPhases
<1>4. StartInv' /\ ClientInv' /\ HandlerInv' /\ OpenInv'
  <2>1. handler[w][a].k = k /\ handler[w][a].at # "none" BY <1>1
  <2>2. \A j \in Barriers : Len(objs'[j]) \in Nat /\ Len(objs'[j]) >= Len(objs[j]) BY <1>1 DEF TypeOK
  <2>3. g \in 1..Len(objs'[k]) BY <1>1, <1>2
  <2> HIDE DEF g, k
  <2> QED BY <1>1, <1>2, <1>3, <2>1, <2>2, <2>3, MoveKeeps
<1>5. ReadyInv' BY <1>1, ReadyKept
<1>6. GhostInv'
  <2>1. \A v \in Workers, b \in Attempts : handler'[v][b].at \in {"get", "lock"} => handler'[v][b] = handler[v][b]
    BY <1>3 DEF Moved
  <2> QED BY <1>1, <2>1, LeavingKeepsGhosts
<1> QED BY <1>4, <1>5, <1>6 DEF Inv

-----------------------------------------------------------------------------
LEMMA InitInv == Init => IInv
<1> SUFFICES ASSUME Init PROVE IInv OBVIOUS
<1>0. NBarriers \in Nat /\ NBarriers >= 1 BY NumberFacts
<1>1. TypeOK BY TypeInit
<1>2. \A w \in Workers, a \in Attempts : handler[w][a].at = "none" /\ handler[w][a].open = FALSE
  BY DEF Init, NoHandler
<1>3. \A k \in Barriers : objs[k] = <<>> /\ 1..Len(objs[k]) = {} BY DEF Init
<1>4. StartInv /\ HandlerInv /\ OpenInv BY <1>2, <1>3 DEF StartInv, HandlerInv, OpenInv
<1>5. ClientInv BY <1>0 DEF Init, ClientInv
<1>6. ReadyInv BY <1>3 DEF Init, ReadyInv
<1>7. GhostInv
  <2>1. \A w \in Workers, k \in Barriers : Registered(w, k) = {} /\ Registering(w, k) = {}
    BY <1>2, <1>3 DEF Registered, Registering
  <2>2. Ghosts = {} BY <2>1 DEF Ghosts, Ghost, Once, Twice
  <2> QED BY <2>2, FS_EmptySet DEF GhostInv, Init
<1> QED BY <1>1, <1>4, <1>5, <1>6, <1>7 DEF IInv, Inv

LEMMA StepInv == IInv /\ [Next]_vars => IInv'
<1> SUFFICES ASSUME IInv, [Next]_vars PROVE IInv' OBVIOUS
<1>1. TypeOK /\ ClientInv BY DEF IInv, Inv
<1>2. CASE Listen \/ ServerGone \/ Ended \/ UNCHANGED vars
  <2>1. Listen \/ ServerGone \/ UNCHANGED vars BY <1>2 DEF Ended
  <2> QED BY <2>1, <1>1, TypeServer, ServerKeeps DEF IInv
<1>3. ASSUME NEW w \in Workers, ClientStep(w) \/ Refused(w) \/ Lose(w) \/ Timeout(w) PROVE IInv'
  <2>1. TypeOK' BY <1>1, <1>3, TypeClient
  <2>2. StartInv' /\ ClientInv' /\ HandlerInv' /\ OpenInv' BY <1>3, ClientKeepsHandlers
  <2>3. UNCHANGED <<objs, start>> BY <1>3 DEF ClientStep, Arrive, Post, Refused, Lose, Timeout, serverVars
  <2>4. ReadyInv' BY <2>3, ReadyKept
  <2>5. GhostInv' BY <1>3, ClientKeepsGhosts
  <2> QED BY <2>1, <2>2, <2>4, <2>5 DEF IInv, Inv
<1>4. ASSUME NEW w \in Workers, NEW a \in Attempts, HandlerStep(w, a) PROVE IInv'
  <2>1. TypeOK' BY <1>4, TypeHandler
  <2>2. Inv' BY <1>4, GetBarrierKeeps, RegisterKeeps, DeleteBarrierKeeps, ReturnsKeep DEF HandlerStep
  <2> QED BY <2>1, <2>2 DEF IInv
<1> QED BY <1>2, <1>3, <1>4 DEF Next

LEMMA Invariance == Spec => []IInv
BY InitInv, StepInv, PTL DEF Spec

\* The tables and the counters of the server and of the clients keep their types
\* (server.go:14-37, client.go:16-24).
THEOREM TypeCorrect == Spec => []TypeOK
<1>1. IInv => TypeOK BY DEF IInv
<1> QED BY <1>1, Invariance, PTL

\* handleReady lets a worker past a barrier only when every worker has come to it
\* (server.go:113-125), for any number of workers, whatever is retried or lost.
THEOREM NobodyGoesAhead == Spec => []NobodyAhead
<1>1. IInv => NobodyAhead
  <2> SUFFICES ASSUME IInv, NEW k \in Barriers, NEW v \in Workers, NEW w \in Workers, start[w][k] # 0
               PROVE  at[v] > k \/ (at[v] = k /\ pc[v] # "work")
    BY DEF NobodyAhead
  <2>1. start[w][k] \in 1..Len(objs[k]) /\ v \in objs[k][start[w][k]] BY DEF IInv, Inv, ReadyInv
  <2> QED BY <2>1 DEF IInv, Inv, ReadyInv, Reached
<1> QED BY <1>1, Invariance, PTL

\* One start time per barrier as long as fewer connections were lost than there are
\* workers: a second full barrierState under the same id needs a second
\* registration of every worker, and the client registers again only after a loss
\* (server.go:83-94, 112-131; client.go:45-83).
THEOREM StartTimesAgree == Spec => []Agreement
<1>1. IInv => Agreement
  <2> SUFFICES ASSUME IInv, NEW k \in Barriers, NEW v \in Workers, NEW w \in Workers,
                      start[v][k] # 0, start[w][k] # 0, start[v][k] # start[w][k]
               PROVE  ~(losses < Cardinality(Workers))
    BY DEF Agreement
  <2> DEFINE g == start[v][k]
             h == start[w][k]
  <2>1. g \in 1..Len(objs[k]) /\ h \in 1..Len(objs[k]) /\ objs[k][g] = Workers /\ objs[k][h] = Workers /\ g # h
    BY DEF IInv, Inv, ReadyInv
  <2> HIDE DEF g, h
  <2>2. \A u \in Workers : g \in Registered(u, k) /\ h \in Registered(u, k) BY <2>1 DEF Registered
  <2>3. \A u \in Workers : Ghost(u) BY <2>1, <2>2 DEF Ghost, Twice
  <2>4. Ghosts = Workers BY <2>3 DEF Ghosts
  <2>5. Cardinality(Workers) <= losses /\ losses \in Int BY <2>4 DEF IInv, Inv, GhostInv, TypeOK
  <2>6. Cardinality(Workers) \in Nat BY BarrierAssumption, FS_CardinalityType
  <2> QED BY <2>5, <2>6
<1> QED BY <1>1, Invariance, PTL
=============================================================================
