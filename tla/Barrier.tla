------------------------------- MODULE Barrier -------------------------------
(***************************************************************************)
(* Start-time synchronisation of the workers of a distributed run          *)
(* (pkg/barrier). The leader's process runs an HTTP server; at its k-th    *)
(* barrier every worker posts its id (client.go, WaitForStart) and the     *)
(* server's handler (server.go, handleReady) blocks it until all workers   *)
(* have registered, then answers all with one start time. The client       *)
(* retries connection errors, gives up on any other answer and after its   *)
(* timeout; a worker whose barrier failed abandons the run (onBarrier in   *)
(* cmd/nyann-bench/common.go).                                             *)
(***************************************************************************)
EXTENDS Integers, Sequences, FiniteSets

CONSTANTS
  Workers,     \* the worker ids
  Leader,      \* the worker whose process runs the server
  NBarriers,   \* barriers of the scenario, the implicit one included
  Retries,     \* bound: retries of one worker over the whole run
  MaxLosses    \* bound: connections lost while a worker waits

ASSUME BarrierAssumption ==
  /\ IsFiniteSet(Workers) /\ Cardinality(Workers) > 1
  /\ Leader \in Workers
  /\ NBarriers \in Nat \ {0} /\ Retries \in Nat /\ MaxLosses \in Nat

VARIABLES
  server,      \* "starting", "up" or "down"
  objs,        \* every barrierState made for each barrier id: who is in ready
  current,     \* Server.barriers: the index into objs of each id, 0 if absent
  handler,     \* the handleReady call of each worker's each attempt
  at,          \* the barrier each worker is heading for or waiting at
  pc,          \* where each worker's process is
  att,         \* attempts each worker has made in all
  start,       \* the start time each worker got at each barrier, named by the
               \* barrierState whose release computed it; 0 if none
  \* Observation only.
  losses,      \* connections lost so far
  faults       \* what has gone wrong: "lost", "timeout", "gone"

serverVars == <<server, objs, current>>
clientVars == <<at, pc, att, start>>
vars == <<serverVars, handler, clientVars, losses, faults>>

Barriers == 1..NBarriers
Attempts == 1..(NBarriers + Retries)
HandlerPhases == {"none", "get", "lock", "delete", "select"}
ClientPhases == {"work", "try", "wait", "done", "failed"}

\* A handler works for barrier k on the barrierState objs[k][g]; open says that
\* its client still listens. NoHandler: not started, or returned.
NoHandler == [at |-> "none", k |-> 1, g |-> 0, open |-> FALSE]
Returned(w, a) == handler' = [handler EXCEPT ![w][a] = NoHandler]

\* Mutants: release when one worker is missing; wait for one more than there are.
AllButOne(ready) == Cardinality(ready) + 1 >= Cardinality(Workers)
OneTooMany(ready) == Cardinality(ready) > Cardinality(Workers)

\* All workers are in a barrierState's ready map.
AllReady(ready) == Cardinality(ready) = Cardinality(Workers)

\* The client of a handler stops listening.
HangUp(w) == handler' = [handler EXCEPT ![w] = [a \in Attempts |-> [@[a] EXCEPT !.open = FALSE]]]

-----------------------------------------------------------------------------
(* The worker's side: onBarrier and WaitForStart.                          *)

\* A worker's stages before its next barrier are over.
Arrive(w) ==
  /\ pc[w] = "work"
  /\ pc' = [pc EXCEPT ![w] = "try"]
  /\ UNCHANGED <<serverVars, handler, at, att, start, losses, faults>>

\* The server is not listening or its name does not resolve yet; bounded so that
\* an attempt is left for every barrier still ahead.
Refused(w) ==
  /\ pc[w] = "try"
  /\ att[w] < at[w] - 1 + Retries
  /\ att' = [att EXCEPT ![w] = @ + 1]
  /\ UNCHANGED <<serverVars, handler, at, pc, start, losses, faults>>

\* The request reaches the server, which starts a handler for it.
Post(w) ==
  /\ pc[w] = "try"
  /\ server = "up"
  /\ att[w] < NBarriers + Retries
  /\ att' = [att EXCEPT ![w] = @ + 1]
  /\ handler' = [handler EXCEPT ![w][att[w] + 1] =
                   [at |-> "get", k |-> at[w], g |-> 0, open |-> TRUE]]
  /\ pc' = [pc EXCEPT ![w] = "wait"]
  /\ UNCHANGED <<serverVars, at, start, losses, faults>>

\* The connection breaks while the worker waits, before or after its request is
\* handled: client.Do reports an error, which is retried after a backoff.
Lose(w) ==
  /\ pc[w] = "wait"
  /\ losses < MaxLosses
  /\ losses' = losses + 1
  /\ faults' = faults \cup {"lost"}
  /\ HangUp(w)
  /\ pc' = [pc EXCEPT ![w] = "try"]
  /\ UNCHANGED <<serverVars, at, att, start>>

\* The timeout of the whole wait fires: the worker abandons its run.
Timeout(w) ==
  /\ pc[w] \in {"try", "wait"}
  /\ pc' = [pc EXCEPT ![w] = "failed"]
  /\ HangUp(w)
  /\ faults' = faults \cup {"timeout"}
  /\ UNCHANGED <<serverVars, at, att, start, losses>>

-----------------------------------------------------------------------------
(* The server's side: handleReady, one goroutine per attempt.              *)

Listen ==
  /\ server = "starting"
  /\ server' = "up"
  /\ UNCHANGED <<objs, current, handler, clientVars, losses, faults>>

\* Mutant: the new barrierState is not stored.
GetUnstored(w, a) ==
  /\ handler[w][a].at = "get"
  /\ LET k == handler[w][a].k
         g == IF current[k] = 0 THEN Len(objs[k]) + 1 ELSE current[k]
     IN /\ current' = [current EXCEPT ![k] = g]
        /\ handler' = [handler EXCEPT ![w][a].at = "lock", ![w][a].g = g]
  /\ UNCHANGED <<server, objs, clientVars, losses, faults>>

\* getBarrier, under Server.mu: find the barrierState or make one.
GetBarrier(w, a) ==
  /\ handler[w][a].at = "get"
  /\ LET k == handler[w][a].k
         new == current[k] = 0
         g == IF new THEN Len(objs[k]) + 1 ELSE current[k]
     IN /\ objs' = IF new THEN [objs EXCEPT ![k] = Append(@, {})] ELSE objs
        /\ current' = [current EXCEPT ![k] = g]
        /\ handler' = [handler EXCEPT ![w][a].at = "lock", ![w][a].g = g]
  /\ UNCHANGED <<server, clientVars, losses, faults>>

\* Under barrierState.mu: register the worker; the last one releases all. The
\* send into each one-slot channel is the barrierState becoming full.
Register(w, a) ==
  /\ handler[w][a].at = "lock"
  /\ LET k == handler[w][a].k
         g == handler[w][a].g
     IN /\ w \notin objs[k][g]
        /\ objs' = [objs EXCEPT ![k][g] = @ \cup {w}]
        /\ handler' = [handler EXCEPT ![w][a].at =
                         IF AllReady(objs[k][g] \cup {w}) THEN "delete" ELSE "select"]
  /\ UNCHANGED <<server, current, clientVars, losses, faults>>

\* The worker is registered already: status 409, which the client does not retry.
Conflict(w, a) ==
  /\ handler[w][a].at = "lock"
  /\ w \in objs[handler[w][a].k][handler[w][a].g]
  /\ Returned(w, a)
  /\ pc' = [pc EXCEPT ![w] = IF handler[w][a].open THEN "failed" ELSE @]
  /\ UNCHANGED <<serverVars, at, att, start, losses, faults>>

\* The releasing handler, no longer holding barrierState.mu, drops the barrier.
DeleteBarrier(w, a) ==
  /\ handler[w][a].at = "delete"
  /\ current' = [current EXCEPT ![handler[w][a].k] = 0]
  /\ handler' = [handler EXCEPT ![w][a].at = "select"]
  /\ UNCHANGED <<server, objs, clientVars, losses, faults>>

\* The start time is in the handler's channel: answer, and the worker goes on to
\* sleep until it and to run its next stages.
Reply(w, a) ==
  /\ handler[w][a].at = "select"
  /\ LET k == handler[w][a].k
         g == handler[w][a].g
     IN /\ AllReady(objs[k][g])
        /\ IF handler[w][a].open
           THEN /\ start' = [start EXCEPT ![w][k] = g]
                /\ at' = [at EXCEPT ![w] = k + 1]
                /\ pc' = [pc EXCEPT ![w] = IF k = NBarriers THEN "done" ELSE "work"]
           ELSE UNCHANGED <<start, at, pc>>
  /\ Returned(w, a)
  /\ UNCHANGED <<serverVars, att, losses, faults>>

\* The request's context ended: status 503 to nobody; the registration stays.
RequestGone(w, a) ==
  /\ handler[w][a].at = "select"
  /\ ~handler[w][a].open
  /\ Returned(w, a)
  /\ UNCHANGED <<serverVars, clientVars, losses, faults>>

\* The leader's process ends with its run; every open connection breaks.
ServerGone ==
  /\ server = "up"
  /\ pc[Leader] \in {"done", "failed"}
  /\ server' = "down"
  /\ handler' = [w \in Workers |-> [a \in Attempts |-> NoHandler]]
  /\ pc' = [w \in Workers |-> IF pc[w] = "wait" THEN "try" ELSE pc[w]]
  /\ faults' = IF \A w \in Workers : pc[w] \in {"done", "failed"}
               THEN faults ELSE faults \cup {"gone"}
  /\ UNCHANGED <<objs, current, at, att, start, losses>>

\* Every worker's process has ended.
Ended ==
  /\ \A w \in Workers : pc[w] \in {"done", "failed"}
  /\ UNCHANGED vars

-----------------------------------------------------------------------------
Init ==
  /\ server = "starting"
  /\ objs = [k \in Barriers |-> <<>>]
  /\ current = [k \in Barriers |-> 0]
  /\ handler = [w \in Workers |-> [a \in Attempts |-> NoHandler]]
  /\ at = [w \in Workers |-> 1]
  /\ pc = [w \in Workers |-> "work"]
  /\ att = [w \in Workers |-> 0]
  /\ start = [w \in Workers |-> [k \in Barriers |-> 0]]
  /\ losses = 0
  /\ faults = {}

ClientStep(w) == Arrive(w) \/ Post(w)

HandlerStep(w, a) ==
  \/ GetBarrier(w, a) \/ Register(w, a) \/ Conflict(w, a)
  \/ DeleteBarrier(w, a) \/ Reply(w, a) \/ RequestGone(w, a)

Next ==
  \/ Listen
  \/ ServerGone
  \/ \E w \in Workers : ClientStep(w) \/ Refused(w) \/ Lose(w) \/ Timeout(w)
  \/ \E w \in Workers, a \in Attempts : HandlerStep(w, a)
  \/ Ended

Spec == Init /\ [][Next]_vars

\* Workers reach their barriers (their stages end), the leader's server comes up
\* and goroutines are scheduled. Nothing says that a timeout fires or that a
\* connection breaks.
Fairness ==
  /\ WF_vars(Listen)
  /\ \A w \in Workers : WF_vars(ClientStep(w))
  /\ \A w \in Workers, a \in Attempts : WF_vars(HandlerStep(w, a))

FairSpec == Spec /\ Fairness

-----------------------------------------------------------------------------
(* Properties.                                                             *)

\* Every variable keeps its type (server.go:14-37, client.go:16-24).
TypeOK ==
  /\ server \in {"starting", "up", "down"}
  /\ objs \in [Barriers -> Seq(SUBSET Workers)]
  /\ \A k \in Barriers : current[k] \in 0..Len(objs[k])
  /\ handler \in [Workers -> [Attempts ->
       [at : HandlerPhases, k : Barriers, g : Nat, open : BOOLEAN]]]
  /\ at \in [Workers -> 1..(NBarriers + 1)]
  /\ pc \in [Workers -> ClientPhases]
  /\ att \in [Workers -> 0..(NBarriers + Retries)]
  /\ start \in [Workers -> [Barriers -> Nat]]
  /\ losses \in 0..MaxLosses
  /\ faults \subseteq {"lost", "timeout", "gone"}

\* Workers that pass a barrier pass it with the same start time, even when an
\* answer was lost and the retry opened a second barrierState under the same id:
\* it takes a lost connection of every worker to fill that one too, and from
\* then on two start times are possible (server.go:83-94, 112-131).
Agreement ==
  \A k \in Barriers : \A v, w \in Workers :
    losses < Cardinality(Workers) /\ start[v][k] # 0 /\ start[w][k] # 0
      => start[v][k] = start[w][k]

\* Nobody passes a barrier that some worker has not reached (server.go:113-125).
NobodyAhead ==
  \A k \in Barriers : \A v, w \in Workers :
    start[w][k] # 0 => at[v] > k \/ (at[v] = k /\ pc[v] # "work")

\* Nobody waits for ever on a barrier all have reached: without a fault every
\* worker passes every barrier, and no timeout is needed for that.
AllPass == <>(faults # {} \/ \A w \in Workers : pc[w] = "done")

==============================================================================
