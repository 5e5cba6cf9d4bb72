----------------------------- MODULE MCScenario -----------------------------
(* Scenarios: a drained warmup, streams alive at a barrier, an open-loop      *)
(* sweep over two workloads that may stop early, and an open-loop warmup.     *)
EXTENDS Scenario

Load(key) == [kind |-> "load", key |-> key, mode |-> "closed", warmup |-> FALSE, until |-> FALSE]
Warm(key) == [Load(key) EXCEPT !.warmup = TRUE]
Until(key) == [Load(key) EXCEPT !.until = TRUE]
Rated(s) == [s EXCEPT !.mode = "rate"]
Barrier(kind) == [Load("a") EXCEPT !.kind = kind]

MCPlans ==
  { <<Warm("a"), Barrier("drain"), Load("a")>>,
    <<Load("a"), Barrier("barrier")>>,
    <<Rated(Until("a")), Barrier("barrier"), Rated(Load("b")), Barrier("barrier")>>,
    <<Barrier("barrier"), Rated(Warm("a")), Rated(Load("a"))>> }

\* Two workloads with a barrier in the run of each.
TwoRuns == { <<Load("a"), Barrier("barrier"), Load("b"), Barrier("barrier"), Load("b")>> }
=============================================================================
