---------------------------- MODULE MCRateStages ----------------------------
(* Stage lists for RateStages: a capped warmup before a barrier and a limited *)
(* stage, an uncapped limited stage, and a run whose first stage has no rate. *)
EXTENDS RateStages

Load(max, inflight) == [kind |-> "load", max |-> max, inflight |-> inflight, rate |-> TRUE]
Sync == [kind |-> "barrier", max |-> 0, inflight |-> 0, rate |-> FALSE]

MCPlans ==
  { <<Sync, Load(0, 3), Sync, Load(2, 3)>>,
    <<Load(3, 0)>>,
    <<[Load(0, 2) EXCEPT !.rate = FALSE], Load(1, 2)>> }
=============================================================================
