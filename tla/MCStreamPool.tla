---------------------------- MODULE MCStreamPool ----------------------------
(* Stage lists for StreamPool: small enough to exhaust, and chosen so that the *)
(* pool grows, shrinks, is drained and is carried over from stage to stage.    *)
EXTENDS StreamPool

Load(conc, max) == [kind |-> "load", conc |-> conc, max |-> max, rampup |-> FALSE]
Ramped(conc, max) == [Load(conc, max) EXCEPT !.rampup = TRUE]
Sync(kind) == [kind |-> kind, conc |-> 0, max |-> 0, rampup |-> FALSE]

MCPlans ==
  { <<Load(2, 2)>>,
    <<Load(2, 0), Load(1, 1)>>,
    <<Load(1, 1), Sync("drain"), Ramped(2, 0)>>,
    <<Load(1, 0), Sync("barrier"), Load(2, 1)>> }
=============================================================================
