------------------------- MODULE MCConversationPool -------------------------
(* Stage lists for ConversationPool: pools as large as and larger than the   *)
(* concurrency, with fewer and with more requests than conversations.        *)
EXTENDS ConversationPool

Load(conc, pool, max) ==
  [kind |-> "load", conc |-> conc, pool |-> pool, max |-> max, rampup |-> FALSE]
Sync == [kind |-> "barrier", conc |-> 0, pool |-> 0, max |-> 0, rampup |-> FALSE]

MCPlans ==
  { <<Load(2, 3, 0)>>,
    <<Load(2, 3, 2), Sync, Load(1, 0, 1)>>,
    <<[Load(2, 0, 4) EXCEPT !.rampup = TRUE]>> }
=============================================================================
