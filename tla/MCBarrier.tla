------------------------------ MODULE MCBarrier ------------------------------
(* Three workers, two barriers, one retry each and one lost connection.      *)
EXTENDS Barrier
=============================================================================
