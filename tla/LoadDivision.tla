---------------------------- MODULE LoadDivision ----------------------------
(***************************************************************************)
(* How the total load of a scenario is divided among the workers of a      *)
(* distributed run (pkg/config/scenario.go).                               *)
(***************************************************************************)
EXTENDS Integers, FiniteSets

\* The ids of n workers.
WorkerIds(n) == 0..(n - 1)

\* Integer division; the remainder goes to the lower ids.
DivideConcurrency(total, n, id) ==
  IF n <= 1 THEN total
  ELSE IF id < total % n THEN total \div n + 1 ELSE total \div n

\* ResolveWorkers("auto", max): enough workers for perWorker streams each
\* (1024 in the code).
ResolveWorkers(max, perWorker) ==
  IF max <= 0 THEN 1 ELSE (max + perWorker - 1) \div perWorker
=============================================================================
