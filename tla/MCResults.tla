----------------------------- MODULE MCResults -----------------------------
(* Two workers: uneven partitions; a worker that may be killed; a worker with *)
(* no question, which fails, and one with no stream, which waits.             *)
EXTENDS Results

Evaluation(a, c, k) ==
  [answers |-> a, concurrency |-> c, kills |-> k]

MCEvaluations ==
  { Evaluation(<<"correct", "error", "wrong">>, 2, 0),
    Evaluation(<<"correct", "error">>, 2, 1),
    Evaluation(<<"wrong">>, 2, 1), Evaluation(<<"wrong", "correct">>, 1, 1) }
=============================================================================
