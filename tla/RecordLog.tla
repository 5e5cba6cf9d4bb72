------------------------------ MODULE RecordLog ------------------------------
(***************************************************************************)
(* What the recorder promises its callers, without its lock, its channel   *)
(* and its background goroutine: records are accepted until the log is     *)
(* sealed, none is accepted afterwards, and what is read from the sealed   *)
(* log is exactly what was accepted.                                       *)
(***************************************************************************)
CONSTANT Items       \* the records there may be

VARIABLES
  log,      \* the records accepted so far
  sealed,   \* no more are accepted
  reports   \* the results of reading the sealed log

Init == log = {} /\ sealed = FALSE /\ reports = {}

Accept ==
  /\ ~sealed
  /\ \E r \in Items \ log : log' = log \cup {r}
  /\ UNCHANGED <<sealed, reports>>

Seal ==
  /\ ~sealed
  /\ sealed' = TRUE
  /\ UNCHANGED <<log, reports>>

Read ==
  /\ sealed
  /\ reports' = reports \cup {log}
  /\ UNCHANGED <<log, sealed>>

Next == Accept \/ Seal \/ Read

Spec == Init /\ [][Next]_<<log, sealed, reports>>
=============================================================================
