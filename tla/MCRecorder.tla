----------------------------- MODULE MCRecorder -----------------------------
(* Four writers and two closers over a channel of one slot.                 *)
EXTENDS Recorder
=============================================================================
