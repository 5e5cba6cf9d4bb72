--------------------------- MODULE MCControlPlane ---------------------------
(* Two clients, one cancel, two specifications; see the README. *)
EXTENDS ControlPlane

CONSTANTS f1, f2, l1, l2

\* Both specifications in one result directory, or each in its own; the labels are
\* interchangeable.
MCLabellings == {[f \in {f1, f2} |-> l1], [f \in {f1, f2} |-> IF f = f1 THEN l1 ELSE l2]}
OneLabelling == {[f \in {f1} |-> l1]}
=============================================================================
