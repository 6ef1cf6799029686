--------------------------- MODULE MCJobsExecutor ---------------------------
(* Instances of JobsExecutor for TLC: one cell with a ConfigMap and one     *)
(* without, and one retry.                                                  *)
EXTENDS JobsExecutor

TwoCells == {1, 2}
FirstIsLarge == {1}
AllFaults == FaultKinds
FirstAttempt == {1}
=============================================================================
