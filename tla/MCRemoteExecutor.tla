-------------------------- MODULE MCRemoteExecutor --------------------------
(* Instances of RemoteExecutor for TLC: three cells, two threads and two    *)
(* slots, so that calls and tasks wait for one another.                     *)
EXTENDS RemoteExecutor

ThreeCells == 1..3
\* Modal and Celery differ in names only.
RayAndCelery == {"ray", "celery"}
AllFaults == FaultKinds
=============================================================================
