----------------------------- MODULE MCServices -----------------------------
(* Values of the constants of Services for TLC.                              *)
EXTENDS Services

Both == {"docker", "branch"}
Every == {"start", "stop", "disk", "inner", "crash", "stranger", "cancel"}
=============================================================================
