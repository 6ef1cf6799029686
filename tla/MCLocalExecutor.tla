-------------------------- MODULE MCLocalExecutor --------------------------
(* Small instances of LocalExecutor for TLC. *)
EXTENDS LocalExecutor, TLC

CONSTANTS fast, slow, gpu, none, sink

\* Cells in the order of the cell loop.
Two == 1..2
TwoVariantOf == (1 :> fast @@ 2 :> slow)
Three == 1..3
ThreeVariantOf == (1 :> fast @@ 2 :> slow @@ 3 :> fast)
BothVariants == {fast, slow}

NoOption == [v \in BothVariants |-> none]
SlowOnPool == (fast :> none @@ slow :> gpu)
OneGpu == (gpu :> 1)
NoPools == [p \in {} |-> 1]
FastOne == (fast :> 1 @@ slow :> none)
HardFaults == {"store", "workspace", "badresult", "sink", "open", "close", "cleanup", "interrupt"}
=============================================================================
