--------------------------- MODULE ExecutorContract ---------------------------
(***************************************************************************)
(* The Executor protocol (core/executors/base.py) as run_eval relies on    *)
(* it: dispatch_all "runs every cell to completion, returning their        *)
(* CellOutcomes in input order", and the aggregator behind finalize() holds *)
(* outcomes of cells only.  An executor that fails may have counted any    *)
(* part of what it obtained, but it never returns.                         *)
(***************************************************************************)
CONSTANT Cells

VARIABLES
    obtained,   \* cells whose CellOutcome the executor has
    counted,    \* cells folded into the summary aggregator
    returned    \* dispatch_all has returned

vars == <<obtained, counted, returned>>

Init == obtained = {} /\ counted = {} /\ returned = FALSE

\* The outcome of c arrives; one that arrives after an error is not used.
Obtain(c) ==
    /\ ~returned
    /\ obtained' = obtained \cup {c}
    /\ UNCHANGED <<counted, returned>>

\* _ingest: one by one as they arrive, or all of them at the end.
Count(C) ==
    /\ ~returned
    /\ C \subseteq obtained
    /\ counted' = counted \cup C
    /\ returned' \in {FALSE, counted' = Cells}
    /\ UNCHANGED obtained

Next ==
    \/ \E c \in Cells : Obtain(c)
    \/ \E C \in SUBSET Cells : Count(C)

Spec == Init /\ [][Next]_vars
=============================================================================
