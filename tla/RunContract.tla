----------------------------- MODULE RunContract -----------------------------
(***************************************************************************)
(* What a run of the harness promises about its cells, whatever executor   *)
(* carries them: a cell's trace is recorded before the cell is judged or   *)
(* counted, a cell that the cost guard refused is recorded but never       *)
(* judged, and a summary is published at most once, when every cell of the *)
(* plan has been counted.  run_eval (runner/run_eval.py) states this order *)
(* by the sequence of its calls; LocalExecutor.tla has the calls           *)
(* themselves and implements this module.                                  *)
(***************************************************************************)
CONSTANT Cells

VARIABLES
    recorded,   \* cells whose trace is on the canonical sink
    refused,    \* recorded cells that the cost guard short-circuited
    judged,     \* cells whose evaluation results are on the canonical sink
    counted,    \* cells folded into the summary aggregator
    published   \* the summary is on the canonical sink

vars == <<recorded, refused, judged, counted, published>>

Init ==
    /\ recorded = {}
    /\ refused = {}
    /\ judged = {}
    /\ counted = {}
    /\ published = FALSE

\* The system under test ran for c (or failed, or timed out): its trace is saved.
Record(c) ==
    /\ c \notin recorded \cup counted
    /\ recorded' = recorded \cup {c}
    /\ UNCHANGED <<refused, judged, counted, published>>

\* The cost guard answers for c: the trace says cost_limit, nothing will judge it.
Refuse(c) ==
    /\ c \notin recorded \cup counted
    /\ recorded' = recorded \cup {c}
    /\ refused' = refused \cup {c}
    /\ counted' \in {counted, counted \cup {c}}
    /\ UNCHANGED <<judged, published>>

Judge(c) ==
    /\ c \in recorded \ (refused \cup judged \cup counted)
    /\ judged' = judged \cup {c}
    /\ counted' \in {counted, counted \cup {c}}
    /\ UNCHANGED <<recorded, refused, published>>

Count(c) ==
    /\ c \in (refused \cup judged) \ counted
    /\ counted' = counted \cup {c}
    /\ UNCHANGED <<recorded, refused, judged, published>>

Publish ==
    /\ ~published
    /\ counted = Cells
    /\ published' = TRUE
    /\ UNCHANGED <<recorded, refused, judged, counted>>

Next ==
    \/ \E c \in Cells : Record(c) \/ Refuse(c) \/ Judge(c) \/ Count(c)
    \/ Publish

Spec == Init /\ [][Next]_vars
=============================================================================
