----------------------------- MODULE MCBaselines -----------------------------
(* Small instances of Baselines for TLC. *)
EXTENDS Baselines

CONSTANTS old, new, promotesOld, promotesNew, case1, case2, varA, varB, judge

\* Two cases, one of them with two variants; one evaluator.
SomeRows ==
    [case : {case1}, variant : {varA, varB}, evaluator : {judge}, ok : BOOLEAN]
    \cup [case : {case2}, variant : {varA}, evaluator : {judge}, ok : BOOLEAN]
OldAndNew == [p \in {promotesOld, promotesNew} |-> IF p = promotesOld THEN old ELSE new]
=============================================================================
