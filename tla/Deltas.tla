------------------------------- MODULE Deltas -------------------------------
(***************************************************************************)
(* The arithmetic of run comparisons: runner/_deltas.py, shared by `evalh  *)
(* drift` and reports/comparison_writer.py, and the one that `evalh        *)
(* compare` has for itself (cli/commands/compare.py).                      *)
(*                                                                         *)
(* A row is a line of results.jsonl: [case, variant, evaluator, ok], where *)
(* ok is `passed and error is None`.  results.jsonl is append-only, so a   *)
(* cell has rows of every attempt at it; nothing here depends on their     *)
(* order, so a run's results are a bag of rows.  A rate is a pair of       *)
(* integers: what passed, out of how many.                                 *)
(***************************************************************************)
EXTENDS Integers, FiniteSets, BagsExt

B == INSTANCE Bags

CasesOf(rows) == {row.case : row \in B!BagToSet(rows)}
EvaluatorsOf(rows) == {row.evaluator : row \in B!BagToSet(rows)}
CellsOf(rows) == {<<row.case, row.variant>> : row \in B!BagToSet(rows)}

-----------------------------------------------------------------------------
(* runner/_deltas.py                                                        *)

\* A case passes iff every row of it does, whatever its variant, evaluator or attempt.
PassMap(rows) ==
    [c \in CasesOf(rows) |-> \A row \in B!BagToSet(rows) : row.case = c => row.ok]

\* dict.get(case, False)
Passed(map, c) == c \in DOMAIN map /\ map[c]

\* Mutant: a case that the second run does not have is passed over.
RegressionsOfShared(a, b) == {c \in DOMAIN a \cap DOMAIN b : a[c] /\ ~Passed(b, c)}

Regressions(a, b) == {c \in DOMAIN a : a[c] /\ ~Passed(b, c)}

Improvements(a, b) == {c \in DOMAIN b : b[c] /\ ~Passed(a, c)}

\* b's rate minus a's, both over the union of their cases.
PassRateDelta(a, b) ==
    LET union == DOMAIN a \cup DOMAIN b
        Count(map) == Cardinality({c \in union : Passed(map, c)})
    IN  <<Count(b) - Count(a), Cardinality(union)>>

\* Every attempt counts as a row of its own here.
EvaluatorRate(rows, e) ==
    <<B!BagCardinality([row \in {r \in B!BagToSet(rows) : r.evaluator = e /\ r.ok} |-> rows[row]]),
      B!BagCardinality([row \in {r \in B!BagToSet(rows) : r.evaluator = e} |-> rows[row]])>>

\* Fractions over a common denominator; an evaluator that a run lacks has rate 0.
Minus(x, y) ==
    LET Den(r) == IF r[2] = 0 THEN 1 ELSE r[2]
    IN  <<x[1] * Den(y) - y[1] * Den(x), Den(x) * Den(y)>>

EvaluatorDeltas(a, b) ==
    [e \in EvaluatorsOf(a) \cup EvaluatorsOf(b) |->
        Minus(EvaluatorRate(b, e), EvaluatorRate(a, e))]

-----------------------------------------------------------------------------
(* cli/commands/compare.py: by case and variant, over what both runs have.  *)

PassedCells(rows) ==
    {cell \in CellsOf(rows) :
        \A row \in B!BagToSet(rows) : <<row.case, row.variant>> = cell => row.ok}

SharedCells(a, b) == CellsOf(a) \cap CellsOf(b)

CaseDeltas(a, b) ==
    [regressions  |-> SharedCells(a, b) \cap (PassedCells(a) \ PassedCells(b)),
     improvements |-> SharedCells(a, b) \cap (PassedCells(b) \ PassedCells(a))]

=============================================================================
