----------------------------- MODULE Baselines ------------------------------
(***************************************************************************)
(* The baseline of an eval and what is measured against it: `evalh         *)
(* promote` (cli/commands/promote.py, core/baseline.py) and `evalh drift`  *)
(* (cli/commands/drift.py), each a process of its own, next to the         *)
(* commands that append results to the same run directories and to the     *)
(* operator who deletes old ones.                                          *)
(*                                                                         *)
(* runs/baselines/<eval_name> is a symlink.  It is replaced by a rename of *)
(* a second one, whose name is the same for everybody.                     *)
(***************************************************************************)
EXTENDS Deltas

CONSTANTS
    Runs,        \* run directories of the eval
    Rows,        \* the rows that results.jsonl may get
    Promoters,   \* evalh promote, by its argument
    Target,      \* the run it is called with
    None,        \* no symlink, no run
    MaxRows,     \* bound: rows in all runs
    MaxPromotes  \* bound: promotes in all

ASSUME NoneAssumption == None \notin Runs
ASSUME TargetAssumption == Target \in [Promoters -> Runs]
ASSUME BoundAssumption == MaxRows \in Nat /\ MaxPromotes \in Nat

VARIABLES
    results,  \* results.jsonl of each run
    appended, \* rows appended to them
    exists,   \* run directories that are there
    link,     \* baselines/<eval_name>: the run it points at
    tmp,      \* baselines/.<eval_name>.tmp
    promote,  \* where each promote is
    drift,    \* the drift command that is running, and what it has read
    promotes, \* promotes begun
    shared    \* history: running promotes that were not alone all the time

promoteVars == <<tmp, promote, promotes, shared>>
baselineVars == <<results, appended, exists, link, promoteVars, drift>>

Idle == {"idle", "promoted", "raised"}
NoDrift == [at |-> "idle", run |-> None, base |-> None, current |-> B!EmptyBag, exit |-> 0]
Over(code) == [NoDrift EXCEPT !.at = "over", !.exit = code]

BaselineInit ==
    /\ results = [r \in Runs |-> B!EmptyBag] /\ appended = 0 /\ exists = Runs
    /\ link = None /\ tmp = None
    /\ promote = [p \in Promoters |-> "idle"]
    /\ drift = NoDrift /\ promotes = 0 /\ shared = {}

-----------------------------------------------------------------------------
(* The directories: re-evaluate, a retry, rm.                               *)

\* A retry or a re-evaluation appends its verdicts.
AppendResult(r) ==
    /\ r \in exists /\ appended < MaxRows
    /\ appended' = appended + 1
    /\ \E row \in Rows : results' = [results EXCEPT ![r] = BagAdd(@, row)]
    /\ UNCHANGED <<exists, link, promoteVars, drift>>

Delete(r) ==
    /\ exists' = exists \ {r}
    /\ exists' # exists
    /\ results' = [results EXCEPT ![r] = B!EmptyBag]
    /\ UNCHANGED <<appended, link, promoteVars, drift>>

-----------------------------------------------------------------------------
(* promote_run_to_baseline, from one system call to the next.               *)

Active(p) == promote[p] \notin Idle
Goto(p, place) ==
    /\ promote' = [promote EXCEPT ![p] = place]
    /\ shared' = IF place \in Idle THEN shared \ {p} ELSE shared

\* The directory exists and eval.name of its config.yaml, or --eval-name, is known.
CheckRun(p) ==
    /\ ~Active(p) /\ Target[p] \in exists /\ promotes < MaxPromotes
    /\ promote' = [promote EXCEPT ![p] = "look"]
    /\ promotes' = promotes + 1
    /\ LET others == {q \in Promoters \ {p} : Active(q)}
       IN  shared' = shared \cup others \cup {q \in {p} : others # {}}
    /\ UNCHANGED <<results, appended, exists, link, tmp, drift>>

\* Mutant: the symlink that an earlier promote left behind is not looked for.
LooksNever(p) ==
    /\ promote[p] = "look"
    /\ Goto(p, "symlink")
    /\ UNCHANGED <<results, appended, exists, link, tmp, promotes, drift>>

\* A symlink that an earlier promote left behind is removed first.
LookForTmp(p) ==
    /\ promote[p] = "look"
    /\ Goto(p, IF tmp # None THEN "unlink" ELSE "symlink")
    /\ UNCHANGED <<results, appended, exists, link, tmp, promotes, drift>>

\* Each call raises when another promote was here in between.
Unlink(p) ==
    /\ promote[p] = "unlink"
    /\ Goto(p, IF tmp = None THEN "raised" ELSE "symlink")
    /\ tmp' = None
    /\ UNCHANGED <<results, appended, exists, link, promotes, drift>>

Symlink(p) ==
    /\ promote[p] = "symlink"
    /\ IF tmp = None THEN Goto(p, "replace") /\ tmp' = Target[p]
       ELSE Goto(p, "raised") /\ UNCHANGED tmp
    /\ UNCHANGED <<results, appended, exists, link, promotes, drift>>

\* os.replace: whatever the symlink points at by now becomes the baseline.
Replace(p) ==
    /\ promote[p] = "replace"
    /\ IF tmp = None THEN Goto(p, "raised") /\ UNCHANGED <<link, tmp>>
       ELSE Goto(p, "promoted") /\ link' = tmp /\ tmp' = None
    /\ UNCHANGED <<results, appended, exists, promotes, drift>>

\* The process is killed between two of its calls.
PromoteDies(p) ==
    /\ Active(p)
    /\ Goto(p, "idle")
    /\ UNCHANGED <<results, appended, exists, link, tmp, promotes, drift>>

-----------------------------------------------------------------------------
(* evalh drift                                                              *)

\* get_baseline_run: a symlink to a run that is gone is no baseline either.
Resolved == IF link \in exists THEN link ELSE None

\* The summary of the run, then the baseline: the promoted one, or --baseline.
\* Without one the command ends at once, with exit code 0.
StartDrift(r) ==
    /\ drift.at = "idle" /\ r \in exists
    /\ \E base \in exists \cup {Resolved} :
          drift' = IF base = None THEN Over(0)
                   ELSE [NoDrift EXCEPT !.at = "current", !.run = r, !.base = base]
    /\ UNCHANGED <<results, appended, exists, link, promoteVars>>

\* The results are read one run after the other; a run that was deleted
\* meanwhile ends the command.
ReadCurrent ==
    /\ drift.at = "current"
    /\ IF drift.run \notin exists THEN drift' = Over(1)
       ELSE drift' = [drift EXCEPT !.at = "baseline", !.current = results[drift.run]]
    /\ UNCHANGED <<results, appended, exists, link, promoteVars>>

\* What drift.yaml says of the rows of two runs.
Report(baseline, current) ==
    LET base == PassMap(baseline)
        curr == PassMap(current)
    IN  [regressions |-> Regressions(base, curr),
         improvements |-> Improvements(base, curr),
         rate |-> PassRateDelta(base, curr),
         evaluators |-> EvaluatorDeltas(baseline, current)]

\* strict: --exit-nonzero-on-regression, without which regressions are printed only.
Gate(report, strict) == IF strict /\ report.regressions # {} THEN 1 ELSE 0

ReadBaseline ==
    /\ drift.at = "baseline"
    /\ IF ~({drift.run, drift.base} \subseteq exists) THEN drift' = Over(1)
       ELSE \E strict \in BOOLEAN :
                drift' = Over(Gate(Report(results[drift.base], drift.current), strict))
    /\ UNCHANGED <<results, appended, exists, link, promoteVars>>

-----------------------------------------------------------------------------
PromoteStep(p) == LookForTmp(p) \/ Unlink(p) \/ Symlink(p) \/ Replace(p)

BaselineNext ==
    \/ \E r \in Runs : AppendResult(r) \/ Delete(r) \/ StartDrift(r)
    \/ \E p \in Promoters : CheckRun(p) \/ PromoteStep(p) \/ PromoteDies(p)
    \/ ReadCurrent \/ ReadBaseline

BaselineSpec == BaselineInit /\ [][BaselineNext]_baselineVars

-----------------------------------------------------------------------------
(* Properties.                                                              *)

\* The symlink of the baseline is replaced in one step and never absent once
\* there is one; a promote that answers has made its own run the baseline, and
\* one that raises has not, whatever a promote that was killed left behind,
\* unless two of them ran at the same time (baseline.py:66-75).
PromoteIsAtomic ==
    [][/\ link # None => link' # None
       /\ \A p \in Promoters \ shared :
             /\ promote'[p] = "raised" => promote[p] = "raised"
             /\ Active(p) /\ promote'[p] = "promoted" => link' = Target[p]]_baselineVars

VariantsOf(rows, c) == {cell[2] : cell \in {d \in CellsOf(rows) : d[1] = c}}

\* A report of drift adds up, whatever two runs hold: the pass-rate delta is what
\* the listed cases make of it, the gate, when it is asked for, closes on every fall, even one that an
\* improvement makes up for, and `evalh compare` of the same results, which has an
\* arithmetic of its own, tells the same of every case that both runs judged in the
\* same variants (_deltas.py:43-77, compare.py:143-164).
AddsUp(baseline, current) ==
    LET report == Report(baseline, current)
        compared == CaseDeltas(baseline, current)
        base == PassMap(baseline)
        curr == PassMap(current)
        alike == {c \in CasesOf(baseline) : VariantsOf(baseline, c) = VariantsOf(current, c)}
    IN  /\ report.regressions \cap report.improvements = {}
        /\ report.rate[1] = Cardinality(report.improvements) - Cardinality(report.regressions)
        /\ Gate(report, TRUE) = 0 => \A c \in DOMAIN base : base[c] => Passed(curr, c)
        /\ \A c \in report.regressions \cap alike :
              \E v \in VariantsOf(current, c) : <<c, v>> \in compared.regressions
        /\ \A cell \in compared.regressions : base[cell[1]] => cell[1] \in report.regressions
ReportAddsUp == \A r, s \in Runs : AddsUp(results[r], results[s])
=============================================================================
