---------------------------- MODULE RunDirectory ----------------------------
(***************************************************************************)
(* The life of one directory runs/<run_id>/ over several invocations of    *)
(* evalh: the run that creates it, `evalh run --retry-only-failed` on it   *)
(* (cli/commands/run.py), `evalh re-evaluate` on it                        *)
(* (cli/commands/re_evaluate.py), with the store that writes it            *)
(* (adapters/trace/local_files_store.py), the reader (core/run_reader.py)  *)
(* and the plan (runner/plan_builder.py).                                  *)
(*                                                                         *)
(* An invocation may be stopped anywhere, by Ctrl-C or by a crash, which   *)
(* leaves no summary of it and may leave half a line or half a file.       *)
(* Scheduling inside an invocation is the concern of LocalExecutor; here   *)
(* its cells are recorded in any order.                                    *)
(***************************************************************************)
EXTENDS Integers, FiniteSets

CONSTANTS
    Cases,          \* what the dataset file may list
    Variants,       \* the systems of the configuration
    SampleSize,     \* dataset.sample
    MaxInvocations  \* bound: commands and edits of the dataset

ASSUME CasesAssumption == IsFiniteSet(Cases) /\ Cases # {}
ASSUME VariantsAssumption == Variants # {}
ASSUME SampleAssumption == SampleSize \in Nat \ {0}
ASSUME InvocationsAssumption == MaxInvocations \in Nat

Cells == Cases \X Variants

\* What a row of traces.jsonl says of a cell, and a row of results.jsonl.
Endings == {"ok", "error"}
Verdicts == {"pass", "fail"}

VARIABLES
    traced,   \* traces.jsonl: the endings recorded for each cell
    judged,   \* results.jsonl: the verdicts recorded for each cell
    torn,     \* the append-only files that hold half a line
    config,   \* config.yaml
    summary,  \* summary.yaml
    counted,  \* the cells that summary.yaml counts
    pc,       \* where the invocation is
    plan,     \* the cells it executes
    stage,    \* how far it is with each of them
    erred,    \* one of its cells recorded an error
    include,  \* --include-evaluator-failures
    answer,   \* how the last run or retry ended
    dataset,  \* the cases that the dataset adapter loads
    left      \* invocations still to come

logs == <<traced, judged, torn>>
yamls == <<config, summary, counted>>
files == <<logs, yamls>>
process == <<pc, plan, stage, erred, include>>
history == <<dataset, left>>
vars == <<files, process, answer, history>>

NoCells == [c \in Cells |-> "out"]

Todo(set) == [c \in Cells |-> IF c \in set THEN "todo" ELSE "out"]

Init ==
    /\ traced = [c \in Cells |-> {}] /\ judged = [c \in Cells |-> {}]
    /\ torn = {} /\ config = "absent" /\ summary = "absent" /\ counted = {}
    /\ pc = "none" /\ plan = {} /\ stage = NoCells /\ erred = FALSE /\ include = FALSE
    /\ answer = "none" /\ left = MaxInvocations
    /\ dataset \in SUBSET Cases \ {{}}

-----------------------------------------------------------------------------
(* Planning.                                                                *)

\* The sample is drawn with the run id of the invocation as its seed, and
\* build_plan mints a new run id every time it is called.
Samples ==
    IF SampleSize >= Cardinality(dataset)
      THEN {dataset}
      ELSE {s \in SUBSET dataset : Cardinality(s) = SampleSize}

Invoke ==
    /\ pc \in {"none", "idle"}
    /\ left > 0 /\ left' = left - 1
    /\ UNCHANGED dataset

\* Between two invocations somebody adds cases to the dataset, or removes some.
EditDataset ==
    /\ pc = "idle" /\ left > 0 /\ left' = left - 1
    /\ dataset' \in SUBSET Cases \ {{}}
    /\ answer' = "none"
    /\ UNCHANGED <<files, process>>

\* The invocation begins to execute the cells of set.
Begin(set) ==
    /\ pc' = "opening" /\ plan' = set /\ stage' = Todo(set) /\ erred' = FALSE
    /\ UNCHANGED files

FreshRun ==
    /\ pc = "none" /\ Invoke
    /\ \E s \in Samples : Begin(s \X Variants)
    /\ include' = FALSE /\ answer' = "none"

\* The constructor of RunReader demands every file of a finished run.
Complete == config # "absent" /\ summary # "absent"

Errored == {c \in Cells : "error" \in traced[c]}
Seen == {c \in Cells : traced[c] # {}}
Failing == {c \in Cells : "fail" \in judged[c]}

\* Mutant: only recorded errors count, as before the matrix was compared.
FailedIgnoresMissing(expected, all) == Errored \cup (IF all THEN Failing ELSE {})
\* Mutant: failed verdicts count without --include-evaluator-failures too.
FailedWithVerdicts(expected, all) == Errored \cup (expected \ Seen) \cup Failing

\* _collect_failed_cells.
FailedCells(expected, all) ==
    Errored \cup (expected \ Seen) \cup (IF all THEN Failing ELSE {})

Readable(all) == "traces" \notin torn /\ (all => "results" \notin torn)

\* The retry ends without having executed a cell.
Ends(how) ==
    /\ answer' = how
    /\ pc' = "idle" /\ plan' = {} /\ stage' = NoCells /\ erred' = FALSE
    /\ UNCHANGED files

\* The failed cells are cut to the cases of the plan; the summary is read for
\* its run id only when some cell is left.
Retry ==
    /\ pc = "idle" /\ Invoke
    /\ include' \in BOOLEAN
    /\ \E s \in Samples :
          LET expected == s \X Variants
              chosen == FailedCells(expected, include') \cap expected
          IN  \/ ~(Complete /\ Readable(include')) /\ Ends("refused")
              \/ Complete /\ Readable(include') /\ chosen = {} /\ Ends("nothing")
              \/ /\ Complete /\ Readable(include') /\ chosen # {}
                 /\ IF summary = "torn" THEN Ends("refused")
                                        ELSE Begin(chosen) /\ answer' = "none"

-----------------------------------------------------------------------------
(* A run or a retry that executes cells.                                    *)

\* LocalFilesStore.open touches the two files and rewrites config.yaml, which
\* is empty between the truncation and the write.
TruncateConfig ==
    /\ pc = "opening"
    /\ pc' = "configuring" /\ config' = "torn"
    /\ UNCHANGED <<logs, summary, counted, plan, stage, erred, include, answer, history>>

WriteConfig ==
    /\ pc = "configuring"
    /\ pc' = "running" /\ config' = "whole"
    /\ UNCHANGED <<logs, summary, counted, plan, stage, erred, include, answer, history>>

\* A line appended to a file that ends in half a line makes one broken line;
\* the file is unreadable either way.
SaveTrace(c, ending) ==
    /\ pc = "running" /\ stage[c] = "todo"
    /\ stage' = [stage EXCEPT ![c] = "traced"]
    /\ traced' = [traced EXCEPT ![c] = @ \cup {ending}]
    /\ erred' = (erred \/ ending = "error")
    /\ UNCHANGED <<judged, torn, yamls, pc, plan, include, answer, history>>

\* Mutant: the verdicts are appended before the trace is.
JudgeFirst(c, verdicts) ==
    /\ pc = "running" /\ stage[c] \in {"todo", "traced"}
    /\ stage' = [stage EXCEPT ![c] = "done"]
    /\ judged' = [judged EXCEPT ![c] = @ \cup verdicts]
    /\ UNCHANGED <<traced, torn, yamls, pc, plan, erred, include, answer, history>>

SaveEvaluation(c, verdicts) ==
    /\ pc = "running" /\ stage[c] = "traced"
    /\ stage' = [stage EXCEPT ![c] = "done"]
    /\ judged' = [judged EXCEPT ![c] = @ \cup verdicts]
    /\ UNCHANGED <<traced, torn, yamls, pc, plan, erred, include, answer, history>>

Unfinished == {c \in plan : stage[c] # "done"}

\* A cell that the cost limit refuses: an error trace and no results.
SaveRefusal(c) ==
    /\ pc = "running" /\ stage[c] = "todo"
    /\ stage' = [stage EXCEPT ![c] = "done"]
    /\ traced' = [traced EXCEPT ![c] = @ \cup {"error"}]
    /\ erred' = TRUE
    /\ UNCHANGED <<judged, torn, yamls, pc, plan, include, answer, history>>

\* save_summary truncates summary.yaml first.
TruncateSummary ==
    /\ pc = "running" /\ Unfinished = {}
    /\ pc' = "saving" /\ summary' = "torn" /\ counted' = {}
    /\ answer' = "completed"
    /\ UNCHANGED <<logs, config, plan, stage, erred, include, history>>

WriteSummary ==
    /\ pc = "saving"
    /\ pc' = "idle" /\ summary' = "whole" /\ counted' = plan
    /\ plan' = {} /\ stage' = NoCells
    /\ UNCHANGED <<logs, config, erred, include, answer, history>>

-----------------------------------------------------------------------------
(* Re-evaluation.                                                           *)

ReEvaluate ==
    /\ pc = "idle" /\ Invoke
    /\ Complete /\ config = "whole"
    /\ pc' = "scoring" /\ plan' = Seen /\ stage' = Todo(Seen) /\ erred' = FALSE
    /\ answer' = "none" /\ include' = FALSE
    /\ UNCHANGED files

\* One pass of the loop over the traces.  The traces in front of a broken line
\* or of a trace whose case is no more in the dataset are scored before the
\* command gives up.
Score(c, verdicts) ==
    /\ pc = "scoring" /\ stage[c] = "todo" /\ c[1] \in dataset
    /\ stage' = [stage EXCEPT ![c] = "done"]
    /\ judged' = [judged EXCEPT ![c] = @ \cup verdicts]
    /\ UNCHANGED <<traced, torn, yamls, pc, plan, erred, include, answer, history>>

ScoringEnds ==
    /\ pc = "scoring"
    /\ Unfinished = {} \/ "traces" \in torn \/ \E c \in Unfinished : c[1] \notin dataset
    /\ pc' = "idle" /\ plan' = {} /\ stage' = NoCells
    /\ UNCHANGED <<files, erred, include, answer, history>>

-----------------------------------------------------------------------------
(* The process dies, or an append fails and run_eval raises: one line may   *)
(* be half written.                                                         *)

BeingAppended ==
    {f \in {"traces", "results"} :
        \/ pc = "running" /\ f = "traces" /\ \E c \in plan : stage[c] = "todo"
        \/ pc = "running" /\ f = "results" /\ \E c \in plan : stage[c] = "traced"
        \/ pc = "scoring" /\ f = "results" /\ \E c \in plan : stage[c] = "todo"}

Dies ==
    /\ pc \in {"opening", "configuring", "running", "saving", "scoring"}
    /\ \E cut \in SUBSET BeingAppended : torn' = torn \cup cut
    /\ pc' = "idle" /\ plan' = {} /\ stage' = NoCells
    /\ answer' = "failed"
    /\ UNCHANGED <<traced, judged, yamls, erred, include, history>>

Next ==
    \/ FreshRun \/ Retry \/ ReEvaluate \/ EditDataset
    \/ TruncateConfig \/ WriteConfig \/ TruncateSummary \/ WriteSummary
    \/ \E c \in Cells, e \in Endings : SaveTrace(c, e)
    \/ \E c \in Cells : SaveRefusal(c)
    \/ \E c \in Cells, v \in SUBSET Verdicts : SaveEvaluation(c, v) \/ Score(c, v)
    \/ ScoringEnds \/ Dies

Spec == Init /\ [][Next]_vars

-----------------------------------------------------------------------------
(* Properties.                                                              *)

TypeOK ==
    /\ traced \in [Cells -> SUBSET Endings] /\ judged \in [Cells -> SUBSET Verdicts]
    /\ torn \subseteq {"traces", "results"}
    /\ config \in {"absent", "torn", "whole"}
    /\ summary \in {"absent", "torn", "whole"} /\ counted \subseteq Cells
    /\ pc \in {"none", "idle", "opening", "configuring", "running", "saving", "scoring"}
    /\ plan \subseteq Cells /\ stage \in [Cells -> {"out", "todo", "traced", "done"}]
    /\ \A c \in Cells : stage[c] = "out" <=> c \notin plan
    /\ erred \in BOOLEAN /\ include \in BOOLEAN
    /\ answer \in {"none", "completed", "nothing", "refused", "failed"}
    /\ dataset \subseteq Cases /\ left \in 0..MaxInvocations

\* Without sampling, when a run or a retry completes with no error, or a retry
\* finds nothing to do, every cell of the matrix has a good trace, whatever
\* crashes, interruptions, retries and edits of the dataset came before
\* (_collect_failed_cells: errored cells and cells with no trace).
Amended == pc = "idle" /\ (answer = "nothing" \/ (answer = "completed" /\ ~erred))
AmendedRunIsRecorded ==
    SampleSize >= Cardinality(Cases) /\ Amended => \A c \in dataset \X Variants : "ok" \in traced[c]

\* No invocation executes a cell again that only ever succeeded, unless it was
\* told to include the failures of evaluators and found one: "without
\* re-executing the successful subset" (run.py).
NeedsAgain(c) == traced[c] # {"ok"} \/ (include /\ "fail" \in judged[c])
SuccessIsNotRepeated ==
    [][\A c \in Cells : stage[c] = "todo" /\ stage'[c] = "traced" => NeedsAgain(c)]_vars

\* What the summary counts and what the results judge was recorded before it,
\* in this or in an earlier invocation (save_trace comes first in _run_one).
RestsOnTraces ==
    /\ \A c \in Cells : judged[c] # {} => traced[c] # {}
    /\ \A c \in counted : traced[c] # {}

\* docs/Concurrency.md:299: when a run crashes with cells recorded and cells missing,
\* what is on disk is valid and a retry picks the missing cells up.  RunReader wants
\* a summary.yaml, which only a run that came to its end has written.
CrashedRunIsRetried ==
    (config = "whole" /\ torn = {} /\ Seen # {} /\ (dataset \X Variants) \ Seen # {})
        => answer # "refused"
=============================================================================
