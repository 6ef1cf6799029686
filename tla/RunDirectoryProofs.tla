------------------------- MODULE RunDirectoryProofs -------------------------
(***************************************************************************)
(* Theorems about the run directories: about RunDirectory for any dataset, *)
(* any variants and any number of invocations, wherever they crash, and    *)
(* about Baselines, the commands that compare such directories, for any    *)
(* runs, rows and promotes.                                                *)
(*                                                                         *)
(* A report adds up for every pair of bags of rows with finitely many      *)
(* rows, which is what results.jsonl is at any time.  A promote that runs  *)
(* alone is atomic because it is alone: what it saw of the temporary       *)
(* symlink is still so when it acts on it.                                 *)
(***************************************************************************)
EXTENDS Baselines, RunDirectory, FiniteSetTheorems, TLAPS

\* Tuples of variables are always taken apart.
USE DEF files, logs, yamls, history

Executing == {"opening", "configuring", "running", "saving"}
Full == SampleSize >= Cardinality(Cases)
Matrix == dataset \X Variants

\* What an invocation may count on while it runs: it knows which of its cells
\* are recorded, those it left out were good when it was planned and nobody
\* else writes, and those it still has to do need it.
Phases ==
    /\ pc \in Executing => \A c \in plan : stage[c] \in {"traced", "done"} =>
           traced[c] # {} /\ ("ok" \in traced[c] \/ erred)
    /\ pc \in Executing => \A c \in plan : stage[c] = "todo" => NeedsAgain(c)
    /\ pc = "scoring" => \A c \in plan : traced[c] # {}
    /\ pc = "saving" => answer = "completed" /\ Unfinished = {}
    /\ pc = "none" => \A c \in Cells : traced[c] = {}
    /\ pc \in {"none", "scoring"} => answer = "none"
    /\ pc \in Executing /\ Full => \A c \in Matrix \ plan : "ok" \in traced[c]

Inv == TypeOK /\ Phases /\ AmendedRunIsRecorded /\ RestsOnTraces

LEMMA FullSample ==
    ASSUME Full, dataset \subseteq Cases, NEW s \in Samples
    PROVE  s = dataset
<1>1. Cardinality(dataset) <= Cardinality(Cases) /\ Cardinality(Cases) \in Nat /\ Cardinality(dataset) \in Nat
  BY CasesAssumption, FS_Subset, FS_CardinalityType
<1> QED BY <1>1, SampleAssumption DEF Full, Samples

LEMMA StartInv == Init => Inv
<1> SUFFICES ASSUME Init PROVE Inv
  OBVIOUS
<1>1. TypeOK
  <2>1. /\ traced \in [Cells -> SUBSET Endings] /\ judged \in [Cells -> SUBSET Verdicts]
        /\ stage \in [Cells -> {"out", "todo", "traced", "done"}]
        /\ \A c \in Cells : stage[c] = "out" <=> c \notin plan
    BY DEF Init, NoCells
  <2>2. left \in 0..MaxInvocations
    BY InvocationsAssumption DEF Init
  <2> QED BY <2>1, <2>2 DEF Init, TypeOK
<1>2. Phases
  BY DEF Init, Phases, Executing
<1>3. AmendedRunIsRecorded /\ RestsOnTraces
  BY DEF Init, AmendedRunIsRecorded, Amended, RestsOnTraces
<1> QED BY <1>1, <1>2, <1>3 DEF Inv

\* An invocation that begins with cells that need it, and leaves only good
\* ones alone.
LEMMA BeginInv ==
    ASSUME Inv, NEW set \in SUBSET Cells, Begin(set), answer' = "none",
           include' \in BOOLEAN, left' \in 0..MaxInvocations, dataset' = dataset,
           \A c \in set : NeedsAgain(c)',
           Full => \A c \in Matrix \ set : "ok" \in traced[c]
    PROVE  Inv'
<1> USE DEF Begin, Todo
<1>1. /\ TypeOK' /\ \A c \in set : stage'[c] = "todo"
  BY DEF Inv, TypeOK
<1>2. Phases'
  BY <1>1 DEF Phases, Executing, NeedsAgain, Full, Matrix
<1>3. AmendedRunIsRecorded' /\ RestsOnTraces'
  BY DEF Inv, AmendedRunIsRecorded, Amended, RestsOnTraces
<1> QED BY <1>1, <1>2, <1>3 DEF Inv

LEMMA LeftType ==
    ASSUME TypeOK, Invoke
    PROVE  left' \in 0..MaxInvocations /\ dataset' = dataset /\ dataset \subseteq Cases
  BY InvocationsAssumption DEF TypeOK, Invoke

LEMMA FreshRunInv == Inv /\ FreshRun => Inv'
<1> SUFFICES ASSUME Inv, FreshRun PROVE Inv'
  OBVIOUS
<1>1. PICK s \in Samples : Begin(s \X Variants)
  BY DEF FreshRun
<1>2. s \X Variants \subseteq Cells
  BY DEF Samples, Cells, Inv, TypeOK
<1>3. Full => s \X Variants = Matrix
  BY FullSample DEF Matrix, Inv, TypeOK
<1>4. include' = FALSE /\ answer' = "none" /\ left' \in 0..MaxInvocations /\ dataset' = dataset
  BY LeftType DEF FreshRun, Inv
<1>5. \A c \in s \X Variants : NeedsAgain(c)'
  BY <1>1, <1>2 DEF FreshRun, Begin, NeedsAgain, Inv, Phases
<1> QED BY <1>1, <1>2, <1>3, <1>4, <1>5, BeginInv

\* What _collect_failed_cells leaves out is good, what it takes needs it.
LEMMA ChosenCells ==
    ASSUME TypeOK, NEW s \in Samples, NEW all \in BOOLEAN
    PROVE  LET expected == s \X Variants
               chosen == FailedCells(expected, all) \cap expected
           IN  /\ chosen \subseteq Cells
               /\ \A c \in chosen : traced[c] # {"ok"} \/ (all /\ "fail" \in judged[c])
               /\ Full => \A c \in Matrix \ chosen : "ok" \in traced[c]
<1> DEFINE expected == s \X Variants
           chosen == FailedCells(expected, all) \cap expected
<1> USE DEF FailedCells, Errored, Seen, Failing
<1>1. chosen \subseteq Cells /\ expected \subseteq Cells
  BY DEF Samples, Cells, TypeOK
<1>2. \A c \in chosen : traced[c] # {"ok"} \/ (all /\ "fail" \in judged[c])
  <2> SUFFICES ASSUME NEW c \in chosen
               PROVE  traced[c] # {"ok"} \/ (all /\ "fail" \in judged[c])
    OBVIOUS
  <2>1. "error" \in traced[c] \/ traced[c] = {} \/ (all /\ "fail" \in judged[c])
    BY <1>1
  <2> QED BY <2>1
<1>3. ASSUME Full, NEW c \in Matrix \ chosen PROVE "ok" \in traced[c]
  <2>1. c \in expected
    BY <1>3, FullSample DEF Matrix, TypeOK
  <2>2. c \in Cells /\ "error" \notin traced[c] /\ traced[c] # {}
    BY <1>1, <2>1, <1>3
  <2> QED BY <2>2 DEF TypeOK, Endings
<1> QED BY <1>1, <1>2, <1>3

LEMMA RetryInv == Inv /\ Retry => Inv'
<1> SUFFICES ASSUME Inv, Retry PROVE Inv'
  OBVIOUS
<1>1. /\ include' \in BOOLEAN /\ left' \in 0..MaxInvocations
      /\ dataset' = dataset
  BY LeftType DEF Retry, Inv, TypeOK
<1>2. PICK s \in Samples :
          LET expected == s \X Variants
              chosen == FailedCells(expected, include') \cap expected
          IN  \/ Ends("refused")
              \/ chosen = {} /\ Ends("nothing")
              \/ Begin(chosen) /\ answer' = "none"
  BY DEF Retry
<1> DEFINE chosen == FailedCells(s \X Variants, include') \cap (s \X Variants)
<1>3. /\ chosen \subseteq Cells
      /\ \A c \in chosen : traced[c] # {"ok"} \/ (include' /\ "fail" \in judged[c])
      /\ Full => \A c \in Matrix \ chosen : "ok" \in traced[c]
  BY <1>1, ChosenCells DEF Inv
<1>4. CASE Begin(chosen) /\ answer' = "none"
  <2>1. \A c \in chosen : NeedsAgain(c)'
    BY <1>3, <1>4 DEF Begin, NeedsAgain
  <2> HIDE DEF chosen
  <2> QED BY <1>1, <1>3, <1>4, <2>1, BeginInv
<1>5. ASSUME NEW how \in {"refused", "nothing"}, Ends(how), how = "nothing" => chosen = {}
      PROVE  Inv'
  <2> USE <1>5 DEF Ends, NoCells
  <2>1. TypeOK'
    BY <1>1 DEF Inv, TypeOK
  <2>2. AmendedRunIsRecorded'
    BY <1>1, <1>3 DEF AmendedRunIsRecorded, Amended, Full, Matrix
  <2> QED BY <2>1, <2>2 DEF Inv, Phases, Executing, RestsOnTraces
<1> QED BY <1>2, <1>4, <1>5

-----------------------------------------------------------------------------
(* Steps of a run.                                                          *)

LEMMA ConfigInv == Inv /\ (TruncateConfig \/ WriteConfig) => Inv'
<1> SUFFICES ASSUME Inv, TruncateConfig \/ WriteConfig PROVE Inv'
  OBVIOUS
<1> USE DEF TruncateConfig, WriteConfig
<1>1. TypeOK'
  BY DEF Inv, TypeOK
<1>2. Phases'
  BY DEF Inv, Phases, Executing, NeedsAgain, Full, Matrix
<1> QED BY <1>1, <1>2 DEF Inv, AmendedRunIsRecorded, Amended, RestsOnTraces

\* SaveTrace and SaveRefusal both append a trace.
LEMMA TracedInv ==
    ASSUME Inv, NEW c \in Cells, NEW ending \in Endings,
           SaveTrace(c, ending) \/ (SaveRefusal(c) /\ ending = "error")
    PROVE  Inv'
<1>1. /\ c \in plan /\ pc' = pc /\ pc = "running" /\ plan' = plan
      /\ traced'[c] = traced[c] \cup {ending} /\ stage'[c] \in {"traced", "done"}
      /\ \A d \in Cells \ {c} : traced'[d] = traced[d] /\ stage'[d] = stage[d]
      /\ plan \subseteq Cells /\ erred' = (erred \/ ending = "error")
      /\ UNCHANGED <<judged, torn, yamls, include, answer, history>>
  BY DEF Inv, TypeOK, SaveTrace, SaveRefusal
<1>2. TypeOK'
  <2>1. /\ traced' \in [Cells -> SUBSET Endings]
        /\ stage' \in [Cells -> {"out", "todo", "traced", "done"}]
    <3>1. CASE SaveTrace(c, ending)
      BY <3>1 DEF Inv, TypeOK, SaveTrace
    <3>2. CASE SaveRefusal(c)
      BY <3>2 DEF Inv, TypeOK, SaveRefusal, Endings
    <3> QED BY <3>1, <3>2
  <2>3. erred' \in BOOLEAN
    BY <1>1
  <2>2. \A d \in Cells : stage'[d] = "out" <=> d \notin plan'
    BY <1>1 DEF Inv, TypeOK
  <2> QED BY <1>1, <2>1, <2>2, <2>3 DEF Inv, TypeOK
<1>3. Phases'
  <2>1. \A d \in plan : stage'[d] \in {"traced", "done"} =>
            traced'[d] # {} /\ ("ok" \in traced'[d] \/ erred')
    BY <1>1 DEF Inv, Phases, Executing, Endings
  <2>2. \A d \in plan : stage'[d] = "todo" => NeedsAgain(d)'
    BY <1>1 DEF Inv, Phases, Executing, NeedsAgain
  <2>3. Full => \A d \in Matrix \ plan : "ok" \in traced'[d]
    BY <1>1 DEF Inv, TypeOK, Phases, Executing, Matrix, Cells
  <2> QED BY <1>1, <2>1, <2>2, <2>3 DEF Phases, Executing, Full, Matrix
<1>4. AmendedRunIsRecorded' /\ RestsOnTraces'
  BY <1>1 DEF Inv, TypeOK, AmendedRunIsRecorded, Amended, RestsOnTraces
<1> QED BY <1>2, <1>3, <1>4 DEF Inv

\* SaveEvaluation and Score both finish a cell by appending verdicts.
LEMMA JudgedInv ==
    ASSUME Inv, NEW c \in Cells, NEW verdicts \in SUBSET Verdicts,
           SaveEvaluation(c, verdicts) \/ Score(c, verdicts)
    PROVE  Inv'
<1>1. /\ c \in plan /\ pc' = pc /\ plan' = plan /\ pc \in {"running", "scoring"}
      /\ pc = "running" => stage[c] = "traced"
      /\ traced' = traced /\ stage'[c] = "done" /\ judged'[c] = judged[c] \cup verdicts
      /\ \A d \in Cells \ {c} : judged'[d] = judged[d] /\ stage'[d] = stage[d]
      /\ plan \subseteq Cells
      /\ UNCHANGED <<torn, yamls, erred, include, answer, history>>
  BY DEF Inv, TypeOK, SaveEvaluation, Score
<1>2. TypeOK'
  BY ZenonT(60) DEF Inv, TypeOK, SaveEvaluation, Score
<1>3. traced[c] # {}
  BY <1>1 DEF Inv, Phases, Executing
<1>4. Phases'
  <2>1. \A d \in plan : stage'[d] = "todo" => stage[d] = "todo" /\ (NeedsAgain(d) => NeedsAgain(d)')
    BY <1>1 DEF NeedsAgain
  <2>2. pc = "running" => \A d \in plan : stage'[d] \in {"traced", "done"} => stage[d] \in {"traced", "done"}
    BY <1>1
  <2> QED BY <1>1, <2>1, <2>2 DEF Inv, Phases, Executing, Full, Matrix
<1>5. AmendedRunIsRecorded' /\ RestsOnTraces'
  BY <1>1, <1>3 DEF Inv, AmendedRunIsRecorded, Amended, RestsOnTraces
<1> QED BY <1>2, <1>4, <1>5 DEF Inv

LEMMA TruncateSummaryInv == Inv /\ TruncateSummary => Inv'
<1> SUFFICES ASSUME Inv, TruncateSummary PROVE Inv'
  OBVIOUS
<1> USE DEF TruncateSummary
<1>1. TypeOK'
  BY DEF Inv, TypeOK
<1>2. Phases'
  BY DEF Inv, Phases, Executing, NeedsAgain, Unfinished, Full, Matrix
<1> QED BY <1>1, <1>2 DEF Inv, AmendedRunIsRecorded, Amended, RestsOnTraces

LEMMA WriteSummaryInv == Inv /\ WriteSummary => Inv'
<1> SUFFICES ASSUME Inv, WriteSummary PROVE Inv'
  OBVIOUS
<1> USE DEF WriteSummary, NoCells
<1>1. TypeOK'
  BY DEF Inv, TypeOK
<1>2. \A c \in plan : c \in Cells /\ stage[c] = "done" /\ traced[c] # {} /\ ("ok" \in traced[c] \/ erred)
  BY DEF Inv, TypeOK, Phases, Executing, Unfinished
<1>3. AmendedRunIsRecorded'
  <2> SUFFICES ASSUME Full, ~erred, NEW c \in Matrix PROVE "ok" \in traced[c]
    BY DEF Inv, Phases, AmendedRunIsRecorded, Amended, Full, Matrix
  <2> QED BY <1>2 DEF Inv, Phases, Executing
<1>4. Phases' /\ RestsOnTraces'
  BY <1>2 DEF Inv, Phases, Executing, RestsOnTraces
<1> QED BY <1>1, <1>3, <1>4 DEF Inv

-----------------------------------------------------------------------------
(* Re-evaluation, death, and the dataset.                                   *)

LEMMA EditInv == Inv /\ EditDataset => Inv'
<1> SUFFICES ASSUME Inv, EditDataset PROVE Inv'
  OBVIOUS
<1> USE DEF EditDataset, process
<1>1. TypeOK'
  BY InvocationsAssumption DEF Inv, TypeOK
<1> QED BY <1>1 DEF Inv, Phases, Executing, AmendedRunIsRecorded, Amended, RestsOnTraces

LEMMA ReEvaluateInv == Inv /\ ReEvaluate => Inv'
<1> SUFFICES ASSUME Inv, ReEvaluate PROVE Inv'
  OBVIOUS
<1> USE DEF ReEvaluate, Todo
<1>1. TypeOK'
  BY LeftType DEF Inv, TypeOK, Seen
<1> QED BY <1>1 DEF Inv, Phases, Executing, Seen, AmendedRunIsRecorded, Amended, RestsOnTraces

LEMMA EndInv == Inv /\ (ScoringEnds \/ Dies) => Inv'
<1> SUFFICES ASSUME Inv, ScoringEnds \/ Dies PROVE Inv'
  OBVIOUS
<1> USE DEF ScoringEnds, Dies, NoCells
<1>1. TypeOK'
  BY DEF Inv, TypeOK, BeingAppended
<1>2. pc = "scoring" /\ answer' = answer => ~Amended'
  BY DEF Inv, Phases, Amended
<1>3. Phases' /\ RestsOnTraces'
  BY DEF Inv, TypeOK, Phases, Executing, RestsOnTraces
<1>4. AmendedRunIsRecorded'
  BY <1>2 DEF Inv, Phases, AmendedRunIsRecorded, Amended
<1> QED BY <1>1, <1>3, <1>4 DEF Inv

LEMMA StepInv == Inv /\ [Next]_vars => Inv'
<1> SUFFICES ASSUME Inv, [Next]_vars PROVE Inv'
  OBVIOUS
<1>1. CASE UNCHANGED vars
  <2> USE <1>1 DEF vars, process
  <2>1. TypeOK'
    BY DEF Inv, TypeOK
  <2>2. Phases'
    BY DEF Inv, Phases, Executing, NeedsAgain, Unfinished, Full, Matrix
  <2> QED BY <2>1, <2>2 DEF Inv, AmendedRunIsRecorded, Amended, RestsOnTraces
<1>2. CASE \E c \in Cells : SaveRefusal(c) \/ \E e \in Endings : SaveTrace(c, e)
  BY <1>2, TracedInv DEF Endings
<1>3. CASE \E c \in Cells, v \in SUBSET Verdicts : SaveEvaluation(c, v) \/ Score(c, v)
  BY <1>3, JudgedInv
<1> QED BY <1>1, <1>2, <1>3, FreshRunInv, RetryInv, ReEvaluateInv, EditInv, ConfigInv, TruncateSummaryInv,
           WriteSummaryInv, EndInv DEF Next

LEMMA Invariant == Spec => []Inv
  BY StartInv, StepInv, PTL DEF Spec

\* Every variable keeps its type, and exactly the planned cells have a stage.
THEOREM TypeInvariant == Spec => []TypeOK
<1>1. Inv => TypeOK
  BY DEF Inv
<1> QED BY <1>1, Invariant, PTL

\* A run that was amended to the end, or has nothing left to retry, has a good
\* trace of every cell, whatever crashed, was interrupted or failed before.
THEOREM AmendedInvariant == Spec => []AmendedRunIsRecorded
<1>1. Inv => AmendedRunIsRecorded
  BY DEF Inv
<1> QED BY <1>1, Invariant, PTL

\* No verdict and no count in a summary without a trace on disk.
THEOREM RestsInvariant == Spec => []RestsOnTraces
<1>1. Inv => RestsOnTraces
  BY DEF Inv
<1> QED BY <1>1, Invariant, PTL

\* A cell that only ever succeeded is not executed again.
THEOREM NotRepeated == Spec => SuccessIsNotRepeated
<1>1. Inv /\ [Next]_vars =>
          [\A c \in Cells : stage[c] = "todo" /\ stage'[c] = "traced" => NeedsAgain(c)]_vars
  <2> SUFFICES ASSUME Inv, Next, NEW c \in Cells, stage[c] = "todo", stage'[c] = "traced"
               PROVE  NeedsAgain(c)
    OBVIOUS
  <2>1. pc = "running"
    BY DEF Next, FreshRun, Retry, ReEvaluate, Begin, Ends, TruncateConfig, WriteConfig, TruncateSummary,
           WriteSummary, SaveTrace, SaveRefusal, EditDataset, process, SaveEvaluation, Score, ScoringEnds, Dies, Todo, NoCells, Inv, TypeOK
  <2> QED BY <2>1 DEF Inv, TypeOK, Phases, Executing
<1> QED BY <1>1, Invariant, PTL DEF Spec, SuccessIsNotRepeated

-----------------------------------------------------------------------------
(* Baselines: the arithmetic, for any two bags of rows.                      *)

LEMMA PassMapDomain == \A rows : DOMAIN PassMap(rows) = CasesOf(rows)
  BY DEF PassMap

\* No case is a regression and an improvement.
LEMMA DisjointDeltas == \A a, b : Regressions(a, b) \cap Improvements(a, b) = {}
  BY DEF Regressions, Improvements, Passed

\* The delta of the pass rates is what the listed cases make of it.
LEMMA RateCounts ==
    ASSUME NEW a, NEW b, IsFiniteSet(DOMAIN a), IsFiniteSet(DOMAIN b)
    PROVE  PassRateDelta(a, b)[1] = Cardinality(Improvements(a, b)) - Cardinality(Regressions(a, b))
<1> DEFINE union == DOMAIN a \cup DOMAIN b
           both == {c \in union : Passed(a, c) /\ Passed(b, c)}
           inA == {c \in union : Passed(a, c)}
           inB == {c \in union : Passed(b, c)}
<1>1. IsFiniteSet(union)
  BY FS_Union
<1>2. /\ IsFiniteSet(both) /\ IsFiniteSet(Improvements(a, b)) /\ IsFiniteSet(Regressions(a, b))
  <2>1. both \subseteq union /\ Improvements(a, b) \subseteq union /\ Regressions(a, b) \subseteq union
    BY DEF Improvements, Regressions
  <2> QED BY <1>1, <2>1, FS_Subset
<1>3. inA = both \cup Regressions(a, b) /\ both \cap Regressions(a, b) = {}
  BY DEF Regressions, Passed
<1>4. inB = both \cup Improvements(a, b) /\ both \cap Improvements(a, b) = {}
  BY DEF Improvements, Passed
<1>5. /\ Cardinality(both) \in Nat
      /\ Cardinality(Improvements(a, b)) \in Nat
      /\ Cardinality(Regressions(a, b)) \in Nat
  BY <1>2, FS_CardinalityType
<1> HIDE DEF both
<1>6. ASSUME NEW S, NEW T, IsFiniteSet(S), IsFiniteSet(T), S \cap T = {}
      PROVE  Cardinality(S \cup T) = Cardinality(S) + Cardinality(T)
  <2>1. Cardinality(S \cap T) = 0
    BY <1>6, FS_EmptySet
  <2>2. Cardinality(S) \in Nat /\ Cardinality(T) \in Nat
    BY <1>6, FS_CardinalityType
  <2>3. Cardinality(S \cup T) = Cardinality(S) + Cardinality(T) - Cardinality(S \cap T)
    BY <1>6, FS_Union
  <2> HIDE <1>6
  <2> QED BY <2>1, <2>2, <2>3
<1>7. /\ Cardinality(both \cup Regressions(a, b)) = Cardinality(both) + Cardinality(Regressions(a, b))
      /\ Cardinality(both \cup Improvements(a, b)) = Cardinality(both) + Cardinality(Improvements(a, b))
  BY <1>2, <1>3, <1>4, <1>6
<1>8. PassRateDelta(a, b)[1] = Cardinality(inB) - Cardinality(inA)
  BY DEF PassRateDelta
<1> HIDE DEF inA, inB
<1> QED BY <1>3, <1>4, <1>5, <1>7, <1>8

LEMMA VariantsAreOfCells == \A rows, c, v : v \in VariantsOf(rows, c) <=> <<c, v>> \in CellsOf(rows)
<1> SUFFICES ASSUME NEW rows, NEW c, NEW v
             PROVE  v \in VariantsOf(rows, c) <=> <<c, v>> \in CellsOf(rows)
  OBVIOUS
<1>1. ASSUME v \in VariantsOf(rows, c) PROVE <<c, v>> \in CellsOf(rows)
  <2>1. PICK cell \in CellsOf(rows) : cell[1] = c /\ cell[2] = v
    BY <1>1 DEF VariantsOf
  <2>2. cell = <<c, v>>
    BY <2>1 DEF CellsOf
  <2> QED BY <2>1, <2>2
<1>2. ASSUME <<c, v>> \in CellsOf(rows) PROVE v \in VariantsOf(rows, c)
  <2>1. <<c, v>>[1] = c /\ <<c, v>>[2] = v
    OBVIOUS
  <2> QED BY <1>2, <2>1 DEF VariantsOf
<1> QED BY <1>1, <1>2

\* A regression that both runs judged in the same variants is one of `compare`, too.
LEMMA CompareSeesRegressions ==
    ASSUME NEW a, NEW b, NEW c \in Regressions(PassMap(a), PassMap(b)),
           VariantsOf(a, c) = VariantsOf(b, c)
    PROVE  \E v \in VariantsOf(b, c) : <<c, v>> \in CaseDeltas(a, b).regressions
<1>1. c \in CasesOf(a) /\ PassMap(a)[c] /\ ~Passed(PassMap(b), c)
  BY PassMapDomain DEF Regressions
<1>2. \A row \in B!BagToSet(a) : row.case = c => row.ok
  BY <1>1 DEF PassMap
<1>3. \A v : v \in VariantsOf(a, c) <=> <<c, v>> \in CellsOf(a)
  BY VariantsAreOfCells
<1>4. \A v : v \in VariantsOf(b, c) <=> <<c, v>> \in CellsOf(b)
  BY VariantsAreOfCells
<1>5. PICK first \in B!BagToSet(a) : first.case = c
  BY <1>1 DEF CasesOf
<1>6. <<c, first.variant>> \in CellsOf(a)
  BY <1>5 DEF CellsOf
<1>7. <<c, first.variant>> \in CellsOf(b)
  BY <1>3, <1>4, <1>6
<1>8. c \in CasesOf(b)
  BY <1>7 DEF CellsOf, CasesOf
<1>9. ~PassMap(b)[c]
  BY <1>1, <1>8, PassMapDomain DEF Passed
<1>10. PICK row \in B!BagToSet(b) : row.case = c /\ ~row.ok
  BY <1>8, <1>9 DEF PassMap
<1> DEFINE cell == <<c, row.variant>>
<1>11. cell \in CellsOf(b) /\ cell \in CellsOf(a)
  BY <1>3, <1>4, <1>10 DEF CellsOf
<1>12. cell \in PassedCells(a)
  BY <1>2, <1>11 DEF PassedCells
<1>13. cell \notin PassedCells(b)
  BY <1>10 DEF PassedCells
<1>14. cell \in CaseDeltas(a, b).regressions
  BY <1>11, <1>12, <1>13 DEF CaseDeltas, SharedCells
<1> QED BY <1>4, <1>11, <1>14

\* A regression of `compare` makes its case fail.
LEMMA DriftSeesRegressions ==
    ASSUME NEW a, NEW b, NEW cell \in CaseDeltas(a, b).regressions, PassMap(a)[cell[1]]
    PROVE  cell[1] \in Regressions(PassMap(a), PassMap(b))
<1>1. cell \in CellsOf(a) /\ cell \in CellsOf(b) /\ cell \notin PassedCells(b)
  BY DEF CaseDeltas, SharedCells
<1>2. PICK row \in B!BagToSet(b) : <<row.case, row.variant>> = cell /\ ~row.ok
  BY <1>1 DEF PassedCells
<1>3. row.case = cell[1] /\ cell[1] \in CasesOf(b) /\ cell[1] \in CasesOf(a)
  BY <1>1, <1>2 DEF CellsOf, CasesOf
<1>4. ~PassMap(b)[cell[1]]
  BY <1>2, <1>3 DEF PassMap
<1> QED BY <1>3, <1>4, PassMapDomain DEF Regressions, Passed

LEMMA ReportOfFiniteRuns ==
    ASSUME NEW a, NEW b, IsFiniteSet(CasesOf(a)), IsFiniteSet(CasesOf(b))
    PROVE  AddsUp(a, b)
<1> DEFINE base == PassMap(a)
           curr == PassMap(b)
           report == Report(a, b)
<1>1. /\ report.regressions = Regressions(base, curr)
      /\ report.improvements = Improvements(base, curr)
      /\ report.rate = PassRateDelta(base, curr)
  BY DEF Report
<1>2. IsFiniteSet(DOMAIN base) /\ IsFiniteSet(DOMAIN curr)
  BY PassMapDomain
<1>3. report.rate[1] = Cardinality(report.improvements) - Cardinality(report.regressions)
  BY <1>1, <1>2, RateCounts
<1>4. report.regressions \cap report.improvements = {}
  BY <1>1, DisjointDeltas
<1>5. Gate(report, TRUE) = 0 => \A c \in DOMAIN base : base[c] => Passed(curr, c)
  <2>1. Gate(report, TRUE) = 0 => Regressions(base, curr) = {}
    BY <1>1 DEF Gate
  <2> QED BY <2>1 DEF Regressions
<1>6. \A c \in report.regressions : VariantsOf(a, c) = VariantsOf(b, c) =>
        \E v \in VariantsOf(b, c) : <<c, v>> \in CaseDeltas(a, b).regressions
  BY <1>1, CompareSeesRegressions
<1>7. \A cell \in CaseDeltas(a, b).regressions :
        base[cell[1]] => cell[1] \in report.regressions
  BY <1>1, DriftSeesRegressions
<1> HIDE DEF report, base, curr
<1> QED BY <1>3, <1>4, <1>5, <1>6, <1>7 DEF AddsUp, report, base, curr

-----------------------------------------------------------------------------
(* Baselines: the reports of a run.                                          *)

\* Every run has results, on finitely many cases.
FiniteResults ==
    /\ DOMAIN results = Runs
    /\ exists \subseteq Runs
    /\ \A r \in Runs : IsFiniteSet(CasesOf(results[r]))

LEMMA EmptyBagHasNoCases == CasesOf(B!EmptyBag) = {}
  BY DEF CasesOf, B!BagToSet, B!EmptyBag, B!SetToBag

LEMMA BagAddCases == \A rows, row : CasesOf(BagAdd(rows, row)) = CasesOf(rows) \cup {row.case}
<1> SUFFICES ASSUME NEW rows, NEW row
             PROVE  CasesOf(BagAdd(rows, row)) = CasesOf(rows) \cup {row.case}
  OBVIOUS
<1>1. DOMAIN BagAdd(rows, row) = DOMAIN rows \cup {row}
  BY DEF BagAdd
<1> QED BY <1>1 DEF CasesOf, B!BagToSet

LEMMA FiniteStep == FiniteResults /\ [BaselineNext]_baselineVars => FiniteResults'
<1> SUFFICES ASSUME FiniteResults, [BaselineNext]_baselineVars PROVE FiniteResults'
  OBVIOUS
<1>1. ASSUME NEW r \in Runs, AppendResult(r) PROVE FiniteResults'
  <2>1. PICK row \in Rows : results' = [results EXCEPT ![r] = BagAdd(@, row)]
    BY <1>1 DEF AppendResult
  <2>2. CasesOf(results'[r]) = CasesOf(results[r]) \cup {row.case}
    BY <2>1, BagAddCases DEF FiniteResults
  <2>3. IsFiniteSet(CasesOf(results'[r]))
    BY <2>2, FS_AddElement DEF FiniteResults
  <2>4. \A s \in Runs \ {r} : results'[s] = results[s]
    BY <2>1 DEF FiniteResults
  <2> QED BY <1>1, <2>1, <2>3, <2>4 DEF FiniteResults, AppendResult
<1>2. ASSUME NEW r \in Runs, Delete(r) PROVE FiniteResults'
  <2>1. IsFiniteSet(CasesOf(B!EmptyBag))
    BY EmptyBagHasNoCases, FS_EmptySet
  <2>2. \A s \in Runs : results'[s] = results[s] \/ results'[s] = B!EmptyBag
    BY <1>2 DEF FiniteResults, Delete
  <2> QED BY <1>2, <2>1, <2>2 DEF FiniteResults, Delete
<1>3. CASE UNCHANGED <<results, exists>>
  BY <1>3 DEF FiniteResults
<1> QED BY <1>1, <1>2, <1>3 DEF BaselineNext, baselineVars, StartDrift, CheckRun, PromoteStep, LookForTmp, Unlink,
                                Symlink, Replace, PromoteDies, ReadCurrent, ReadBaseline

\* A report of drift adds up at any time, for any two runs, and `evalh compare`
\* agrees with it where both speak of the same (_deltas.py:43-77, compare.py:143-164).
THEOREM ReportInvariant == BaselineSpec => []ReportAddsUp
<1>1. BaselineInit => FiniteResults
  BY EmptyBagHasNoCases, FS_EmptySet DEF BaselineInit, FiniteResults
<1>2. FiniteResults => ReportAddsUp
  BY ReportOfFiniteRuns DEF FiniteResults, ReportAddsUp
<1> QED BY <1>1, <1>2, FiniteStep, PTL DEF BaselineSpec

-----------------------------------------------------------------------------
(* Baselines: the promotes.                                                  *)

\* Who is not alone knows it, and what a promote that is alone has seen is so.
PromoteInv ==
    /\ promote \in [Promoters -> {"look", "unlink", "symlink", "replace"} \cup Idle]
    /\ tmp \in Runs \cup {None}
    /\ \A p, q \in Promoters : Active(p) /\ Active(q) /\ p # q => p \in shared
    /\ \A p \in Promoters \ shared :
          /\ promote[p] = "unlink" => tmp # None
          /\ promote[p] = "symlink" => tmp = None
          /\ promote[p] = "replace" => tmp = Target[p]

LEMMA PromoteInit == BaselineInit => PromoteInv
  BY DEF BaselineInit, PromoteInv, Idle, Active

\* Whoever else is in the middle of a promote while p goes on has been seen.
LEMMA GotoKeeps ==
    ASSUME PromoteInv, NEW p \in Promoters, Active(p), NEW place, Goto(p, place)
    PROVE  /\ promote'[p] = place
           /\ place \notin Idle => shared' = shared
           /\ \A q \in Promoters \ {p} : promote'[q] = promote[q] /\ (Active(q) => q \in shared')
           /\ \A q, r \in Promoters : Active(q)' /\ Active(r)' /\ q # r => q \in shared'
<1>1. promote'[p] = place /\ \A q \in Promoters \ {p} : promote'[q] = promote[q]
  BY DEF Goto, PromoteInv
<1>2. shared \ {p} \subseteq shared' /\ (place \notin Idle => shared' = shared)
  BY DEF Goto
<1>3. \A q \in Promoters \ {p} : Active(q) => q \in shared'
  BY <1>2 DEF PromoteInv
<1>4. ASSUME NEW q \in Promoters, NEW r \in Promoters, Active(q)', Active(r)', q # r
      PROVE  q \in shared'
  <2>1. CASE q = p
    <3>1. place \notin Idle /\ Active(r)
      BY <1>1, <1>4, <2>1 DEF Active
    <3> QED BY <1>2, <1>4, <2>1, <3>1 DEF PromoteInv
  <2>2. CASE q # p
    <3>1. Active(q)
      BY <1>1, <1>4, <2>2 DEF Active
    <3> QED BY <1>3, <2>2, <3>1
  <2> QED BY <2>1, <2>2
<1> QED BY <1>1, <1>2, <1>3, <1>4

LEMMA CheckRunKeeps == ASSUME PromoteInv, NEW p \in Promoters, CheckRun(p) PROVE PromoteInv'
<1> DEFINE others == {q \in Promoters \ {p} : Active(q)}
<1>1. promote' = [promote EXCEPT ![p] = "look"] /\ tmp' = tmp
  BY DEF CheckRun
<1>2. promote'[p] = "look" /\ \A q \in Promoters \ {p} : promote'[q] = promote[q]
  BY <1>1 DEF PromoteInv
<1>3. shared' = shared \cup others \cup {q \in {p} : others # {}}
  BY DEF CheckRun
<1>4. ASSUME NEW q \in Promoters, NEW r \in Promoters, Active(q)', Active(r)', q # r
      PROVE  q \in shared'
  <2>1. CASE q = p
    <3>1. r \in others
      BY <1>2, <1>4, <2>1 DEF Active
    <3> QED BY <1>3, <2>1, <3>1
  <2>2. CASE q # p
    <3>1. q \in others
      BY <1>2, <1>4, <2>2 DEF Active
    <3> QED BY <1>3, <3>1
  <2> QED BY <2>1, <2>2
<1>5. promote' \in [Promoters -> {"look", "unlink", "symlink", "replace"} \cup Idle]
  BY <1>1 DEF PromoteInv
<1>6. \A q \in Promoters \ shared' :
         /\ promote'[q] = "unlink" => tmp' # None
         /\ promote'[q] = "symlink" => tmp' = None
         /\ promote'[q] = "replace" => tmp' = Target[q]
  BY <1>1, <1>2, <1>3 DEF PromoteInv
<1> QED BY <1>1, <1>4, <1>5, <1>6 DEF PromoteInv

LEMMA PromoteStepKeeps ==
    ASSUME PromoteInv, NEW p \in Promoters, PromoteStep(p) \/ PromoteDies(p)
    PROVE  PromoteInv'
<1>1. Active(p)
  BY DEF PromoteStep, LookForTmp, Unlink, Symlink, Replace, PromoteDies, Active, Idle
<1>2. PICK place \in {"unlink", "symlink", "replace"} \cup Idle : Goto(p, place)
  BY DEF PromoteStep, LookForTmp, Unlink, Symlink, Replace, PromoteDies, Idle
<1>3. /\ promote'[p] = place
      /\ place \notin Idle => shared' = shared
      /\ \A q \in Promoters \ {p} : promote'[q] = promote[q] /\ (Active(q) => q \in shared')
      /\ \A q, r \in Promoters : Active(q)' /\ Active(r)' /\ q # r => q \in shared'
  BY <1>1, <1>2, GotoKeeps
<1>4. promote' \in [Promoters -> {"look", "unlink", "symlink", "replace"} \cup Idle]
  BY <1>2 DEF Goto, PromoteInv
<1>5. tmp' \in Runs \cup {None}
  BY TargetAssumption
     DEF PromoteStep, LookForTmp, Unlink, Symlink, Replace, PromoteDies, PromoteInv
<1>6. /\ place = "unlink" => tmp' # None
      /\ place = "symlink" => tmp' = None
      /\ place = "replace" => tmp' = Target[p]
  BY <1>2, <1>3, TargetAssumption, NoneAssumption
     DEF PromoteStep, LookForTmp, Unlink, Symlink, Replace, PromoteDies, Goto, PromoteInv, Idle
<1>7. ASSUME NEW q \in Promoters \ {p}, q \notin shared' PROVE promote'[q] \in Idle
  BY <1>3, <1>7 DEF Active
<1>8. \A q \in Promoters \ shared' :
         /\ promote'[q] = "unlink" => tmp' # None
         /\ promote'[q] = "symlink" => tmp' = None
         /\ promote'[q] = "replace" => tmp' = Target[q]
  BY <1>3, <1>6, <1>7 DEF Idle
<1> QED BY <1>3, <1>4, <1>5, <1>8 DEF PromoteInv

LEMMA PromoteInvStep == PromoteInv /\ [BaselineNext]_baselineVars => PromoteInv'
<1> SUFFICES ASSUME PromoteInv, [BaselineNext]_baselineVars PROVE PromoteInv'
  OBVIOUS
<1>1. CASE UNCHANGED promoteVars
  BY <1>1 DEF promoteVars, PromoteInv, Active
<1> QED BY <1>1, CheckRunKeeps, PromoteStepKeeps
        DEF BaselineNext, baselineVars, AppendResult, Delete, StartDrift, ReadCurrent, ReadBaseline

LEMMA PromoteStepIsAtomic ==
    PromoteInv /\ [BaselineNext]_baselineVars =>
        [/\ link # None => link' # None
         /\ \A p \in Promoters \ shared :
               /\ promote'[p] = "raised" => promote[p] = "raised"
               /\ Active(p) /\ promote'[p] = "promoted" => link' = Target[p]]_baselineVars
<1> SUFFICES ASSUME PromoteInv, BaselineNext
             PROVE  /\ link # None => link' # None
                    /\ \A p \in Promoters \ shared :
                          /\ promote'[p] = "raised" => promote[p] = "raised"
                          /\ Active(p) /\ promote'[p] = "promoted" => link' = Target[p]
  OBVIOUS
<1>1. CASE UNCHANGED <<link, promote>>
  BY <1>1 DEF Active, Idle
<1>2. ASSUME NEW p \in Promoters, CheckRun(p)
      PROVE  link' = link /\ \A q \in Promoters : promote'[q] = promote[q] \/ promote'[q] = "look"
  BY <1>2 DEF CheckRun, PromoteInv
<1>3. ASSUME NEW p \in Promoters, PromoteStep(p) \/ PromoteDies(p)
      PROVE  /\ link # None => link' # None
             /\ \A q \in Promoters \ {p} : promote'[q] = promote[q]
             /\ p \notin shared => promote'[p] # "raised"
             /\ p \notin shared /\ promote'[p] = "promoted" => link' = Target[p]
  BY <1>3, TargetAssumption, NoneAssumption
     DEF PromoteStep, LookForTmp, Unlink, Symlink, Replace, PromoteDies, Goto, PromoteInv, Idle
<1>4. \A q \in Promoters : Active(q) => promote[q] \notin {"promoted", "raised"}
  BY DEF Active, Idle
<1>5. CASE \E p \in Promoters : CheckRun(p)
  BY <1>2, <1>4, <1>5
<1>6. CASE \E p \in Promoters : PromoteStep(p) \/ PromoteDies(p)
  BY <1>3, <1>4, <1>6
<1> QED BY <1>1, <1>5, <1>6
        DEF BaselineNext, AppendResult, Delete, StartDrift, ReadCurrent, ReadBaseline, promoteVars

\* The baseline is replaced in one step, and a promote that is alone answers the
\* truth, for any number of promotes and whatever one that was killed has left
\* (baseline.py:66-75).
THEOREM AtomicPromotes == BaselineSpec => PromoteIsAtomic
<1> QED BY PromoteInit, PromoteInvStep, PromoteStepIsAtomic, PTL DEF BaselineSpec, PromoteIsAtomic
=============================================================================
