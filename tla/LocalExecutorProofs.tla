------------------------ MODULE LocalExecutorProofs ------------------------
(***************************************************************************)
(* Theorems about LocalExecutor for every plan, every configuration of the *)
(* semaphores and every set of faults.                                     *)
(***************************************************************************)
EXTENDS LocalExecutor, FiniteSetTheorems, FunctionTheorems, TLAPS

\* A semaphore's capacity is a natural number, whichever rule it comes from.
LEMMA CapType == \A s \in Sems : Cap(s) \in Nat
<1> SUFFICES ASSUME NEW v \in Variants PROVE Cap(SemOf(v)) \in Nat
  BY DEF Sems
<1>1. CASE Pool[v] \in DOMAIN PoolCap
  BY <1>1, CapAssumption DEF Cap, SemOf
<1>2. CASE Pool[v] \notin DOMAIN PoolCap /\ IsShared
  <2>1. SemOf(v) = <<"shared", None>>
    BY <1>2 DEF SemOf, VariantSem
  <2> QED BY <2>1, CapAssumption DEF Cap
<1>3. CASE Pool[v] \notin DOMAIN PoolCap /\ ~IsShared
  <2>1. SemOf(v) = <<"variant", v>>
    BY <1>3 DEF SemOf, VariantSem
  <2>2. OrElse(PerVariantCap, MaxConcurrency) \in Nat
    BY CapAssumption DEF OrElse
  <2>3. OrElse(VariantCap[v], OrElse(PerVariantCap, MaxConcurrency)) \in Nat
    BY <2>2, CapAssumption DEF OrElse
  <2> QED BY <2>1, <2>3 DEF Cap
<1> QED BY <1>1, <1>2, <1>3

LEMMA TypeInit == Init => TypeOK
<1> SUFFICES ASSUME Init PROVE TypeOK
  OBVIOUS
<1>1. permits \in [Sems -> Nat]
  BY CapType DEF Init
<1>2. summary \in [saved : BOOLEAN, agg : [Variants -> Counters], errors : SUBSET (Secondaries \X SinkOps)]
  BY DEF Init, NoSummary, Counters
<1>3. agg \in [Variants -> Counters]
  BY DEF Init, NoSummary, Counters
<1>4. mem \in [Cells -> [trace : Traces, verdict : Verdicts]] /\ disk \in [Cells -> Traces]
  BY DEF Init, NoTrace, Traces, Verdicts
<1>5. pc \in [Cells -> PCs] /\ results \in [Cells -> Verdicts]
  BY DEF Init, PCs, Outside, Verdicts
<1>6. /\ mirrored \subseteq Secondaries \X SinkOps \X Cells
      /\ sinkErrors \subseteq Secondaries \X SinkOps
  BY DEF Init
<1>7. /\ run \in RunStates /\ depth \in 0..WorkspaceCtx
      /\ kill \subseteq Cells /\ exc \subseteq Cells /\ dirs \subseteq Cells
      /\ total \in Nat
  BY DEF Init, RunStates, WorkspaceCtx
<1>8. interrupted \in BOOLEAN
  BY DEF Init
<1> QED BY <1>1, <1>2, <1>3, <1>4, <1>5, <1>6, <1>7, <1>8
        DEF TypeOK, RunTypeOK, CellTypeOK, SinkTypeOK

-----------------------------------------------------------------------------
(* The pieces of the cell actions keep the types of what they change.       *)

LEMMA SemType == \A c \in Cells : VariantOf[c] \in Variants /\ SemOf(VariantOf[c]) \in Sems
  BY CellsAssumption DEF Sems

LEMMA ReleaseType ==
  ASSUME CellTypeOK, NEW c \in Cells, Release(c)
  PROVE  permits' \in [Sems -> Nat]
  BY SemType DEF CellTypeOK, Release

LEMMA SettleType ==
  ASSUME CellTypeOK, NEW c \in Cells, Settle(c), kill' = kill, exc' = exc, mem' = mem
  PROVE  CellTypeOK'
<1>1. mem[c].trace.cost \in Nat
  BY DEF CellTypeOK, Traces
<1>2. total' \in Nat
  BY <1>1 DEF CellTypeOK, Settle
<1>3. agg' \in [Variants -> Counters]
  BY SemType DEF CellTypeOK, Settle, Add, Counters
<1>4. permits' \in [Sems -> Nat]
  BY ReleaseType DEF Settle
<1>5. pc' \in [Cells -> PCs]
  BY DEF CellTypeOK, Settle, PCs, Outside, Ended
<1> QED BY <1>2, <1>3, <1>4, <1>5 DEF CellTypeOK

LEMMA ConcludeType ==
  ASSUME CellTypeOK, NEW c \in Cells, Conclude(c), kill' = kill, exc' = exc, mem' = mem
  PROVE  CellTypeOK'
<1>1. CASE OwesCleanup(c)
  BY <1>1 DEF Conclude, CellTypeOK, sumVars, PCs
<1>2. CASE ~OwesCleanup(c)
  BY <1>2, SettleType DEF Conclude
<1> QED BY <1>1, <1>2

LEMMA RaiseType ==
  ASSUME CellTypeOK, NEW c \in Cells, Raise(c), kill' \subseteq Cells, mem' = mem
  PROVE  CellTypeOK'
<1>1. CASE OwesCleanup(c)
  BY <1>1 DEF Raise, CellTypeOK, sumVars, PCs
<1>2. CASE ~OwesCleanup(c)
  <2>1. permits' \in [Sems -> Nat]
    BY <1>2, ReleaseType DEF Raise
  <2> QED BY <1>2, <2>1 DEF Raise, CellTypeOK, sumVars, PCs, Outside, Ended
<1> QED BY <1>1, <1>2

LEMMA EffectType ==
  ASSUME CellTypeOK, SinkTypeOK, NEW c \in Cells, Effect(c) \/ UNCHANGED diskVars
  PROVE  dirs' \subseteq Cells /\ disk' \in [Cells -> Traces] /\ results' \in [Cells -> Verdicts]
<1>1. CASE UNCHANGED diskVars
  BY <1>1 DEF SinkTypeOK, diskVars
<1>2. CASE Effect(c)
  <2>1. Persisted(c) \in Traces
    BY DEF CellTypeOK, Persisted, Traces
  <2>2. mem[c].verdict \in Verdicts
    BY DEF CellTypeOK
  <2>3. disk' \in [Cells -> Traces]
    BY <1>2, <2>1 DEF Effect, SinkTypeOK
  <2>4. results' \in [Cells -> Verdicts]
    BY <1>2, <2>2 DEF Effect, SinkTypeOK
  <2>5. dirs' \subseteq Cells
    BY <1>2 DEF Effect, SinkTypeOK
  <2> QED BY <2>3, <2>4, <2>5
<1> QED BY <1>1, <1>2

LEMMA MirrorType ==
  ASSUME SinkTypeOK, NEW c \in Cells, NEW op \in SinkOps, NEW F \in SUBSET Secondaries, Mirror(op, c, F)
  PROVE  /\ mirrored' \subseteq Secondaries \X SinkOps \X Cells
         /\ sinkErrors' \subseteq Secondaries \X SinkOps
  BY DEF SinkTypeOK, Mirror

LEMMA CellStepType ==
  ASSUME TypeOK, NEW c \in Cells, CellStep(c)
  PROVE  TypeOK'
<1> USE DEF TypeOK
<1>1. ASSUME Acquire(c) PROVE CellTypeOK' /\ SinkTypeOK'
  <2>1. pc' \in [Cells -> PCs]
    BY <1>1 DEF Acquire, CellTypeOK, Goto, PCs
  <2>2. mem' \in [Cells -> [trace : Traces, verdict : Verdicts]]
    <3>1. ErrorTrace("cost_limit") \in Traces
      BY DEF ErrorTrace, Traces, Errors
    <3>2. mem' = mem \/ mem' = [mem EXCEPT ![c].trace = ErrorTrace("cost_limit")]
      BY <1>1 DEF Acquire
    <3> QED BY <3>1, <3>2 DEF CellTypeOK
  <2>3. permits' \in [Sems -> Nat]
    BY <1>1, SemType DEF Acquire, CellTypeOK, Free
  <2>4. CellTypeOK'
    BY <1>1, <2>1, <2>2, <2>3 DEF Acquire, CellTypeOK, sumVars
  <2>5. SinkTypeOK'
    BY <1>1 DEF Acquire, SinkTypeOK, diskVars, sinkVars
  <2> QED BY <2>4, <2>5
<1>2. ASSUME SaveRefusal(c) PROVE CellTypeOK' /\ SinkTypeOK'
  <2>1. CellTypeOK'
    <3>1. CASE Settle(c)
      BY <1>2, <3>1, SettleType DEF SaveRefusal
    <3>2. CASE ~Settle(c)
      BY <1>2, <3>2 DEF SaveRefusal, CellTypeOK, Goto, PCs, sumVars
    <3> QED BY <3>1, <3>2
  <2>2. SinkTypeOK'
    BY <1>2, EffectType DEF SaveRefusal, SinkTypeOK, sinkVars
  <2> QED BY <2>1, <2>2
<1>3. ASSUME MirrorRefusal(c) PROVE CellTypeOK' /\ SinkTypeOK'
  <2>1. CellTypeOK'
    BY <1>3, SettleType DEF MirrorRefusal
  <2>2. SinkTypeOK'
    BY <1>3, MirrorType DEF MirrorRefusal, SinkTypeOK, SinkOps, diskVars
  <2> QED BY <2>1, <2>2
<1>4. ASSUME Prepare(c) PROVE CellTypeOK' /\ SinkTypeOK'
  <2>1. CellTypeOK'
    BY <1>4 DEF Prepare, CellTypeOK, Goto, PCs, sumVars, IfMirrored, AfterTrace
  <2>2. SinkTypeOK'
    BY <1>4, EffectType DEF Prepare, SinkTypeOK, sinkVars
  <2> QED BY <2>1, <2>2
<1>5. ASSUME RunAdapter(c) PROVE CellTypeOK' /\ SinkTypeOK'
  <2>1. mem' \in [Cells -> [trace : Traces, verdict : Verdicts]]
    <3>1. AdapterTraces \subseteq Traces
      BY CostAssumption DEF AdapterTraces, ErrorTrace, Traces, Errors
    <3> QED BY <1>5, <3>1 DEF RunAdapter, CellTypeOK
  <2>2. CellTypeOK'
    BY <1>5, <2>1 DEF RunAdapter, CellTypeOK, Goto, AfterRun, PCs, sumVars
  <2>3. SinkTypeOK'
    BY <1>5 DEF RunAdapter, SinkTypeOK, diskVars, sinkVars
  <2> QED BY <2>2, <2>3
<1>6. ASSUME Enrich(c) PROVE CellTypeOK' /\ SinkTypeOK'
  <2>1. CellTypeOK'
    BY <1>6 DEF Enrich, Awaits, CellTypeOK, Goto, PCs, sumVars
  <2>2. SinkTypeOK'
    BY <1>6 DEF Enrich, SinkTypeOK, diskVars, sinkVars
  <2> QED BY <2>1, <2>2
<1>7. ASSUME SaveTrace(c) PROVE CellTypeOK' /\ SinkTypeOK'
  <2>1. CellTypeOK'
    BY <1>7 DEF SaveTrace, CellTypeOK, Goto, PCs, sumVars, IfMirrored, AfterTrace
  <2>2. SinkTypeOK'
    BY <1>7, EffectType DEF SaveTrace, SinkTypeOK, sinkVars
  <2> QED BY <2>1, <2>2
<1>8. ASSUME MirrorTrace(c) PROVE CellTypeOK' /\ SinkTypeOK'
  <2>1. CellTypeOK'
    BY <1>8 DEF MirrorTrace, CellTypeOK, Goto, PCs, sumVars, AfterTrace
  <2>2. SinkTypeOK'
    BY <1>8, MirrorType DEF MirrorTrace, SinkTypeOK, SinkOps, diskVars
  <2> QED BY <2>1, <2>2
<1>9. ASSUME Collect(c) PROVE CellTypeOK' /\ SinkTypeOK'
  <2>1. CellTypeOK'
    BY <1>9 DEF Collect, Awaits, CellTypeOK, Goto, PCs, IfMirrored, sumVars
  <2>2. SinkTypeOK'
    BY <1>9 DEF Collect, SinkTypeOK, diskVars, sinkVars
  <2> QED BY <2>1, <2>2
<1>10. ASSUME MirrorArtifact(c) PROVE CellTypeOK' /\ SinkTypeOK'
  <2>1. CellTypeOK'
    BY <1>10 DEF MirrorArtifact, CellTypeOK, Goto, PCs, sumVars, AfterTrace
  <2>2. SinkTypeOK'
    BY <1>10, MirrorType DEF MirrorArtifact, SinkTypeOK, SinkOps, diskVars
  <2> QED BY <2>1, <2>2
<1>11. ASSUME Evaluate(c) PROVE CellTypeOK' /\ SinkTypeOK'
  <2>1. mem' \in [Cells -> [trace : Traces, verdict : Verdicts]]
    BY <1>11 DEF Evaluate, CellTypeOK, Verdicts
  <2>2. CellTypeOK'
    BY <1>11, <2>1 DEF Evaluate, CellTypeOK, Goto, PCs, sumVars
  <2>3. SinkTypeOK'
    BY <1>11 DEF Evaluate, SinkTypeOK, diskVars, sinkVars
  <2> QED BY <2>2, <2>3
<1>12. ASSUME SaveResults(c) PROVE CellTypeOK' /\ SinkTypeOK'
  <2>1. CellTypeOK'
    <3>1. CASE Secondaries # {}
      BY <1>12, <3>1 DEF SaveResults, CellTypeOK, Goto, PCs, sumVars
    <3>2. CASE Secondaries = {}
      BY <1>12, <3>2, ConcludeType DEF SaveResults
    <3> QED BY <3>1, <3>2
  <2>2. SinkTypeOK'
    BY <1>12, EffectType DEF SaveResults, SinkTypeOK, sinkVars
  <2> QED BY <2>1, <2>2
<1>13. ASSUME MirrorResults(c) PROVE CellTypeOK' /\ SinkTypeOK'
  <2>1. CellTypeOK'
    BY <1>13, ConcludeType DEF MirrorResults
  <2>2. SinkTypeOK'
    BY <1>13, MirrorType DEF MirrorResults, SinkTypeOK, SinkOps, diskVars
  <2> QED BY <2>1, <2>2
<1>14. ASSUME Cleanup(c) PROVE CellTypeOK' /\ SinkTypeOK'
  <2>1. CellTypeOK'
    <3>1. CASE c \in exc
      BY <1>14, <3>1, RaiseType DEF Cleanup, CellTypeOK
    <3>2. CASE c \notin exc
      BY <1>14, <3>2, SettleType DEF Cleanup
    <3> QED BY <3>1, <3>2
  <2>2. SinkTypeOK'
    BY <1>14, EffectType DEF Cleanup, SinkTypeOK, sinkVars
  <2> QED BY <2>1, <2>2
<1>15. ASSUME Fails(c) PROVE CellTypeOK' /\ SinkTypeOK'
  <2>1. CellTypeOK'
    BY <1>15, RaiseType DEF Fails, CellTypeOK
  <2>2. SinkTypeOK'
    BY <1>15, EffectType DEF Fails, SinkTypeOK, sinkVars
  <2> QED BY <2>1, <2>2
<1>16. ASSUME Cancelled(c) PROVE CellTypeOK' /\ SinkTypeOK'
  <2>1. CASE pc[c] = "queued"
    <3>1. CellTypeOK'
      BY <1>16, <2>1 DEF Cancelled, CellTypeOK, Goto, PCs, Outside, Ended, sumVars
    <3>2. SinkTypeOK'
      BY <1>16, <2>1 DEF Cancelled, SinkTypeOK, diskVars
    <3> QED BY <3>1, <3>2
  <2>2. CASE pc[c] # "queued"
    <3>1. CellTypeOK'
      BY <1>16, <2>2, RaiseType DEF Cancelled, CellTypeOK
    <3>2. mirrored' \subseteq Secondaries \X SinkOps \X Cells
      <4>1. CASE pc[c] \in DOMAIN Mirrors
        <5>1. Mirrors[pc[c]] \in SinkOps
          BY <4>1 DEF Mirrors, SinkOps
        <5> QED BY <1>16, <2>2, <4>1, <5>1 DEF Cancelled, SinkTypeOK
      <4>2. CASE pc[c] \notin DOMAIN Mirrors
        BY <1>16, <2>2, <4>2 DEF Cancelled, SinkTypeOK
      <4> QED BY <4>1, <4>2
    <3>3. SinkTypeOK'
      BY <1>16, <2>2, <3>2, EffectType DEF Cancelled, SinkTypeOK
    <3> QED BY <3>1, <3>3
  <2> QED BY <2>1, <2>2
<1>17. RunTypeOK'
  <2>1. UNCHANGED runVars
    BY DEF CellStep, Acquire, SaveRefusal, MirrorRefusal, Prepare, RunAdapter, Enrich, SaveTrace,
           MirrorTrace, Collect, MirrorArtifact, Evaluate, SaveResults, MirrorResults, Cleanup,
           Fails, Cancelled
  <2> QED BY <2>1 DEF RunTypeOK, runVars
<1> QED BY <1>1, <1>2, <1>3, <1>4, <1>5, <1>6, <1>7, <1>8, <1>9, <1>10, <1>11, <1>12, <1>13, <1>14, <1>15, <1>16, <1>17 DEF CellStep

LEMMA RunStepType ==
  ASSUME TypeOK, RunStep \/ Interrupt \/ Over
  PROVE  TypeOK'
<1> USE DEF TypeOK
<1>1. CellTypeOK'
  <2>1. CASE Dispatch
    BY <2>1 DEF Dispatch, CellTypeOK, sumVars, PCs, Outside
  <2>2. CASE Leave
    BY <2>2 DEF Leave, CellTypeOK, sumVars, Live
  <2>3. CASE Interrupt
    BY <2>3 DEF Interrupt, CellTypeOK, sumVars, Live
  <2>4. CASE ~Dispatch /\ ~Leave /\ ~Interrupt
    <3>1. UNCHANGED <<cellVars, sumVars, mem, permits>>
      BY <2>4 DEF RunStep, EnterContext, OpenFails, GatherReturns, GatherRaises, SaveSummary,
                  SaveSummaryFails, MirrorSummary, ExitContext, Stop, Over, vars
    <3> QED BY <3>1 DEF CellTypeOK, cellVars, sumVars
  <2> QED BY <2>1, <2>2, <2>3, <2>4
<1>2. SinkTypeOK'
  <2>1. UNCHANGED <<diskVars, mirrored>>
    BY DEF RunStep, EnterContext, OpenFails, Dispatch, GatherReturns, GatherRaises, SaveSummary,
           SaveSummaryFails, MirrorSummary, ExitContext, Leave, Stop, Interrupt, Over, vars, sinkVars
  <2>2. sinkErrors' \subseteq Secondaries \X SinkOps
    BY DEF RunStep, EnterContext, OpenFails, Dispatch, GatherReturns, GatherRaises, SaveSummary,
           SaveSummaryFails, MirrorSummary, ExitContext, Leave, Stop, Interrupt, Over, vars, sinkVars,
           SinkTypeOK, SinkOps
  <2> QED BY <2>1, <2>2 DEF SinkTypeOK, diskVars
<1>3. RunTypeOK'
  <2>1. run' \in RunStates /\ depth' \in 0..WorkspaceCtx
    BY DEF RunStep, EnterContext, OpenFails, Dispatch, GatherReturns, GatherRaises, SaveSummary,
           SaveSummaryFails, MirrorSummary, ExitContext, Leave, Stop, Interrupt, Over, vars, runVars,
           RunTypeOK, RunStates, IfMirrored, WorkspaceCtx
  <2>2. interrupted' \in BOOLEAN
    <3>1. interrupted' = interrupted \/ interrupted' = TRUE
      BY DEF RunStep, EnterContext, OpenFails, Dispatch, GatherReturns, GatherRaises, SaveSummary,
             SaveSummaryFails, MirrorSummary, ExitContext, Leave, Stop, Interrupt, Over, vars, runVars
    <3> QED BY <3>1 DEF RunTypeOK
  <2>3. summary' \in [saved : BOOLEAN, agg : [Variants -> Counters], errors : SUBSET (Secondaries \X SinkOps)]
    <3>1. Summary \in [saved : BOOLEAN, agg : [Variants -> Counters], errors : SUBSET (Secondaries \X SinkOps)]
      BY DEF Summary, CellTypeOK, SinkTypeOK
    <3>2. summary' = summary \/ summary' = Summary
      BY DEF RunStep, EnterContext, OpenFails, Dispatch, GatherReturns, GatherRaises, SaveSummary,
             SaveSummaryFails, MirrorSummary, ExitContext, Leave, Stop, Interrupt, Over, vars, runVars
    <3> QED BY <3>1, <3>2 DEF RunTypeOK
  <2> QED BY <2>1, <2>2, <2>3 DEF RunTypeOK
<1> QED BY <1>1, <1>2, <1>3

LEMMA TypeNext == TypeOK /\ [Next]_vars => TypeOK'
<1> SUFFICES ASSUME TypeOK, [Next]_vars PROVE TypeOK'
  OBVIOUS
<1>1. CASE RunStep \/ Interrupt \/ Over
  BY <1>1, RunStepType
<1>2. CASE \E c \in Cells : CellStep(c)
  BY <1>2, CellStepType
<1>3. CASE UNCHANGED vars
  BY <1>3 DEF vars, runVars, cellVars, diskVars, sinkVars, sumVars, TypeOK, RunTypeOK, CellTypeOK, SinkTypeOK
<1> QED BY <1>1, <1>2, <1>3 DEF Next

\* In every run every variable keeps its type: in particular no semaphore of
\* the executor goes below zero.
THEOREM TypeInvariant == Spec => []TypeOK
<1>1. Init => TypeOK
  BY TypeInit
<1>2. TypeOK /\ [Next]_vars => TypeOK'
  BY TypeNext
<1> QED BY <1>1, <1>2, PTL DEF Spec

-----------------------------------------------------------------------------
(* What the canonical sink holds at each await of a cell.                   *)

\* A step of one cell leaves the row of every other cell as it was.
LEMMA OtherCells ==
  ASSUME TypeOK, NEW c \in Cells, CellStep(c), NEW d \in Cells, d # c
  PROVE  /\ pc'[d] = pc[d] /\ disk'[d] = disk[d] /\ results'[d] = results[d] /\ mem'[d] = mem[d]
         /\ d \in exc' <=> d \in exc
         /\ d \in kill' <=> d \in kill
<1> USE DEF TypeOK, CellTypeOK, SinkTypeOK
<1>1. pc'[d] = pc[d]
  BY DEF CellStep, Acquire, SaveRefusal, MirrorRefusal, Prepare, RunAdapter, Enrich, SaveTrace, MirrorTrace, Collect, MirrorArtifact, Evaluate, SaveResults, MirrorResults, Cleanup, Fails, Cancelled, Settle, Conclude, Raise, Goto
<1>2. disk'[d] = disk[d] /\ results'[d] = results[d]
  BY DEF CellStep, Acquire, SaveRefusal, MirrorRefusal, Prepare, RunAdapter, Enrich, SaveTrace, MirrorTrace, Collect, MirrorArtifact, Evaluate, SaveResults, MirrorResults, Cleanup, Fails, Cancelled, Effect, diskVars
<1>3. mem'[d] = mem[d]
  BY DEF CellStep, Acquire, SaveRefusal, MirrorRefusal, Prepare, RunAdapter, Enrich, SaveTrace, MirrorTrace, Collect, MirrorArtifact, Evaluate, SaveResults, MirrorResults, Cleanup, Fails, Cancelled
<1>4. d \in exc' <=> d \in exc
  BY DEF CellStep, Acquire, SaveRefusal, MirrorRefusal, Prepare, RunAdapter, Enrich, SaveTrace, MirrorTrace, Collect, MirrorArtifact, Evaluate, SaveResults, MirrorResults, Cleanup, Fails, Cancelled, Raise
<1>5. d \in kill' <=> d \in kill
  BY DEF CellStep, Acquire, SaveRefusal, MirrorRefusal, Prepare, RunAdapter, Enrich, SaveTrace, MirrorTrace, Collect, MirrorArtifact, Evaluate, SaveResults, MirrorResults, Cleanup, Fails, Cancelled
<1> QED BY <1>1, <1>2, <1>3, <1>4, <1>5

\* A step of a cell keeps the row of that cell.
LEMMA OwnCell ==
  ASSUME TypeOK, NEW c \in Cells, CellPhase(c), CellStep(c)
  PROVE  CellPhase(c)'
<1> USE DEF TypeOK, CellTypeOK, SinkTypeOK, CellPhase, Recorded, Ran, BeforeRecord, BeforeJudge, Ended
<1>1. CASE Acquire(c)
  BY <1>1 DEF Acquire, Awaits, Goto, ErrorTrace, diskVars
<1>2. CASE SaveRefusal(c)
  BY <1>2 DEF SaveRefusal, Awaits, Effect, Persisted, Settle, Goto
<1>3. CASE MirrorRefusal(c)
  BY <1>3 DEF MirrorRefusal, Awaits, Settle, diskVars
<1>4. CASE Prepare(c)
  BY <1>4 DEF Prepare, Awaits, Effect, Goto
<1>5. CASE RunAdapter(c)
  <2>1. \A t \in AdapterTraces : t.error \in Ran
    BY OptionAssumption DEF AdapterTraces, ErrorTrace
  <2>2. mem'[c].trace.error \in Ran
    BY <1>5, <2>1 DEF RunAdapter
  <2> QED BY <1>5, <2>2 DEF RunAdapter, Awaits, Goto, AfterRun, diskVars
<1>6. CASE Enrich(c)
  BY <1>6 DEF Enrich, Awaits, Goto, diskVars
<1>7. CASE SaveTrace(c)
  BY <1>7 DEF SaveTrace, Awaits, Effect, Persisted, Goto, IfMirrored, AfterTrace
<1>8. CASE MirrorTrace(c)
  BY <1>8 DEF MirrorTrace, Awaits, Goto, AfterTrace, diskVars
<1>9. CASE Collect(c)
  BY <1>9 DEF Collect, Awaits, Goto, IfMirrored, diskVars
<1>10. CASE MirrorArtifact(c)
  BY <1>10 DEF MirrorArtifact, Awaits, Goto, diskVars
<1>11. CASE Evaluate(c)
  BY <1>11 DEF Evaluate, Awaits, Goto, diskVars
<1>12. CASE SaveResults(c)
  BY <1>12 DEF SaveResults, Awaits, Effect, Goto, Conclude, Settle
<1>13. CASE MirrorResults(c)
  BY <1>13 DEF MirrorResults, Awaits, Conclude, Settle, diskVars
<1>14. CASE Cleanup(c)
  BY <1>14 DEF Cleanup, Awaits, Effect, Raise, Settle, diskVars, OwesCleanup
<1>15. CASE Fails(c)
  BY <1>15 DEF Fails, RaisingStage, Effect, Persisted, Raise, diskVars, OwesCleanup, Outside, Ended
<1>16. CASE Cancelled(c)
  BY <1>16 DEF Cancelled, Effect, Persisted, Raise, Goto, diskVars, OwesCleanup, Outside, Ended
<1> QED BY <1>1, <1>2, <1>3, <1>4, <1>5, <1>6, <1>7, <1>8, <1>9, <1>10, <1>11, <1>12, <1>13, <1>14, <1>15, <1>16 DEF CellStep

\* A step of the run keeps every row: it only starts the cells and cancels them.
LEMMA RunRows ==
  ASSUME TypeOK, Phases, RunStep \/ Interrupt \/ Over, NEW c \in Cells
  PROVE  CellPhase(c)'
<1> USE DEF TypeOK, CellTypeOK, SinkTypeOK, CellPhase, Recorded, Ran, BeforeRecord, BeforeJudge, Ended
<1>1. CASE Dispatch
  BY <1>1 DEF Dispatch, Phases, RunPhase, diskVars
<1>2. CASE Leave
  BY <1>2 DEF Leave, Phases, Live, diskVars
<1>3. CASE Interrupt
  BY <1>3 DEF Interrupt, Phases, Live, diskVars
<1>4. CASE ~Dispatch /\ ~Leave /\ ~Interrupt
  <2>1. UNCHANGED <<cellVars, diskVars, mem>>
    BY <1>4 DEF RunStep, EnterContext, OpenFails, GatherReturns, GatherRaises, SaveSummary,
                SaveSummaryFails, MirrorSummary, ExitContext, Stop, Over, vars
  <2> QED BY <2>1 DEF Phases, cellVars, diskVars
<1> QED BY <1>1, <1>2, <1>3, <1>4

\* Once every cell is done no cell steps, and none steps before the gather.
LEMMA NoStepOutside ==
  ASSUME TypeOK, Phases, NEW c \in Cells, CellStep(c)
  PROVE  pc[c] \notin Ended \cup {"unborn"}
  BY DEF Phases, CellPhase, CellStep, Acquire, SaveRefusal, MirrorRefusal, Prepare, RunAdapter, Enrich, SaveTrace, MirrorTrace, Collect, MirrorArtifact, Evaluate, SaveResults, MirrorResults, Cleanup, Fails, Cancelled, Awaits, RaisingStage, Ended

LEMMA PhaseNext == TypeOK /\ Phases /\ [Next]_vars => Phases'
<1> SUFFICES ASSUME TypeOK, Phases, [Next]_vars PROVE Phases'
  OBVIOUS
<1>1. CASE RunStep \/ Interrupt \/ Over
  <2>1. \A c \in Cells : CellPhase(c)'
    BY <1>1, RunRows
  <2>2. RunPhase'
    BY <1>1 DEF Phases, RunPhase, AllDone, RunStep, EnterContext, OpenFails, Dispatch, GatherReturns, GatherRaises, SaveSummary,
                SaveSummaryFails, MirrorSummary, ExitContext, Leave, Stop, Interrupt, Over, vars, runVars, cellVars, IfMirrored, Summary
  <2> QED BY <2>1, <2>2 DEF Phases
<1>2. ASSUME NEW c \in Cells, CellStep(c) PROVE Phases'
  <2>1. \A d \in Cells : CellPhase(d)'
    <3>1. CellPhase(c)'
      BY <1>2, OwnCell DEF Phases
    <3>2. ASSUME NEW d \in Cells, d # c PROVE CellPhase(d)'
      BY <1>2, <3>2, OtherCells DEF Phases, CellPhase, Recorded
    <3> QED BY <3>1, <3>2
  <2>2. UNCHANGED runVars
    BY <1>2 DEF CellStep, Acquire, SaveRefusal, MirrorRefusal, Prepare, RunAdapter, Enrich, SaveTrace,
           MirrorTrace, Collect, MirrorArtifact, Evaluate, SaveResults, MirrorResults, Cleanup,
           Fails, Cancelled
  <2>3. run \notin {"opening", "saving", "mirroringSummary", "closing", "returned"}
    BY <1>2, NoStepOutside DEF Phases, RunPhase, AllDone, Ended
  <2> QED BY <2>1, <2>2, <2>3 DEF Phases, RunPhase, runVars
<1>3. CASE UNCHANGED vars
  BY <1>3 DEF vars, runVars, cellVars, diskVars, sinkVars, sumVars, Phases, RunPhase, CellPhase, Recorded, AllDone
<1> QED BY <1>1, <1>2, <1>3 DEF Next

LEMMA PhaseInit == Init => Phases
  BY DEF Init, Phases, RunPhase, CellPhase, BeforeRecord, BeforeJudge, NoTrace, NoSummary, Recorded, Ended

\* What the canonical sink holds of a cell is what its coroutine has got to.
LEMMA PhaseInvariant == Spec => [](TypeOK /\ Phases)
<1>1. Init => TypeOK /\ Phases
  BY TypeInit, PhaseInit
<1>2. TypeOK /\ Phases /\ [Next]_vars => (TypeOK /\ Phases)'
  BY TypeNext, PhaseNext
<1> QED BY <1>1, <1>2, PTL DEF Spec

\* In every run, whatever fails and whenever it is interrupted, the canonical
\* sink holds a verdict only beside the trace it judges, never beside a refusal.
THEOREM JudgedInvariant == Spec => []JudgedAfterRecorded
<1>1. Phases => JudgedAfterRecorded
  BY DEF Phases, CellPhase, Recorded, Ran, JudgedAfterRecorded
<1> QED BY <1>1, PhaseInvariant, PTL

-----------------------------------------------------------------------------
(* LocalExecutor implements RunContract: every step of a cell is at most one *)
(* step of the contract about that cell.                                    *)

\* The sets of the contract move for the cell that steps and for no other.
LEMMA OtherMembers ==
  ASSUME TypeOK, NEW c \in Cells, CellStep(c)
  PROVE  \A d \in Cells \ {c} :
            /\ d \in WithTrace' <=> d \in WithTrace
            /\ d \in WithRefusal' <=> d \in WithRefusal
            /\ d \in WithVerdict' <=> d \in WithVerdict
            /\ d \in Counted' <=> d \in Counted
<1> TAKE d \in Cells \ {c}
<1>1. pc'[d] = pc[d] /\ disk'[d] = disk[d] /\ results'[d] = results[d]
  BY OtherCells
<1> QED BY <1>1 DEF WithTrace, WithRefusal, WithVerdict, Counted

\* The five things one step can do to the cell that takes it.
LEMMA OwnMembers ==
  ASSUME TypeOK, NEW c \in Cells, CellPhase(c), CellStep(c)
  PROVE  \/ /\ (disk'[c].error = disk[c].error) /\ (results'[c] = results[c])
            /\ (pc'[c] = "done" <=> pc[c] = "done")
         \/ /\ disk[c].error = "absent" /\ disk'[c].error \in Ran
            /\ results'[c] = results[c] /\ pc[c] # "done" /\ pc'[c] # "done"
         \/ /\ disk[c].error = "absent" /\ disk'[c].error = "cost_limit"
            /\ results'[c] = results[c] /\ pc[c] # "done"
         \/ /\ disk[c].error \in Ran /\ disk'[c].error = disk[c].error
            /\ results[c] = "none" /\ results'[c] # "none" /\ pc[c] # "done"
         \/ /\ disk[c].error = "cost_limit" \/ results[c] # "none"
            /\ disk'[c].error = disk[c].error /\ results'[c] = results[c]
            /\ pc[c] # "done" /\ pc'[c] = "done"
<1> USE DEF TypeOK, CellTypeOK, SinkTypeOK, CellPhase, Recorded, Ran, BeforeRecord, BeforeJudge, Ended
<1>1. CASE Acquire(c)
  BY <1>1 DEF Acquire, Awaits, Goto, diskVars
<1>2. CASE SaveRefusal(c)
  BY <1>2 DEF SaveRefusal, Awaits, Effect, Persisted, Settle, Goto
<1>3. CASE MirrorRefusal(c)
  BY <1>3 DEF MirrorRefusal, Awaits, Settle, diskVars
<1>4. CASE Prepare(c)
  BY <1>4 DEF Prepare, Awaits, Effect, Goto
<1>5. CASE RunAdapter(c)
  BY <1>5 DEF RunAdapter, Awaits, Goto, AfterRun, diskVars
<1>6. CASE Enrich(c)
  BY <1>6 DEF Enrich, Awaits, Goto, diskVars
<1>7. CASE SaveTrace(c)
  BY <1>7 DEF SaveTrace, Awaits, Effect, Persisted, Goto, IfMirrored, AfterTrace
<1>8. CASE MirrorTrace(c)
  BY <1>8 DEF MirrorTrace, Awaits, Goto, AfterTrace, diskVars
<1>9. CASE Collect(c)
  BY <1>9 DEF Collect, Awaits, Goto, IfMirrored, diskVars
<1>10. CASE MirrorArtifact(c)
  BY <1>10 DEF MirrorArtifact, Awaits, Goto, diskVars
<1>11. CASE Evaluate(c)
  BY <1>11 DEF Evaluate, Awaits, Goto, diskVars
<1>12. CASE SaveResults(c)
  BY <1>12 DEF SaveResults, Awaits, Effect, Goto, Conclude, Settle
<1>13. CASE MirrorResults(c)
  BY <1>13 DEF MirrorResults, Awaits, Conclude, Settle, diskVars
<1>14. CASE Cleanup(c)
  BY <1>14 DEF Cleanup, Awaits, Effect, Raise, Settle, diskVars, OwesCleanup
<1>15. CASE Fails(c)
  BY <1>15 DEF Fails, RaisingStage, Effect, Persisted, Raise, diskVars, OwesCleanup, Outside
<1>16. CASE Cancelled(c)
  BY <1>16 DEF Cancelled, Effect, Persisted, Raise, Goto, diskVars, OwesCleanup, Outside
<1> QED BY <1>1, <1>2, <1>3, <1>4, <1>5, <1>6, <1>7, <1>8, <1>9, <1>10, <1>11, <1>12, <1>13, <1>14, <1>15, <1>16 DEF CellStep

LEMMA CellStepRefines ==
  ASSUME TypeOK, Phases, NEW c \in Cells, CellStep(c)
  PROVE  [Contract!Next]_(Contract!vars)
<1>1. CellPhase(c)
  BY DEF Phases
<1>2. summary' = summary
  BY DEF CellStep, Acquire, SaveRefusal, MirrorRefusal, Prepare, RunAdapter, Enrich, SaveTrace,
         MirrorTrace, Collect, MirrorArtifact, Evaluate, SaveResults, MirrorResults, Cleanup,
         Fails, Cancelled, runVars
<1>3. CASE /\ (disk'[c].error = disk[c].error) /\ (results'[c] = results[c])
           /\ (pc'[c] = "done" <=> pc[c] = "done")
  <2>1. \A d \in Cells : /\ d \in WithTrace' <=> d \in WithTrace
                         /\ d \in WithRefusal' <=> d \in WithRefusal
                         /\ d \in WithVerdict' <=> d \in WithVerdict
                         /\ d \in Counted' <=> d \in Counted
    BY <1>3, OtherMembers DEF WithTrace, WithRefusal, WithVerdict, Counted
  <2>2. WithTrace' = WithTrace /\ WithRefusal' = WithRefusal /\ WithVerdict' = WithVerdict /\ Counted' = Counted
    BY <2>1 DEF WithTrace, WithRefusal, WithVerdict, Counted
  <2> QED BY <1>2, <2>2 DEF Contract!vars
<1>4. CASE /\ disk[c].error = "absent" /\ disk'[c].error \in Ran
           /\ results'[c] = results[c] /\ pc[c] # "done" /\ pc'[c] # "done"
  <2>1. c \notin WithTrace \cup Counted /\ WithTrace' = WithTrace \cup {c}
    BY <1>4, OtherMembers DEF WithTrace, Counted, Ran
  <2>2. WithRefusal' = WithRefusal /\ WithVerdict' = WithVerdict /\ Counted' = Counted
    BY <1>4, OtherMembers DEF WithRefusal, WithVerdict, Counted, Ran
  <2> QED BY <1>2, <2>1, <2>2 DEF Contract!Next, Contract!Record
<1>5. CASE /\ disk[c].error = "absent" /\ disk'[c].error = "cost_limit"
           /\ results'[c] = results[c] /\ pc[c] # "done"
  <2>1. c \notin WithTrace \cup Counted /\ WithTrace' = WithTrace \cup {c} /\ WithRefusal' = WithRefusal \cup {c}
    BY <1>5, OtherMembers DEF WithTrace, WithRefusal, Counted
  <2>2. WithVerdict' = WithVerdict /\ Counted' \in {Counted, Counted \cup {c}}
    BY <1>5, OtherMembers DEF WithVerdict, Counted
  <2> QED BY <1>2, <2>1, <2>2 DEF Contract!Next, Contract!Refuse
<1>6. CASE /\ disk[c].error \in Ran /\ disk'[c].error = disk[c].error
           /\ results[c] = "none" /\ results'[c] # "none" /\ pc[c] # "done"
  <2>1. c \in WithTrace \ (WithRefusal \cup WithVerdict \cup Counted)
    BY <1>6 DEF WithTrace, WithRefusal, WithVerdict, Counted, Ran
  <2>2. WithTrace' = WithTrace /\ WithRefusal' = WithRefusal
    BY <1>6, OtherMembers DEF WithTrace, WithRefusal
  <2>3. WithVerdict' = WithVerdict \cup {c} /\ Counted' \in {Counted, Counted \cup {c}}
    BY <1>6, OtherMembers DEF WithVerdict, Counted
  <2> QED BY <1>2, <2>1, <2>2, <2>3 DEF Contract!Next, Contract!Judge
<1>7. CASE /\ disk[c].error = "cost_limit" \/ results[c] # "none"
           /\ disk'[c].error = disk[c].error /\ results'[c] = results[c]
           /\ pc[c] # "done" /\ pc'[c] = "done"
  <2>1. c \in (WithRefusal \cup WithVerdict) \ Counted /\ Counted' = Counted \cup {c}
    BY <1>7, OtherMembers DEF WithRefusal, WithVerdict, Counted
  <2>2. WithTrace' = WithTrace /\ WithRefusal' = WithRefusal /\ WithVerdict' = WithVerdict
    BY <1>7, OtherMembers DEF WithTrace, WithRefusal, WithVerdict
  <2> QED BY <1>2, <2>1, <2>2 DEF Contract!Next, Contract!Count
<1> QED BY <1>1, <1>3, <1>4, <1>5, <1>6, <1>7, OwnMembers

LEMMA RunStepRefines ==
  ASSUME TypeOK, Phases, RunStep \/ Interrupt \/ Over
  PROVE  [Contract!Next]_(Contract!vars)
<1>1. UNCHANGED <<disk, results>>
  BY DEF RunStep, EnterContext, OpenFails, Dispatch, GatherReturns, GatherRaises, SaveSummary,
         SaveSummaryFails, MirrorSummary, ExitContext, Leave, Stop, Interrupt, Over, vars, diskVars
<1>2. Counted' = Counted
  BY DEF RunStep, EnterContext, OpenFails, Dispatch, GatherReturns, GatherRaises, SaveSummary,
         SaveSummaryFails, MirrorSummary, ExitContext, Leave, Stop, Interrupt, Over, vars, cellVars,
         Counted, Phases, RunPhase
<1>3. WithTrace' = WithTrace /\ WithRefusal' = WithRefusal /\ WithVerdict' = WithVerdict
  BY <1>1 DEF WithTrace, WithRefusal, WithVerdict
<1>4. summary' = summary \/ (run = "saving" /\ summary' = Summary)
  BY DEF RunStep, EnterContext, OpenFails, Dispatch, GatherReturns, GatherRaises, SaveSummary,
         SaveSummaryFails, MirrorSummary, ExitContext, Leave, Stop, Interrupt, Over, vars, runVars
<1>5. CASE summary' = summary
  BY <1>2, <1>3, <1>5 DEF Contract!vars
<1>6. CASE run = "saving" /\ summary' = Summary
  <2>1. ~summary.saved /\ summary'.saved = TRUE
    BY <1>6 DEF Phases, RunPhase, Summary
  <2>2. Counted = Cells
    BY <1>6 DEF Phases, RunPhase, AllDone, Counted
  <2> QED BY <1>2, <1>3, <2>1, <2>2 DEF Contract!Next, Contract!Publish
<1> QED BY <1>4, <1>5, <1>6

\* Every run of the executor, over every interleaving, failure and cancellation,
\* is a run of the contract: recorded, then judged, then counted, and published
\* when all are.
THEOREM RefinesContract == Spec => ImplementsContract
<1>1. Init => Contract!Init
  BY DEF Init, Contract!Init, WithTrace, WithRefusal, WithVerdict, Counted, NoTrace, NoSummary
<1>2. TypeOK /\ Phases /\ [Next]_vars => [Contract!Next]_(Contract!vars)
  <2> SUFFICES ASSUME TypeOK, Phases, [Next]_vars PROVE [Contract!Next]_(Contract!vars)
    OBVIOUS
  <2>1. CASE RunStep \/ Interrupt \/ Over
    BY <2>1, RunStepRefines
  <2>2. CASE \E c \in Cells : CellStep(c)
    BY <2>2, CellStepRefines
  <2>3. CASE UNCHANGED vars
    BY <2>3 DEF vars, runVars, cellVars, diskVars, Contract!vars, WithTrace, WithRefusal, WithVerdict, Counted
  <2> QED BY <2>1, <2>2, <2>3 DEF Next
<1> QED BY <1>1, <1>2, PhaseInvariant, PTL DEF Spec, ImplementsContract, Contract!Spec

-----------------------------------------------------------------------------
(* The permits of every semaphore.                                          *)

\* What a step does to the permit of the cell that takes it: nothing, take it
\* on the way in, give it back on the way out.
LEMMA OwnPermit ==
  ASSUME TypeOK, NEW c \in Cells, CellPhase(c), CellStep(c), NEW s, s = SemOf(VariantOf[c])
  PROVE  \/ /\ pc[c] \in Outside <=> pc'[c] \in Outside
            /\ permits' = permits
         \/ /\ pc[c] \in Outside /\ pc'[c] \notin Outside
            /\ permits' = [permits EXCEPT ![s] = @ - 1]
         \/ /\ pc[c] \notin Outside /\ pc'[c] \in Outside
            /\ permits' = [permits EXCEPT ![s] = @ + 1]
<1> USE DEF TypeOK, CellTypeOK, Outside, Ended
<1>1. CASE Acquire(c)
  BY <1>1 DEF Acquire, Awaits, Goto
<1>2. CASE SaveRefusal(c)
  BY <1>2 DEF SaveRefusal, Awaits, Settle, Release, Goto
<1>3. CASE MirrorRefusal(c)
  BY <1>3 DEF MirrorRefusal, Awaits, Settle, Release
<1>4. CASE Prepare(c)
  BY <1>4 DEF Prepare, Awaits, Goto
<1>5. CASE RunAdapter(c)
  BY <1>5 DEF RunAdapter, Awaits, Goto, AfterRun
<1>6. CASE Enrich(c)
  BY <1>6 DEF Enrich, Awaits, Goto
<1>7. CASE SaveTrace(c)
  BY <1>7 DEF SaveTrace, Awaits, Goto, IfMirrored, AfterTrace
<1>8. CASE MirrorTrace(c)
  BY <1>8 DEF MirrorTrace, Awaits, Goto, AfterTrace
<1>9. CASE Collect(c)
  BY <1>9 DEF Collect, Awaits, Goto, IfMirrored
<1>10. CASE MirrorArtifact(c)
  BY <1>10 DEF MirrorArtifact, Awaits, Goto
<1>11. CASE Evaluate(c)
  BY <1>11 DEF Evaluate, Awaits, Goto
<1>12. CASE SaveResults(c)
  BY <1>12 DEF SaveResults, Awaits, Goto, Conclude, Settle, Release
<1>13. CASE MirrorResults(c)
  BY <1>13 DEF MirrorResults, Awaits, Conclude, Settle, Release
<1>14. CASE Cleanup(c)
  BY <1>14 DEF Cleanup, Awaits, Raise, Settle, Release, OwesCleanup
<1>15. CASE Fails(c)
  BY <1>15 DEF Fails, RaisingStage, Raise, Release, OwesCleanup
<1>16. CASE Cancelled(c)
  BY <1>16 DEF Cancelled, Raise, Release, Goto, CellPhase
<1> QED BY <1>1, <1>2, <1>3, <1>4, <1>5, <1>6, <1>7, <1>8, <1>9, <1>10, <1>11, <1>12, <1>13, <1>14, <1>15, <1>16 DEF CellStep

LEMMA HoldersFinite == \A s : IsFiniteSet(Holders(s)) /\ Cardinality(Holders(s)) \in Nat
<1> TAKE s
<1>1. IsFiniteSet(Holders(s))
  BY CellsAssumption, FS_Subset DEF Holders
<1> QED BY <1>1, FS_CardinalityType

LEMMA PermitsInit == Init => PermitsConserved
<1> SUFFICES ASSUME Init, NEW s \in Sems PROVE permits[s] + Cardinality(Holders(s)) = Cap(s)
  BY DEF PermitsConserved
<1>1. Holders(s) = {}
  BY DEF Init, Holders, Outside
<1> QED BY <1>1, CapType, FS_EmptySet DEF Init

LEMMA CellStepPermits ==
  ASSUME TypeOK, Phases, PermitsConserved, NEW c \in Cells, CellStep(c), NEW s \in Sems
  PROVE  permits'[s] + Cardinality(Holders(s)') = Cap(s)
<1> DEFINE own == SemOf(VariantOf[c])
<1>1. CellPhase(c) /\ own \in Sems /\ permits[s] \in Nat
  BY SemType DEF Phases, TypeOK, CellTypeOK
<1>2. permits[s] + Cardinality(Holders(s)) = Cap(s) /\ Cap(s) \in Nat /\ Cardinality(Holders(s)) \in Nat
  BY HoldersFinite, CapType DEF PermitsConserved
<1>3. \A d \in Cells \ {c} : d \in Holders(s)' <=> d \in Holders(s)
  BY OtherCells DEF Holders
<1>4. CASE (pc[c] \in Outside <=> pc'[c] \in Outside) /\ permits' = permits
  <2>1. Holders(s)' = Holders(s)
    BY <1>3, <1>4 DEF Holders
  <2> QED BY <1>2, <1>4, <2>1
<1>5. CASE pc[c] \in Outside /\ pc'[c] \notin Outside /\ permits' = [permits EXCEPT ![own] = @ - 1]
  <2>1. CASE s = own
    <3>1. c \notin Holders(s) /\ Holders(s)' = Holders(s) \cup {c}
      BY <1>3, <1>5, <2>1 DEF Holders
    <3>2. Cardinality(Holders(s)') = Cardinality(Holders(s)) + 1
      BY <3>1, HoldersFinite, FS_AddElement
    <3>3. permits'[s] = permits[s] - 1
      BY <1>1, <1>5, <2>1 DEF TypeOK, CellTypeOK
    <3> QED BY <1>1, <1>2, <3>2, <3>3
  <2>2. CASE s # own
    <3>1. Holders(s)' = Holders(s)
      BY <1>3, <2>2 DEF Holders
    <3>2. permits'[s] = permits[s]
      BY <1>5, <2>2 DEF TypeOK, CellTypeOK
    <3> QED BY <1>2, <3>1, <3>2
  <2> QED BY <2>1, <2>2
<1>6. CASE pc[c] \notin Outside /\ pc'[c] \in Outside /\ permits' = [permits EXCEPT ![own] = @ + 1]
  <2>1. CASE s = own
    <3>1. c \in Holders(s) /\ Holders(s)' = Holders(s) \ {c}
      BY <1>3, <1>6, <2>1 DEF Holders
    <3>2. Cardinality(Holders(s)') = Cardinality(Holders(s)) - 1
      BY <3>1, HoldersFinite, FS_RemoveElement
    <3>3. permits'[s] = permits[s] + 1
      BY <1>1, <1>6, <2>1 DEF TypeOK, CellTypeOK
    <3> QED BY <1>1, <1>2, <3>2, <3>3
  <2>2. CASE s # own
    <3>1. Holders(s)' = Holders(s)
      BY <1>3, <2>2 DEF Holders
    <3>2. permits'[s] = permits[s]
      BY <1>6, <2>2 DEF TypeOK, CellTypeOK
    <3> QED BY <1>2, <3>1, <3>2
  <2> QED BY <2>1, <2>2
<1> QED BY <1>1, <1>4, <1>5, <1>6, OwnPermit

LEMMA PermitsNext == TypeOK /\ Phases /\ PermitsConserved /\ [Next]_vars => PermitsConserved'
<1> SUFFICES ASSUME TypeOK, Phases, PermitsConserved, [Next]_vars, NEW s \in Sems
             PROVE  permits'[s] + Cardinality(Holders(s)') = Cap(s)
  BY DEF PermitsConserved
<1>1. CASE RunStep \/ Interrupt \/ Over \/ UNCHANGED vars
  <2>1. permits' = permits
    BY <1>1 DEF RunStep, EnterContext, OpenFails, Dispatch, GatherReturns, GatherRaises, SaveSummary,
         SaveSummaryFails, MirrorSummary, ExitContext, Leave, Stop, Interrupt, Over, vars
  <2>2. Holders(s)' = Holders(s)
    BY <1>1 DEF RunStep, EnterContext, OpenFails, Dispatch, GatherReturns, GatherRaises, SaveSummary,
         SaveSummaryFails, MirrorSummary, ExitContext, Leave, Stop, Interrupt, Over, vars, cellVars,
         Holders, Phases, RunPhase, Outside
  <2> QED BY <2>1, <2>2 DEF PermitsConserved
<1>2. CASE \E c \in Cells : CellStep(c)
  BY <1>2, CellStepPermits
<1> QED BY <1>1, <1>2 DEF Next

\* No path out of a cell keeps a permit or gives one back twice: at every
\* moment the free permits and the cells inside add up to the capacity.
THEOREM PermitsInvariant == Spec => []PermitsConserved
<1>1. Init => TypeOK /\ Phases /\ PermitsConserved
  BY TypeInit, PhaseInit, PermitsInit
<1>2. TypeOK /\ Phases /\ PermitsConserved /\ [Next]_vars => (TypeOK /\ Phases /\ PermitsConserved)'
  BY TypeNext, PhaseNext, PermitsNext
<1> QED BY <1>1, <1>2, PTL DEF Spec

\* Whatever the pools and the caps, the cells inside a semaphore are never more
\* than its capacity.
COROLLARY CapRespected == Spec => [](\A s \in Sems : Cardinality(Holders(s)) <= Cap(s))
<1>1. TypeOK /\ PermitsConserved => \A s \in Sems : Cardinality(Holders(s)) <= Cap(s)
  BY HoldersFinite, CapType DEF TypeOK, CellTypeOK, PermitsConserved
<1> QED BY <1>1, TypeInvariant, PermitsInvariant, PTL

-----------------------------------------------------------------------------
(* Books: what a coroutine holds in memory, what the sinks hold, and what    *)
(* the summary counts.                                                      *)

\* What no step of a cell takes away, and what it leaves of the other cells.
LEMMA CellGrows ==
  ASSUME TypeOK, NEW c \in Cells, CellStep(c)
  PROVE  /\ mirrored \subseteq mirrored' /\ sinkErrors \subseteq sinkErrors' /\ summary' = summary
         /\ \A d \in Cells \ {c} : d \in dirs' <=> d \in dirs
<1>1. mirrored \subseteq mirrored' /\ sinkErrors \subseteq sinkErrors'
  BY DEF CellStep, Acquire, SaveRefusal, MirrorRefusal, Prepare, RunAdapter, Enrich, SaveTrace, MirrorTrace, Collect, MirrorArtifact, Evaluate, SaveResults, MirrorResults, Cleanup, Fails, Cancelled, Mirror, sinkVars
<1>2. summary' = summary
  BY DEF CellStep, Acquire, SaveRefusal, MirrorRefusal, Prepare, RunAdapter, Enrich, SaveTrace, MirrorTrace, Collect, MirrorArtifact, Evaluate, SaveResults, MirrorResults, Cleanup, Fails, Cancelled, runVars
<1>3. \A d \in Cells \ {c} : d \in dirs' <=> d \in dirs
  BY DEF CellStep, Acquire, SaveRefusal, MirrorRefusal, Prepare, RunAdapter, Enrich, SaveTrace, MirrorTrace, Collect, MirrorArtifact, Evaluate, SaveResults, MirrorResults, Cleanup, Fails, Cancelled, Effect, diskVars
<1> QED BY <1>1, <1>2, <1>3

\* A step of a cell either settles it or leaves the tally and the total alone.
LEMMA SettleOrNot ==
  ASSUME TypeOK, NEW c \in Cells, CellPhase(c), CellStep(c)
  PROVE  \/ Settle(c) /\ mem' = mem
         \/ UNCHANGED sumVars /\ pc'[c] # "done"
<1> USE DEF TypeOK, CellTypeOK
<1>1. CASE Acquire(c)
  BY <1>1 DEF Acquire, Goto
<1>2. CASE SaveRefusal(c)
  BY <1>2 DEF SaveRefusal, Goto
<1>3. CASE MirrorRefusal(c)
  BY <1>3 DEF MirrorRefusal
<1>4. CASE Prepare(c)
  BY <1>4 DEF Prepare, Goto
<1>5. CASE RunAdapter(c)
  BY <1>5 DEF RunAdapter, Goto, AfterRun
<1>6. CASE Enrich(c)
  BY <1>6 DEF Enrich, Goto
<1>7. CASE SaveTrace(c)
  BY <1>7 DEF SaveTrace, Goto, IfMirrored, AfterTrace
<1>8. CASE MirrorTrace(c)
  BY <1>8 DEF MirrorTrace, Goto, AfterTrace
<1>9. CASE Collect(c)
  BY <1>9 DEF Collect, Goto, IfMirrored
<1>10. CASE MirrorArtifact(c)
  BY <1>10 DEF MirrorArtifact, Goto
<1>11. CASE Evaluate(c)
  BY <1>11 DEF Evaluate, Goto
<1>12. CASE SaveResults(c)
  BY <1>12 DEF SaveResults, Goto, Conclude
<1>13. CASE MirrorResults(c)
  BY <1>13 DEF MirrorResults, Conclude
<1>14. CASE Cleanup(c)
  BY <1>14 DEF Cleanup, Raise
<1>15. CASE Fails(c)
  BY <1>15 DEF Fails, Raise
<1>16. CASE Cancelled(c)
  BY <1>16 DEF Cancelled, Raise, Goto
<1> QED BY <1>1, <1>2, <1>3, <1>4, <1>5, <1>6, <1>7, <1>8, <1>9, <1>10, <1>11, <1>12, <1>13, <1>14, <1>15, <1>16 DEF CellStep

\* A step of a cell keeps its own books.
LEMMA OwnBooks ==
  ASSUME TypeOK, NEW c \in Cells, CellPhase(c), CellBooks(c), CellStep(c)
  PROVE  CellBooks(c)'
<1> USE DEF TypeOK, CellTypeOK, SinkTypeOK, CellBooks, Concluded, BeforeAdapter, BeforeVerdict, BeforeRecord, BeforeJudge, Ended
<1>1. CASE Acquire(c)
  BY <1>1, CostAssumption DEF Acquire, Awaits, Goto, ErrorTrace, diskVars
<1>2. CASE SaveRefusal(c)
  BY <1>2 DEF SaveRefusal, Awaits, Effect, Persisted, Settle, Goto, CellPhase
<1>3. CASE MirrorRefusal(c)
  BY <1>3 DEF MirrorRefusal, Awaits, Settle, CellPhase, diskVars
<1>4. CASE Prepare(c)
  BY <1>4 DEF Prepare, Awaits, Effect, Goto
<1>5. CASE RunAdapter(c)
  <2>1. \A t \in AdapterTraces : t.cost \in Nat /\ t.cost <= MaxCost
    BY CostAssumption DEF AdapterTraces, ErrorTrace
  <2>2. mem'[c].trace.cost <= MaxCost /\ mem'[c].verdict = mem[c].verdict
    BY <1>5, <2>1 DEF RunAdapter
  <2> QED BY <1>5, <2>2 DEF RunAdapter, Awaits, Goto, AfterRun, diskVars
<1>6. CASE Enrich(c)
  BY <1>6 DEF Enrich, Awaits, Goto, diskVars
<1>7. CASE SaveTrace(c)
  BY <1>7 DEF SaveTrace, Awaits, Effect, Persisted, Goto, IfMirrored, AfterTrace
<1>8. CASE MirrorTrace(c)
  BY <1>8 DEF MirrorTrace, Awaits, Goto, AfterTrace, diskVars
<1>9. CASE Collect(c)
  BY <1>9 DEF Collect, Awaits, Goto, IfMirrored, diskVars
<1>10. CASE MirrorArtifact(c)
  BY <1>10 DEF MirrorArtifact, Awaits, Goto, diskVars
<1>11. CASE Evaluate(c)
  BY <1>11 DEF Evaluate, Awaits, Goto, diskVars
<1>12. CASE SaveResults(c)
  BY <1>12 DEF SaveResults, Awaits, Effect, Goto, Conclude, Settle
<1>13. CASE MirrorResults(c)
  BY <1>13 DEF MirrorResults, Awaits, Conclude, Settle, diskVars
<1>14. CASE Cleanup(c)
  BY <1>14 DEF Cleanup, Awaits, Effect, Raise, Settle, diskVars, OwesCleanup
<1>15. CASE Fails(c)
  BY <1>15 DEF Fails, RaisingStage, Raise, OwesCleanup, Outside
<1>16. CASE Cancelled(c)
  BY <1>16 DEF Cancelled, Raise, Goto, OwesCleanup, Outside, CellPhase
<1> QED BY <1>1, <1>2, <1>3, <1>4, <1>5, <1>6, <1>7, <1>8, <1>9, <1>10, <1>11, <1>12, <1>13, <1>14, <1>15, <1>16 DEF CellStep

\* Past the mirroring of its trace a cell has it on every secondary sink that
\* the summary will not name.
LEMMA OwnMirrored ==
  ASSUME TypeOK, NEW c \in Cells, CellPhase(c), CellMirrored(c), CellStep(c)
  PROVE  CellMirrored(c)'
<1> DEFINE There == \A s \in Secondaries : <<s, "save_trace", c>> \in mirrored \/ <<s, "save_trace">> \in sinkErrors
<1>1. There => There'
  BY CellGrows
<1>2. ASSUME NEW F \in SUBSET Secondaries, Mirror("save_trace", c, F) PROVE There'
  BY <1>2 DEF Mirror
<1>3. Secondaries = {} => There'
  OBVIOUS
<1>4. pc'[c] \in AfterMirror \/ Concluded(c)' => There'
  <2> HIDE DEF There
  <2> USE <1>1, <1>2, <1>3 DEF TypeOK, CellTypeOK, AfterMirror, Concluded
  <2>0. There \/ ~(pc[c] \in AfterMirror \/ Concluded(c))
    BY DEF CellMirrored, There
  <2>1. CASE Acquire(c)
    BY <2>1 DEF Acquire, Goto
  <2>2. CASE SaveRefusal(c)
    BY <2>2 DEF SaveRefusal, Goto
  <2>3. CASE MirrorRefusal(c)
    BY <2>3 DEF MirrorRefusal
  <2>4. CASE Prepare(c)
    BY <2>4 DEF Prepare, Goto
  <2>5. CASE RunAdapter(c)
    BY <2>5 DEF RunAdapter, Goto, AfterRun
  <2>6. CASE Enrich(c)
    BY <2>6 DEF Enrich, Goto
  <2>7. CASE SaveTrace(c)
    BY <2>7 DEF SaveTrace, Goto, IfMirrored
  <2>8. CASE MirrorTrace(c)
    BY <2>8 DEF MirrorTrace
  <2>9. CASE Collect(c) \/ MirrorArtifact(c) \/ Evaluate(c) \/ SaveResults(c) \/ MirrorResults(c)
    BY <2>0, <2>9 DEF Collect, MirrorArtifact, Evaluate, SaveResults, MirrorResults, Awaits
  <2>10. CASE Cleanup(c)
    BY <2>0, <2>10 DEF Cleanup, Awaits, Raise, OwesCleanup
  <2>11. CASE Fails(c)
    BY <2>11 DEF Fails, Raise, CellPhase
  <2>12. CASE Cancelled(c)
    BY <2>12 DEF Cancelled, Raise, Goto, CellPhase
  <2> QED BY <2>1, <2>2, <2>3, <2>4, <2>5, <2>6, <2>7, <2>8, <2>9, <2>10, <2>11, <2>12 DEF CellStep
<1> QED BY <1>4 DEF CellMirrored

\* The workspace of a cell appears when prepare ends and goes with its cleanup.
LEMMA OwnWorkspace ==
  ASSUME TypeOK, NEW c \in Cells, CellPhase(c), CellWorkspace(c), CellStep(c)
  PROVE  CellWorkspace(c)'
<1> USE DEF TypeOK, CellTypeOK, SinkTypeOK, CellWorkspace
<1>1. CASE Acquire(c)
  BY <1>1 DEF Acquire, Awaits, Goto, diskVars
<1>2. CASE SaveRefusal(c)
  BY <1>2 DEF SaveRefusal, Awaits, Effect, Settle, Goto
<1>3. CASE MirrorRefusal(c)
  BY <1>3 DEF MirrorRefusal, Awaits, Settle, diskVars
<1>4. CASE Prepare(c)
  BY <1>4 DEF Prepare, Awaits, Effect, Goto
<1>5. CASE RunAdapter(c)
  BY <1>5 DEF RunAdapter, Awaits, Goto, AfterRun, diskVars
<1>6. CASE Enrich(c)
  BY <1>6 DEF Enrich, Awaits, Goto, diskVars
<1>7. CASE SaveTrace(c)
  BY <1>7 DEF SaveTrace, Awaits, Effect, Goto, IfMirrored, AfterTrace
<1>8. CASE MirrorTrace(c)
  BY <1>8 DEF MirrorTrace, Awaits, Goto, AfterTrace, diskVars
<1>9. CASE Collect(c)
  BY <1>9 DEF Collect, Awaits, Goto, IfMirrored, diskVars
<1>10. CASE MirrorArtifact(c)
  BY <1>10 DEF MirrorArtifact, Awaits, Goto, diskVars
<1>11. CASE Evaluate(c)
  BY <1>11 DEF Evaluate, Awaits, Goto, diskVars
<1>12. CASE SaveResults(c)
  BY <1>12 DEF SaveResults, Awaits, Effect, Goto, Conclude, Settle, OwesCleanup
<1>13. CASE MirrorResults(c)
  BY <1>13 DEF MirrorResults, Awaits, Conclude, Settle, OwesCleanup, diskVars
<1>14. CASE Cleanup(c)
  BY <1>14 DEF Cleanup, Awaits, Effect, Raise, Settle, OwesCleanup, diskVars
<1>15. CASE Fails(c)
  BY <1>15 DEF Fails, RaisingStage, Effect, Raise, OwesCleanup, diskVars
<1>16. CASE Cancelled(c)
  BY <1>16 DEF Cancelled, Effect, Raise, Goto, OwesCleanup, diskVars
<1> QED BY <1>1, <1>2, <1>3, <1>4, <1>5, <1>6, <1>7, <1>8, <1>9, <1>10, <1>11, <1>12, <1>13, <1>14, <1>15, <1>16 DEF CellStep

\* The books of every other cell stay as they are.
LEMMA OtherBooks ==
  ASSUME TypeOK, NEW c \in Cells, CellStep(c), NEW d \in Cells, d # c,
         CellBooks(d), CellMirrored(d), CellWorkspace(d)
  PROVE  CellBooks(d)' /\ CellMirrored(d)' /\ CellWorkspace(d)'
<1>1. /\ pc'[d] = pc[d] /\ disk'[d] = disk[d] /\ results'[d] = results[d] /\ mem'[d] = mem[d]
      /\ d \in exc' <=> d \in exc
      /\ d \in dirs' <=> d \in dirs
  BY OtherCells, CellGrows
<1>2. Concluded(d)' <=> Concluded(d)
  BY <1>1 DEF Concluded
<1>3. CellBooks(d)'
  BY <1>1, <1>2 DEF CellBooks
<1>4. CellMirrored(d)'
  BY <1>1, <1>2, CellGrows DEF CellMirrored
<1>5. CellWorkspace(d)'
  BY <1>1 DEF CellWorkspace
<1> QED BY <1>3, <1>4, <1>5

LEMMA DoneFinite ==
  \A v : /\ IsFiniteSet(DoneOf(v)) /\ Cardinality(DoneOf(v)) \in Nat
         /\ IsFiniteSet(PassedOf(v)) /\ Cardinality(PassedOf(v)) \in Nat
         /\ IsFiniteSet(ErroredOf(v)) /\ Cardinality(ErroredOf(v)) \in Nat
<1> TAKE v
<1>1. DoneOf(v) \subseteq Cells /\ PassedOf(v) \subseteq Cells /\ ErroredOf(v) \subseteq Cells
  BY DEF DoneOf, PassedOf, ErroredOf
<1> QED BY <1>1, CellsAssumption, FS_Subset, FS_CardinalityType

\* SummaryAggregator.add counts the cell that settles and no other.
LEMMA CellTally ==
  ASSUME TypeOK, Phases, Tally, NEW c \in Cells, CellStep(c)
  PROVE  Tally'
<1> SUFFICES ASSUME NEW v \in Variants
             PROVE  agg'[v] = [total |-> Cardinality(DoneOf(v)'), passed |-> Cardinality(PassedOf(v)'),
                               errored |-> Cardinality(ErroredOf(v)')]
  BY DEF Tally
<1>1. /\ CellPhase(c) /\ pc[c] # "done" /\ c \notin DoneOf(v)
      /\ agg[v] = [total |-> Cardinality(DoneOf(v)), passed |-> Cardinality(PassedOf(v)),
                   errored |-> Cardinality(ErroredOf(v))]
  BY NoStepOutside DEF Phases, DoneOf, Tally, Ended
<1>2. \A d \in Cells \ {c} : pc'[d] = pc[d] /\ mem'[d] = mem[d]
  BY OtherCells
<1>3. CASE UNCHANGED sumVars /\ pc'[c] # "done"
  <2>1. DoneOf(v)' = DoneOf(v)
    BY <1>1, <1>2, <1>3 DEF DoneOf
  <2>2. PassedOf(v)' = PassedOf(v) /\ ErroredOf(v)' = ErroredOf(v)
    BY <1>1, <1>2, <2>1 DEF PassedOf, ErroredOf, DoneOf
  <2> QED BY <1>1, <1>3, <2>1, <2>2 DEF sumVars
<1>4. CASE Settle(c) /\ mem' = mem
  <2>1. pc'[c] = "done" /\ agg' = [agg EXCEPT ![VariantOf[c]] = Add(@, mem[c])]
    BY <1>4 DEF Settle, TypeOK, CellTypeOK
  <2>2. CASE VariantOf[c] # v
    <3>1. DoneOf(v)' = DoneOf(v)
      BY <1>1, <1>2, <2>2 DEF DoneOf
    <3>2. PassedOf(v)' = PassedOf(v) /\ ErroredOf(v)' = ErroredOf(v)
      BY <1>4, <3>1 DEF PassedOf, ErroredOf
    <3>3. agg'[v] = agg[v]
      BY <2>1, <2>2 DEF TypeOK, CellTypeOK
    <3> QED BY <1>1, <3>1, <3>2, <3>3
  <2>3. CASE VariantOf[c] = v
    <3>1. DoneOf(v)' = DoneOf(v) \cup {c}
      BY <1>1, <1>2, <2>1, <2>3 DEF DoneOf
    <3>2. /\ PassedOf(v)' = IF mem[c].verdict = "pass" THEN PassedOf(v) \cup {c} ELSE PassedOf(v)
          /\ ErroredOf(v)' = IF mem[c].trace.error # "ok" THEN ErroredOf(v) \cup {c} ELSE ErroredOf(v)
      BY <1>4, <3>1 DEF PassedOf, ErroredOf
    <3>3. c \notin PassedOf(v) /\ c \notin ErroredOf(v)
      BY <1>1 DEF PassedOf, ErroredOf
    <3>4. /\ Cardinality(DoneOf(v)') = Cardinality(DoneOf(v)) + 1
          /\ Cardinality(PassedOf(v)') = Cardinality(PassedOf(v)) + (IF mem[c].verdict = "pass" THEN 1 ELSE 0)
          /\ Cardinality(ErroredOf(v)') = Cardinality(ErroredOf(v)) + (IF mem[c].trace.error # "ok" THEN 1 ELSE 0)
      <4>1. Cardinality(DoneOf(v) \cup {c}) = Cardinality(DoneOf(v)) + 1
        BY <1>1, DoneFinite, FS_AddElement
      <4>2. /\ Cardinality(PassedOf(v) \cup {c}) = Cardinality(PassedOf(v)) + 1
            /\ Cardinality(ErroredOf(v) \cup {c}) = Cardinality(ErroredOf(v)) + 1
        BY <3>3, DoneFinite, FS_AddElement
      <4> QED BY <3>1, <3>2, <4>1, <4>2, DoneFinite
    <3>5. agg'[v] = Add(agg[v], mem[c])
      BY <2>1, <2>3 DEF TypeOK, CellTypeOK
    <3> QED BY <1>1, <3>4, <3>5 DEF Add
  <2> QED BY <2>2, <2>3
<1> QED BY <1>1, <1>3, <1>4, SettleOrNot

LEMMA CellStepBooks ==
  ASSUME TypeOK, Phases, Books, NEW c \in Cells, CellStep(c)
  PROVE  Books'
<1>1. CellPhase(c) /\ CellBooks(c) /\ CellMirrored(c) /\ CellWorkspace(c)
  BY DEF Phases, Books
<1>2. ASSUME NEW d \in Cells PROVE CellBooks(d)' /\ CellMirrored(d)' /\ CellWorkspace(d)'
  <2>1. CASE d = c
    BY <1>1, <2>1, OwnBooks, OwnMirrored, OwnWorkspace
  <2>2. CASE d # c
    BY <2>2, OtherBooks DEF Books
  <2> QED BY <2>1, <2>2
<1>3. Tally'
  BY CellTally DEF Books
<1>4. Published'
  <2>1. pc[c] # "done" /\ summary' = summary
    BY NoStepOutside, CellGrows DEF Ended
  <2>2. ~summary.saved
    BY <2>1 DEF Books, Published, AllDone
  <2> QED BY <2>1, <2>2 DEF Published
<1> QED BY <1>2, <1>3, <1>4 DEF Books

\* run_eval itself takes nothing from a cell; SaveSummary publishes the tally.
LEMMA RunStepBooks ==
  ASSUME TypeOK, Phases, Books, RunStep \/ Interrupt \/ Over
  PROVE  Books'
<1>1. /\ UNCHANGED <<exc, diskVars, mirrored, sumVars, mem>>
      /\ sinkErrors \subseteq sinkErrors'
  BY DEF RunStep, EnterContext, OpenFails, Dispatch, GatherReturns, GatherRaises, SaveSummary,
         SaveSummaryFails, MirrorSummary, ExitContext, Leave, Stop, Interrupt, Over, vars, cellVars, sinkVars
<1>2. \/ pc' = pc
      \/ \A c \in Cells : pc[c] = "unborn" /\ pc'[c] = "queued"
  BY DEF RunStep, EnterContext, OpenFails, Dispatch, GatherReturns, GatherRaises, SaveSummary,
         SaveSummaryFails, MirrorSummary, ExitContext, Leave, Stop, Interrupt, Over, vars, cellVars,
         Phases, RunPhase
<1>3. ASSUME NEW c \in Cells PROVE CellBooks(c)' /\ CellMirrored(c)' /\ CellWorkspace(c)'
  <2>1. CellBooks(c) /\ CellMirrored(c) /\ CellWorkspace(c)
    BY DEF Books
  <2>2. Concluded(c)' <=> Concluded(c)
    BY <1>1, <1>2 DEF Concluded
  <2>3. CellBooks(c)'
    BY <1>1, <1>2, <2>1, <2>2 DEF CellBooks, BeforeAdapter, BeforeVerdict, BeforeRecord, BeforeJudge, diskVars
  <2>4. CellMirrored(c)'
    BY <1>1, <1>2, <2>1, <2>2 DEF CellMirrored, AfterMirror
  <2>5. CellWorkspace(c)'
    BY <1>1, <1>2, <2>1 DEF CellWorkspace, diskVars
  <2> QED BY <2>3, <2>4, <2>5
<1>4. Tally'
  <2>1. ASSUME NEW v PROVE DoneOf(v)' = DoneOf(v) /\ PassedOf(v)' = PassedOf(v) /\ ErroredOf(v)' = ErroredOf(v)
    BY <1>1, <1>2 DEF DoneOf, PassedOf, ErroredOf
  <2> QED BY <1>1, <2>1 DEF Books, Tally, sumVars
<1>5. Published'
  <2>1. CASE summary' = summary /\ sinkErrors' = sinkErrors
    BY <1>1, <1>2, <2>1 DEF Books, Published, AllDone, sumVars
  <2>2. CASE run = "saving" /\ summary' = Summary
    <3>1. sinkErrors' = sinkErrors /\ pc' = pc /\ AllDone
      BY <2>2 DEF RunStep, EnterContext, OpenFails, Dispatch, GatherReturns, GatherRaises, SaveSummary,
             SaveSummaryFails, MirrorSummary, ExitContext, Leave, Stop, Interrupt, Over, vars, cellVars, sinkVars,
             Phases, RunPhase
    <3> QED BY <1>1, <2>2, <3>1 DEF Published, AllDone, Summary, sumVars
  <2>3. CASE EnterContext \/ Dispatch
    BY <2>3 DEF EnterContext, Dispatch, Phases, RunPhase, Published
  <2>4. CASE MirrorSummary
    <3>1. sinkErrors' \subseteq sinkErrors \cup (Secondaries \X {"save_summary"}) /\ summary' = summary /\ pc' = pc
      BY <2>4 DEF MirrorSummary, cellVars
    <3> QED BY <1>1, <3>1 DEF Books, Published, AllDone, sumVars
  <2> QED BY <2>1, <2>2, <2>3, <2>4 DEF RunStep, OpenFails, GatherReturns, GatherRaises, SaveSummary,
             SaveSummaryFails, ExitContext, Leave, Stop, Interrupt, Over, vars, sinkVars, runVars
<1> QED BY <1>3, <1>4, <1>5 DEF Books

LEMMA BooksNext == TypeOK /\ Phases /\ Books /\ [Next]_vars => Books'
<1> SUFFICES ASSUME TypeOK, Phases, Books, [Next]_vars PROVE Books'
  OBVIOUS
<1>1. CASE RunStep \/ Interrupt \/ Over
  BY <1>1, RunStepBooks
<1>2. CASE \E c \in Cells : CellStep(c)
  BY <1>2, CellStepBooks
<1>3. CASE UNCHANGED vars
  BY <1>3, RunStepBooks DEF Over, vars, runVars, cellVars, diskVars, sinkVars, sumVars, Books, Tally, Published,
     CellBooks, CellMirrored, CellWorkspace, Concluded, DoneOf, PassedOf, ErroredOf, AllDone
<1> QED BY <1>1, <1>2, <1>3 DEF Next

LEMMA BooksInit == Init => Books
<1> SUFFICES ASSUME Init PROVE Books
  OBVIOUS
<1>1. \A c \in Cells : CellBooks(c) /\ CellMirrored(c) /\ CellWorkspace(c)
  BY CostAssumption DEF Init, CellBooks, CellMirrored, CellWorkspace, Concluded, AfterMirror, BeforeJudge, NoTrace
<1>2. Tally
  <2>1. \A v : DoneOf(v) = {} /\ PassedOf(v) = {} /\ ErroredOf(v) = {}
    BY DEF Init, DoneOf, PassedOf, ErroredOf
  <2> QED BY <2>1, FS_EmptySet DEF Init, Tally, NoSummary
<1>3. Published
  BY DEF Init, Published, NoSummary
<1> QED BY <1>1, <1>2, <1>3 DEF Books

LEMMA BooksInvariant == Spec => [](TypeOK /\ Phases /\ Books)
<1>1. Init => TypeOK /\ Phases /\ Books
  BY TypeInit, PhaseInit, BooksInit
<1>2. TypeOK /\ Phases /\ Books /\ [Next]_vars => (TypeOK /\ Phases /\ Books)'
  BY TypeNext, PhaseNext, BooksNext
<1> QED BY <1>1, <1>2, PTL DEF Spec

\* The published summary counts, per variant, exactly the cells, passes and
\* errors that the canonical sink holds, whatever failed on the way.
THEOREM SummaryInvariant == Spec => []SummaryAgreesWithSink
<1>1. TypeOK /\ Phases /\ Books => SummaryAgreesWithSink
  <2> SUFFICES ASSUME Books, summary.saved, NEW v \in Variants
               PROVE  summary.agg[v] = [total |-> Cardinality({c \in Cells : VariantOf[c] = v /\ TRUE}),
                                        passed |-> Cardinality({c \in Cells : VariantOf[c] = v /\ results[c] = "pass"}),
                                        errored |-> Cardinality({c \in Cells : VariantOf[c] = v /\ disk[c].error # "ok"})]
    BY DEF SummaryAgreesWithSink, SumOver
  <2>1. \A c \in Cells : pc[c] = "done" /\ disk[c].error = mem[c].trace.error /\ results[c] = mem[c].verdict
    BY DEF Books, Published, AllDone, CellBooks, Concluded
  <2>2. DoneOf(v) = {c \in Cells : VariantOf[c] = v /\ TRUE}
    BY <2>1 DEF DoneOf
  <2>3. PassedOf(v) = {c \in Cells : VariantOf[c] = v /\ results[c] = "pass"}
    BY <2>1 DEF PassedOf, DoneOf
  <2>4. ErroredOf(v) = {c \in Cells : VariantOf[c] = v /\ disk[c].error # "ok"}
    BY <2>1 DEF ErroredOf, DoneOf
  <2>5. summary.agg[v] = [total |-> Cardinality(DoneOf(v)), passed |-> Cardinality(PassedOf(v)),
                          errored |-> Cardinality(ErroredOf(v))]
    BY DEF Books, Tally, Published
  <2> QED BY <2>2, <2>3, <2>4, <2>5
<1> QED BY <1>1, BooksInvariant, PTL

\* No trace is lost on a secondary sink in silence: the published summary names
\* every sink that does not hold the trace of every cell.
THEOREM LossInvariant == Spec => []SummaryNamesLossySinks
<1>1. Books => SummaryNamesLossySinks
  <2> SUFFICES ASSUME Books, summary.saved, NEW s \in Secondaries, NEW c \in Cells
               PROVE  <<s, "save_trace", c>> \in mirrored \/ <<s, "save_trace">> \in summary.errors
    BY DEF SummaryNamesLossySinks
  <2>1. <<s, "save_trace", c>> \in mirrored \/ <<s, "save_trace">> \in sinkErrors
    BY DEF Books, Published, AllDone, CellMirrored, Concluded
  <2>2. <<s, "save_trace">> \notin Secondaries \X {"save_summary"}
    OBVIOUS
  <2> QED BY <2>1, <2>2 DEF Books, Published
<1> QED BY <1>1, BooksInvariant, PTL

\* The step that ends an uncancelled cell after prepare gave it a workspace is a
\* step that removes it, on whichever path the cell got there.
THEOREM WorkspaceRemoved == Spec => UncancelledCellRemovesWorkspace
<1>1. TypeOK /\ Phases /\ Books /\ [Next]_vars =>
        [\A c \in Cells \ kill :
            pc[c] \notin Ended \cup {"preparing"} /\ pc'[c] \in Ended =>
              c \notin dirs' \/ (pc[c] = "cleanup" /\ "cleanup" \in Faults)]_vars
  <2> SUFFICES ASSUME TypeOK, Phases, Books, Next, NEW c \in Cells \ kill,
                      pc[c] \notin Ended \cup {"preparing"}, pc'[c] \in Ended
               PROVE  c \notin dirs' \/ (pc[c] = "cleanup" /\ "cleanup" \in Faults)
    OBVIOUS
  <2>1. CellPhase(c) /\ CellWorkspace(c)
    BY DEF Phases, Books
  <2>2. CASE RunStep \/ Interrupt \/ Over
    <3>1. pc' = pc \/ pc' = [d \in Cells |-> "queued"]
      BY <2>2 DEF RunStep, EnterContext, OpenFails, Dispatch, GatherReturns, GatherRaises, SaveSummary,
         SaveSummaryFails, MirrorSummary, ExitContext, Leave, Stop, Interrupt, Over, vars, cellVars
    <3> QED BY <3>1 DEF Ended
  <2>3. ASSUME NEW d \in Cells, CellStep(d), d # c PROVE FALSE
    BY <2>3, OtherCells
  <2>4. CASE CellStep(c)
    <3> USE <2>1 DEF TypeOK, CellTypeOK, SinkTypeOK, CellWorkspace, Ended
    <3>1. CASE Acquire(c) \/ Prepare(c) \/ RunAdapter(c) \/ Enrich(c) \/ SaveTrace(c) \/ MirrorTrace(c)
               \/ Collect(c) \/ MirrorArtifact(c) \/ Evaluate(c)
      BY <3>1 DEF Acquire, Prepare, RunAdapter, Enrich, SaveTrace, MirrorTrace, Collect, MirrorArtifact,
                  Evaluate, Goto, AfterRun, AfterTrace, IfMirrored
    <3>2. CASE SaveRefusal(c)
      BY <3>2 DEF SaveRefusal, Awaits, Effect
    <3>3. CASE MirrorRefusal(c)
      BY <3>3 DEF MirrorRefusal, Awaits, diskVars
    <3>4. CASE SaveResults(c)
      BY <3>4 DEF SaveResults, Awaits, Effect, Goto, Conclude, OwesCleanup, Outside
    <3>5. CASE MirrorResults(c)
      BY <3>5 DEF MirrorResults, Awaits, Conclude, OwesCleanup, Outside, diskVars
    <3>6. CASE Cleanup(c)
      BY <3>6 DEF Cleanup, Awaits, Effect
    <3>7. CASE Fails(c)
      BY <3>7 DEF Fails, RaisingStage, Effect, Raise, OwesCleanup, Outside, diskVars
    <3> QED BY <2>4, <3>1, <3>2, <3>3, <3>4, <3>5, <3>6, <3>7 DEF CellStep, Cancelled
  <2> QED BY <2>2, <2>3, <2>4 DEF Next
<1> QED BY <1>1, BooksInvariant, PTL DEF Spec, UncancelledCellRemovesWorkspace

-----------------------------------------------------------------------------
(* Budget: the soft cost guard.  A cell that may spend holds a permit, there *)
(* are Capacity permits, and the guard lets no cell in at the limit.        *)

\* The permits are finitely many.
LEMMA SlotsFinite == IsFiniteSet(Slots) /\ Capacity \in Nat
<1>1. IsFiniteSet(Sems)
  <2> DEFINE f == [v \in Variants |-> SemOf(v)]
  <2>1. f \in Surjection(Variants, Sems)
    BY DEF Surjection, Sems
  <2> QED BY <2>1, CellsAssumption, FS_Surjection
<1>2. IsFiniteSet({{s} \X (1..Cap(s)) : s \in Sems})
  <2> DEFINE T == {{s} \X (1..Cap(s)) : s \in Sems}
             f == [s \in Sems |-> {s} \X (1..Cap(s))]
  <2>1. f \in Surjection(Sems, T)
    BY DEF Surjection
  <2> QED BY <1>1, <2>1, FS_Surjection
<1>3. \A s \in Sems : IsFiniteSet({s} \X (1..Cap(s)))
  <2> TAKE s \in Sems
  <2>0. Cap(s) \in Int /\ 1 \in Int
    BY CapType
  <2>1. IsFiniteSet({s}) /\ IsFiniteSet(1..Cap(s))
    BY <2>0, FS_Singleton, FS_Interval
  <2> QED BY <2>1, FS_Product
<1>4. IsFiniteSet(Slots)
  BY <1>2, <1>3, FS_UNION DEF Slots
<1> QED BY <1>4, FS_CardinalityType DEF Capacity

Inside == {c \in Cells : pc[c] \notin Outside}

\* Every cell inside has a slot of its own.
LEMMA InsideBounded ==
  ASSUME TypeOK, PermitsConserved
  PROVE  IsFiniteSet(Inside) /\ Cardinality(Inside) \in Nat /\ Cardinality(Inside) <= Capacity
<1>1. \A s \in Sems : Injection(Holders(s), 1..Cap(s)) # {}
  <2> TAKE s \in Sems
  <2> DEFINE n == Cardinality(Holders(s))
  <2>1. n \in Nat /\ Cap(s) \in Nat /\ n <= Cap(s) /\ IsFiniteSet(Holders(s))
    BY HoldersFinite, CapType DEF TypeOK, CellTypeOK, PermitsConserved
  <2>2. ExistsBijection(1..n, Holders(s))
    BY <2>1, FS_CardinalityType
  <2>3. ExistsBijection(Holders(s), 1..n)
    BY <2>2, Fun_ExistsBijSymmetric
  <2> QED BY <2>1, <2>3 DEF ExistsBijection, Bijection, Injection
<1> DEFINE g == [s \in Sems |-> CHOOSE f \in Injection(Holders(s), 1..Cap(s)) : TRUE]
           h == [c \in Inside |-> <<SemOf(VariantOf[c]), g[SemOf(VariantOf[c])][c]>>]
<1>2. \A s \in Sems : g[s] \in Injection(Holders(s), 1..Cap(s))
  BY <1>1
<1>3. \A c \in Inside : SemOf(VariantOf[c]) \in Sems /\ c \in Holders(SemOf(VariantOf[c]))
  BY SemType DEF Inside, Holders
<1> HIDE DEF g
<1>4. \A c \in Inside : g[SemOf(VariantOf[c])][c] \in 1..Cap(SemOf(VariantOf[c]))
  BY <1>2, <1>3 DEF Injection
<1>5. \A c \in Inside : h[c] \in Slots
  BY <1>3, <1>4 DEF Slots
<1>6. ASSUME NEW c \in Inside, NEW d \in Inside, h[c] = h[d] PROVE c = d
  <2>1. SemOf(VariantOf[c]) = SemOf(VariantOf[d])
    BY <1>6
  <2>2. g[SemOf(VariantOf[c])][c] = g[SemOf(VariantOf[c])][d]
    BY <1>6, <2>1
  <2>3. \A x, y \in Holders(SemOf(VariantOf[c])) :
           g[SemOf(VariantOf[c])][x] = g[SemOf(VariantOf[c])][y] => x = y
    BY <1>2, <1>3, Fun_InjectionProperties
  <2> QED BY <1>3, <2>1, <2>2, <2>3
<1>7. h \in Injection(Inside, Slots)
  <2>1. h \in [Inside -> Slots] /\ \A c, d \in Inside : h[c] = h[d] => c = d
    BY <1>5, <1>6
  <2> HIDE DEF h
  <2> QED BY <2>1, Fun_IsInj
<1>8. IsFiniteSet(Inside) /\ Cardinality(Inside) <= Capacity
  BY <1>7, SlotsFinite, FS_Injection DEF Capacity
<1> QED BY <1>8, FS_CardinalityType

LEMMA SpendingBounded ==
  ASSUME TypeOK, PermitsConserved
  PROVE  IsFiniteSet(Spending) /\ Cardinality(Spending) \in Nat /\ Cardinality(Spending) <= Capacity
<1>1. Spending \in SUBSET Inside
  BY DEF Spending, Inside
<1>2. IsFiniteSet(Spending) /\ Cardinality(Spending) <= Cardinality(Inside)
  BY <1>1, InsideBounded, FS_Subset
<1> QED BY <1>2, InsideBounded, SlotsFinite, FS_CardinalityType

WithinCapacity == Cardinality(Spending) \in Nat /\ Cardinality(Spending) <= Capacity

LEMMA SpendingBoundedNext == TypeOK' /\ PermitsConserved' => WithinCapacity'
<1>1. TypeOK /\ PermitsConserved => WithinCapacity
  BY SpendingBounded DEF WithinCapacity
<1> QED BY <1>1, PTL

LEMMA TimesMonotone ==
  ASSUME NEW m \in Nat, NEW i \in Nat, NEW j \in Nat, i <= j
  PROVE  m * i \in Nat /\ m * j \in Nat /\ m * i <= m * j
  OBVIOUS

LEMMA TimesSuccessor ==
  ASSUME NEW m \in Nat, NEW i \in Nat
  PROVE  m * (i + 1) = m * i + m
  OBVIOUS

\* What a step of a cell does to the total and to the cells that may spend: only
\* a settled cell is added, and only below the limit is one let in.
LEMMA OwnSpending ==
  ASSUME TypeOK, Phases, NEW c \in Cells, CellBooks(c), CellStep(c)
  PROVE  \/ total' = total /\ (c \in Spending' => c \in Spending)
         \/ total' = total /\ ~CheckLimit
         \/ total' = total + mem[c].trace.cost /\ c \notin Spending' /\ (c \in Spending \/ mem[c].trace.cost = 0)
<1> DEFINE Quiet == Outside \cup {"refusing", "mirroringRefusal"}
<1>1. (c \in Spending <=> pc[c] \notin Quiet) /\ (c \in Spending' <=> pc'[c] \notin Quiet)
  BY DEF Spending
<1>2. pc[c] \in Quiet => pc[c] \in {"queued", "refusing", "mirroringRefusal"}
  BY NoStepOutside DEF Outside, Ended
<1>3. CASE Settle(c)
  <2>1. pc'[c] = "done" /\ total' = total + mem[c].trace.cost
    BY <1>3 DEF Settle, TypeOK, CellTypeOK
  <2>2. pc[c] \in Quiet => mem[c].trace.cost = 0
    BY <1>2 DEF CellBooks, BeforeAdapter
  <2> QED BY <1>1, <2>1, <2>2 DEF Outside, Ended
<1>4. CASE total' = total /\ pc[c] \in Quiet /\ ~Settle(c)
  <2>1. CASE Acquire(c)
    BY <1>1, <1>4, <2>1 DEF Acquire, Goto, TypeOK, CellTypeOK
  <2>2. CASE SaveRefusal(c)
    BY <1>1, <1>4, <2>2 DEF SaveRefusal, Goto, TypeOK, CellTypeOK
  <2>3. CASE MirrorRefusal(c)
    BY <1>4, <2>3 DEF MirrorRefusal
  <2>4. CASE Fails(c) \/ Cancelled(c)
    BY <1>1, <1>2, <1>4, <2>4 DEF Fails, Cancelled, Raise, OwesCleanup, Goto, Outside, Ended, TypeOK, CellTypeOK
  <2> QED BY <1>2, <1>4, <2>1, <2>2, <2>3, <2>4 DEF CellStep, Prepare, RunAdapter, Enrich, SaveTrace,
        MirrorTrace, Collect, MirrorArtifact, Evaluate, SaveResults, MirrorResults, Cleanup, Awaits
<1>5. Settle(c) \/ total' = total
  BY SettleOrNot DEF Phases, sumVars
<1> QED BY <1>1, <1>3, <1>4, <1>5

LEMMA CellBudget ==
  ASSUME TypeOK, Phases, Books, PermitsConserved, PermitsConserved', TypeOK', Budget, NEW c \in Cells, CellStep(c)
  PROVE  Budget'
<1> SUFFICES ASSUME CostLimit # None
             PROVE  IF CostLimit = 0 THEN total' = 0 /\ Spending' = {}
                    ELSE total' + MaxCost * Cardinality(Spending') < CostLimit + MaxCost * Capacity
  BY DEF Budget
<1>1. /\ CostLimit \in Nat /\ MaxCost \in Nat /\ Capacity \in Nat /\ total \in Nat
      /\ mem[c].trace.cost \in Nat /\ mem[c].trace.cost <= MaxCost /\ CellBooks(c)
  BY CostAssumption, SlotsFinite DEF TypeOK, CellTypeOK, Traces, Books, CellBooks
<1>2. \A d \in Cells \ {c} : d \in Spending' <=> d \in Spending
  BY OtherCells DEF Spending
<1>3. CASE CostLimit = 0
  <2>1. total = 0 /\ Spending = {} /\ CheckLimit
    BY <1>3 DEF Budget, CheckLimit
  <2>2. c \notin Spending' /\ total' = 0
    BY <1>1, <2>1, OwnSpending
  <2>3. Spending' = {}
    BY <1>2, <2>1, <2>2 DEF Spending
  <2> QED BY <1>3, <2>2, <2>3
<1>4. CASE CostLimit # 0
  <2> DEFINE n == Cardinality(Spending)
             m == Cardinality(Spending')
  <2>1. n \in Nat /\ IsFiniteSet(Spending)
    BY SpendingBounded
  <2>2. m \in Nat /\ m <= Capacity
    BY SpendingBoundedNext DEF WithinCapacity
  <2>3. total + MaxCost * n < CostLimit + MaxCost * Capacity
    BY <1>4 DEF Budget
  <2>4. MaxCost * n \in Nat /\ MaxCost * m \in Nat /\ MaxCost * Capacity \in Nat /\ MaxCost * m <= MaxCost * Capacity
    BY <1>1, <2>1, <2>2, TimesMonotone
  <2>5. CASE total' = total /\ (c \in Spending' => c \in Spending)
    <3>1. Spending' \in SUBSET Spending
      BY <1>2, <2>5 DEF Spending
    <3>2. m <= n
      BY <2>1, <3>1, FS_Subset
    <3>3. MaxCost * m <= MaxCost * n
      BY <1>1, <2>1, <2>2, <3>2, TimesMonotone
    <3> HIDE DEF n, m
    <3> QED BY <1>1, <1>4, <2>3, <2>4, <2>5, <3>3 DEF m
  <2>6. CASE total' = total /\ ~CheckLimit
    <3>1. total < CostLimit
      BY <1>1, <2>6 DEF CheckLimit
    <3> HIDE DEF n, m
    <3> QED BY <1>1, <1>4, <2>4, <2>6, <3>1 DEF m
  <2>7. CASE total' = total + mem[c].trace.cost /\ c \notin Spending' /\ (c \in Spending \/ mem[c].trace.cost = 0)
    <3>1. Spending' = Spending \ {c}
      BY <1>2, <2>7 DEF Spending
    <3>2. CASE c \in Spending
      <4>1. m = n - 1
        BY <2>1, <3>1, <3>2, FS_RemoveElement
      <4>2. MaxCost * n = MaxCost * m + MaxCost
        BY <1>1, <2>1, <2>2, <4>1, TimesSuccessor
      <4> HIDE DEF n, m
      <4> QED BY <1>1, <1>4, <2>3, <2>4, <2>7, <4>2 DEF m
    <3>3. CASE c \notin Spending
      <4>1. Spending' = Spending
        BY <3>1, <3>3
      <4> QED BY <1>1, <1>4, <2>3, <2>7, <3>3, <4>1
    <3> QED BY <3>2, <3>3
  <2> QED BY <1>1, <2>5, <2>6, <2>7, OwnSpending
<1> QED BY <1>3, <1>4

LEMMA BudgetNext ==
  TypeOK /\ Phases /\ Books /\ PermitsConserved /\ Budget /\ [Next]_vars => Budget'
<1> SUFFICES ASSUME TypeOK, Phases, Books, PermitsConserved, Budget, [Next]_vars PROVE Budget'
  OBVIOUS
<1>1. CASE \E c \in Cells : CellStep(c)
  BY <1>1, CellBudget, TypeNext, PermitsNext
<1>2. CASE RunStep \/ Interrupt \/ Over \/ UNCHANGED vars
  <2>1. total' = total
    BY <1>2 DEF RunStep, EnterContext, OpenFails, Dispatch, GatherReturns, GatherRaises, SaveSummary,
         SaveSummaryFails, MirrorSummary, ExitContext, Leave, Stop, Interrupt, Over, vars, sumVars
  <2>2. Spending' = Spending
    BY <1>2 DEF RunStep, EnterContext, OpenFails, Dispatch, GatherReturns, GatherRaises, SaveSummary,
         SaveSummaryFails, MirrorSummary, ExitContext, Leave, Stop, Interrupt, Over, vars, cellVars,
         Spending, Phases, RunPhase, Outside
  <2> QED BY <2>1, <2>2 DEF Budget
<1> QED BY <1>1, <1>2 DEF Next

LEMMA BudgetInit == Init => Budget
<1> SUFFICES ASSUME Init, CostLimit # None
             PROVE  IF CostLimit = 0 THEN total = 0 /\ Spending = {}
                    ELSE total + MaxCost * Cardinality(Spending) < CostLimit + MaxCost * Capacity
  BY DEF Budget
<1>1. total = 0 /\ Spending = {}
  BY DEF Init, Spending, Outside
<1>2. MaxCost * 0 = 0 /\ MaxCost * Capacity \in Nat
  BY CostAssumption, SlotsFinite, TimesMonotone
<1> QED BY <1>1, <1>2, FS_EmptySet, CostAssumption

\* The cost guard is soft, but for every plan, pool layout and interleaving the
\* run spends less than one cell's cost per permit beyond the limit.
THEOREM OvershootInvariant == Spec => []OvershootBounded
<1>1. Init => TypeOK /\ Phases /\ Books /\ PermitsConserved /\ Budget
  BY TypeInit, PhaseInit, BooksInit, PermitsInit, BudgetInit
<1>2. TypeOK /\ Phases /\ Books /\ PermitsConserved /\ Budget /\ [Next]_vars
        => (TypeOK /\ Phases /\ Books /\ PermitsConserved /\ Budget)'
  BY TypeNext, PhaseNext, BooksNext, PermitsNext, BudgetNext
<1>3. TypeOK /\ PermitsConserved /\ Budget => OvershootBounded
  <2> SUFFICES ASSUME TypeOK, PermitsConserved, Budget, CostLimit # None, total # 0
               PROVE  total < CostLimit + MaxCost * Capacity
    BY DEF OvershootBounded
  <2>1. MaxCost * Cardinality(Spending) \in Nat /\ MaxCost * Capacity \in Nat
    BY CostAssumption, SpendingBounded, SlotsFinite, TimesMonotone
  <2>2. total + MaxCost * Cardinality(Spending) < CostLimit + MaxCost * Capacity
    BY DEF Budget
  <2> QED BY <2>1, <2>2, CostAssumption DEF TypeOK, CellTypeOK
<1> QED BY <1>1, <1>2, <1>3, PTL DEF Spec
=============================================================================
