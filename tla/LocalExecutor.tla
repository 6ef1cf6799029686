--------------------------- MODULE LocalExecutor ---------------------------
(***************************************************************************)
(* run_eval with the in-process executor (runner/run_eval.py,              *)
(* core/executors/local.py): one coroutine per cell of cases x variants,   *)
(* gathered together, each taking a semaphore, passing the cost guard and  *)
(* going through _run_one; around them the AsyncExitStack that owns the    *)
(* sinks, the adapters and the workspace, and the summary at the end.      *)
(*                                                                         *)
(* An await is where a coroutine can be overtaken or cancelled, so a       *)
(* cell's pc names the await it is suspended in, and an action runs from   *)
(* one await to the next.                                                  *)
(***************************************************************************)
EXTENDS Integers, FiniteSets

CONSTANTS
    Cells,               \* positions of the cells in the gather, cases x variants in order
    Variants,            \* names of the systems under test
    VariantOf,           \* the variant of each cell
    None,                \* an option left out of eval.yaml
    Pool,                \* systems[].pool of each variant, or None
    PoolCap,             \* run.executor.pools: a function from declared pools to capacities
    MaxConcurrency,      \* run.max_concurrency
    PerVariantCap,       \* run.per_variant_concurrency, or None
    VariantCap,          \* systems[].concurrency of each variant, or None
    CostLimit,           \* run.cost_limit_usd, or None
    MaxCost,             \* bound: the most one cell costs
    Reported,            \* variants whose adapter fills cost_usd; the others are priced from tokens
    Enriched,            \* variants with an enricher chain
    HasWorkspace,        \* the config has a workspace block
    Secondaries,         \* the sinks of `output` after the first
    Faults               \* which external failures may happen in this instance

FaultKinds == {"adapter", "timeout", "evaluator", "badresult", "sink", "store",
               "workspace", "cleanup", "open", "close", "interrupt"}

ASSUME CellsAssumption ==
    /\ Cells \subseteq Nat /\ IsFiniteSet(Cells) /\ IsFiniteSet(Variants)
    /\ VariantOf \in [Cells -> Variants]
ASSUME CapAssumption ==
    /\ None \notin Nat
    /\ MaxConcurrency \in Nat \ {0}
    /\ PerVariantCap \in Nat \cup {None}
    /\ VariantCap \in [Variants -> Nat \cup {None}]
    /\ \A p \in DOMAIN PoolCap : PoolCap[p] \in Nat \ {0}
    /\ None \notin DOMAIN PoolCap
ASSUME CostAssumption ==
    /\ CostLimit \in Nat \cup {None}
    /\ MaxCost \in Nat
ASSUME OptionAssumption ==
    /\ HasWorkspace \in BOOLEAN
    /\ IsFiniteSet(Secondaries)
    /\ Faults \subseteq FaultKinds

-----------------------------------------------------------------------------
(* Semaphores: LocalExecutor._build_semaphores and _semaphore_for.          *)

\* Python's `x or y` on an optional number.
OrElse(x, y) == IF x \in {None, 0} THEN y ELSE x

IsShared == PerVariantCap = None /\ \A v \in Variants : VariantCap[v] = None

VariantSem(v) == IF IsShared THEN <<"shared", None>> ELSE <<"variant", v>>

\* A declared pool wins; an undeclared one falls back to the variant's semaphore.
SemOf(v) == IF Pool[v] \in DOMAIN PoolCap THEN <<"pool", Pool[v]>> ELSE VariantSem(v)

Sems == {SemOf(v) : v \in Variants}

Cap(s) ==
    CASE s[1] = "pool"    -> PoolCap[s[2]]
      [] s[1] = "shared"  -> MaxConcurrency
      [] s[1] = "variant" -> OrElse(VariantCap[s[2]], OrElse(PerVariantCap, MaxConcurrency))

-----------------------------------------------------------------------------
VARIABLES
    run,         \* where run_eval is
    depth,       \* contexts of the AsyncExitStack entered so far
    interrupted, \* Ctrl-C has been pressed
    pc,          \* the await each cell's coroutine is suspended in
    kill,        \* cells with a CancelledError on its way
    exc,         \* cells that are unwinding an exception through `finally`
    permits,     \* value of each asyncio.Semaphore
    dirs,        \* cells whose workspace exists outside the process
    mem,         \* the trace and the verdict a coroutine holds in memory
    disk,        \* the trace of each cell on the canonical sink
    results,     \* the verdict of each cell on the canonical sink
    mirrored,    \* <<sink, op, cell>>: what the secondary sinks hold
    sinkErrors,  \* LocalExecutor._sink_errors, as <<sink, op>>
    total,       \* CostAccumulator._total_usd
    agg,         \* the per-variant counters of SummaryAggregator
    summary      \* what save_summary put on the canonical sink

runVars  == <<run, depth, interrupted, summary>>
cellVars == <<pc, kill, exc>>
diskVars == <<dirs, disk, results>>
sinkVars == <<mirrored, sinkErrors>>
sumVars  == <<total, agg>>
vars == <<runVars, cellVars, diskVars, sinkVars, sumVars, mem, permits>>

-----------------------------------------------------------------------------
Errors == {"ok", "timeout", "adapter_error", "cost_limit"}
Verdicts == {"none", "pass", "fail"}
NoTrace == [error |-> "absent", cost |-> 0]
Traces == [error : Errors \cup {"absent"}, cost : Nat]
SinkOps == {"open", "save_trace", "save_artifact", "save_evaluation", "save_summary"}
Counters == [total : Nat, passed : Nat, errored : Nat]
NoSummary == [saved |-> FALSE, agg |-> [v \in Variants |-> [total |-> 0, passed |-> 0, errored |-> 0]],
              errors |-> {}]

\* The order in which open() enters the contexts; they exit in reverse.
StoreCtx == 1
SinkCtx == 2
AdapterCtx == 3
EnricherCtx == 4
WorkspaceCtx == 5

Ended == {"done", "raised"}
\* No semaphore held: not yet acquired, or released by `async with semaphore`.
Outside == {"unborn", "queued"} \cup Ended
PCs == Outside \cup {"refusing", "mirroringRefusal", "preparing", "adapter", "enriching",
                     "savingTrace", "mirroringTrace", "collecting", "mirroringArtifact",
                     "evaluating", "savingResults", "mirroringResults", "cleanup"}
RunStates == {"opening", "dispatching", "saving", "mirroringSummary", "unwinding",
              "closing", "stopping", "returned", "failed"}

Init ==
    /\ run = "opening" /\ depth = 0 /\ interrupted = FALSE
    /\ pc = [c \in Cells |-> "unborn"] /\ kill = {} /\ exc = {}
    /\ permits = [s \in Sems |-> Cap(s)]
    /\ dirs = {} /\ mem = [c \in Cells |-> [trace |-> NoTrace, verdict |-> "none"]]
    /\ disk = [c \in Cells |-> NoTrace] /\ results = [c \in Cells |-> "none"]
    /\ mirrored = {} /\ sinkErrors = {}
    /\ total = 0 /\ agg = NoSummary.agg /\ summary = NoSummary

-----------------------------------------------------------------------------
(* The pieces the cell actions are made of.                                 *)

\* A coroutine runs on past its await: no CancelledError is pending for it.
Awaits(c, place) == pc[c] = place /\ c \notin kill

\* Mutant: the failure of a secondary sink is swallowed.
MirrorSilently(op, c, F) ==
    /\ F \subseteq Secondaries /\ (F # {} => "sink" \in Faults)
    /\ mirrored' = mirrored \cup {<<s, op, c>> : s \in Secondaries \ F}
    /\ UNCHANGED sinkErrors

\* `_secondary_call` over the secondary sinks: those in F raise and are noted.
Mirror(op, c, F) ==
    /\ F \subseteq Secondaries /\ (F # {} => "sink" \in Faults)
    /\ mirrored' = mirrored \cup {<<s, op, c>> : s \in Secondaries \ F}
    /\ sinkErrors' = sinkErrors \cup {<<s, op>> : s \in F}

\* Mutant: a total that equals the limit does not count as reaching it.
CheckLimitOffByOne == CostLimit # None /\ total > CostLimit

\* CostAccumulator.check_limit
CheckLimit == CostLimit # None /\ total >= CostLimit

\* Mutant: an error is not counted when the results pass.
AddErroredUnlessPassed(counters, o) ==
    [total |-> counters.total + 1,
     passed |-> counters.passed + (IF o.verdict = "pass" THEN 1 ELSE 0),
     errored |-> counters.errored + (IF o.trace.error # "ok" /\ o.verdict # "pass" THEN 1 ELSE 0)]

\* SummaryAggregator.add
Add(counters, o) ==
    [total |-> counters.total + 1,
     passed |-> counters.passed + (IF o.verdict = "pass" THEN 1 ELSE 0),
     errored |-> counters.errored + (IF o.trace.error # "ok" THEN 1 ELSE 0)]

\* Mutant: the permit is given back only by the cells that did not raise.
ReleaseIfDone(c) ==
    permits' = IF c \in exc THEN permits
               ELSE [permits EXCEPT ![SemOf(VariantOf[c])] = @ + 1]

\* Leaving `async with semaphore`.
Release(c) == permits' = [permits EXCEPT ![SemOf(VariantOf[c])] = @ + 1]

\* The rest of _dispatch once an outcome is there: price, tally, add, release.
Settle(c) ==
    /\ pc' = [pc EXCEPT ![c] = "done"]
    /\ total' = total + mem[c].trace.cost
    /\ agg' = [agg EXCEPT ![VariantOf[c]] = Add(@, mem[c])]
    /\ Release(c)

\* Mutant: the workspace is cleaned up only after a run without exception.
OwesCleanupUnlessFailing(c) == HasWorkspace /\ pc[c] \in {"savingResults", "mirroringResults"}

\* `finally` finds a workspace that prepare() returned.
OwesCleanup(c) ==
    HasWorkspace /\ pc[c] \notin Outside \cup {"refusing", "mirroringRefusal", "preparing", "cleanup"}

\* The end of _run_one's body: through `finally`, or straight back to _dispatch.
Conclude(c) ==
    IF OwesCleanup(c)
    THEN pc' = [pc EXCEPT ![c] = "cleanup"] /\ UNCHANGED <<sumVars, permits>>
    ELSE Settle(c)

\* An exception leaves the await: through `finally`, or out of _dispatch.
Raise(c) ==
    /\ UNCHANGED sumVars
    /\ IF OwesCleanup(c)
       THEN /\ pc' = [pc EXCEPT ![c] = "cleanup"]
            /\ exc' = exc \cup {c}
            /\ UNCHANGED permits
       ELSE /\ pc' = [pc EXCEPT ![c] = "raised"]
            /\ exc' = exc \ {c}
            /\ Release(c)

\* What the canonical sink holds of c's trace: the price table fills
\* cost_usd in _dispatch, after the trace was saved.
Persisted(c) ==
    [error |-> mem[c].trace.error,
     cost |-> IF VariantOf[c] \in Reported THEN mem[c].trace.cost ELSE 0]

ErrorTrace(type) == [error |-> type, cost |-> 0]

AfterRun(c) == IF VariantOf[c] \in Enriched THEN "enriching" ELSE "savingTrace"

\* Where _run_one goes on to, past the parts this configuration leaves out.
AfterTrace == IF HasWorkspace THEN "collecting" ELSE "evaluating"
IfMirrored(place, next) == IF Secondaries = {} THEN next ELSE place

\* What the await c is suspended in does outside the process when it completes.
Effect(c) ==
    /\ disk' = IF pc[c] \in {"refusing", "savingTrace"}
               THEN [disk EXCEPT ![c] = Persisted(c)] ELSE disk
    /\ results' = IF pc[c] = "savingResults"
                  THEN [results EXCEPT ![c] = mem[c].verdict] ELSE results
    /\ dirs' = CASE pc[c] = "preparing" -> dirs \cup {c}
                 [] pc[c] = "cleanup"   -> dirs \ {c}
                 [] OTHER -> dirs

Goto(c, place) == pc' = [pc EXCEPT ![c] = place]

-----------------------------------------------------------------------------
(* A cell: LocalExecutor._dispatch around _run_one.                         *)

\* Mutant: the comparison of the semaphore's value is off by one.
FreeAboveOne(s) == permits[s] > 1

Free(s) == permits[s] > 0

\* asyncio.Semaphore wakes its waiters in order; the guard is consulted inside it.
Acquire(c) ==
    LET s == SemOf(VariantOf[c]) IN
    /\ Awaits(c, "queued")
    /\ Free(s)
    /\ \A d \in Cells : d < c /\ SemOf(VariantOf[d]) = s => pc[d] # "queued"
    /\ permits' = [permits EXCEPT ![s] = @ - 1]
    /\ IF CheckLimit
       THEN /\ Goto(c, "refusing")
            /\ mem' = [mem EXCEPT ![c].trace = ErrorTrace("cost_limit")]
       ELSE /\ Goto(c, IF HasWorkspace THEN "preparing" ELSE "adapter")
            /\ UNCHANGED mem
    /\ UNCHANGED <<runVars, kill, exc, diskVars, sinkVars, sumVars>>

\* _short_circuit_cost_limit: the refusal is recorded, nothing evaluates it.
SaveRefusal(c) ==
    /\ Awaits(c, "refusing")
    /\ Effect(c)
    /\ IF Secondaries = {} THEN Settle(c)
       ELSE Goto(c, "mirroringRefusal") /\ UNCHANGED <<sumVars, permits>>
    /\ UNCHANGED <<runVars, kill, exc, sinkVars, mem>>

MirrorRefusal(c) ==
    /\ Awaits(c, "mirroringRefusal")
    /\ \E F \in SUBSET Secondaries : Mirror("save_trace", c, F)
    /\ Settle(c)
    /\ UNCHANGED <<runVars, kill, exc, diskVars, mem>>

Prepare(c) ==
    /\ Awaits(c, "preparing")
    /\ Effect(c)
    /\ Goto(c, "adapter")
    /\ UNCHANGED <<runVars, kill, exc, sinkVars, sumVars, mem, permits>>

\* The traces a cell can have once adapter.run ended under wait_for: the
\* adapter's own, the one made of its exception, or the one of the timeout.
AdapterTraces ==
    [error : {"ok"} \cup {"adapter_error" : f \in Faults \cap {"adapter"}},
     cost : 0..MaxCost]
    \cup {ErrorTrace(f) : f \in Faults \cap {"timeout"}}

RunAdapter(c) ==
    /\ Awaits(c, "adapter")
    /\ \E t \in AdapterTraces : mem' = [mem EXCEPT ![c].trace = t]
    /\ Goto(c, AfterRun(c))
    /\ UNCHANGED <<runVars, kill, exc, diskVars, sinkVars, sumVars, permits>>

\* _run_enrichers: an enricher that raises leaves the trace as it was.
Enrich(c) ==
    /\ Awaits(c, "enriching")
    /\ Goto(c, "savingTrace")
    /\ UNCHANGED <<runVars, kill, exc, diskVars, sinkVars, sumVars, mem, permits>>

SaveTrace(c) ==
    /\ Awaits(c, "savingTrace")
    /\ Effect(c)
    /\ Goto(c, IfMirrored("mirroringTrace", AfterTrace))
    /\ UNCHANGED <<runVars, kill, exc, sinkVars, sumVars, mem, permits>>

MirrorTrace(c) ==
    /\ Awaits(c, "mirroringTrace")
    /\ \E F \in SUBSET Secondaries : Mirror("save_trace", c, F)
    /\ Goto(c, AfterTrace)
    /\ UNCHANGED <<runVars, kill, exc, diskVars, sumVars, mem, permits>>

\* collect_artifacts, then save_artifact on the canonical sink.
Collect(c) ==
    /\ Awaits(c, "collecting")
    /\ Goto(c, IfMirrored("mirroringArtifact", "evaluating"))
    /\ UNCHANGED <<runVars, kill, exc, diskVars, sinkVars, sumVars, mem, permits>>

MirrorArtifact(c) ==
    /\ Awaits(c, "mirroringArtifact")
    /\ \E F \in SUBSET Secondaries : Mirror("save_artifact", c, F)
    /\ Goto(c, "evaluating")
    /\ UNCHANGED <<runVars, kill, exc, diskVars, sumVars, mem, permits>>

\* The evaluators judge whatever trace there is, an error trace too; one that
\* raises is a failing result.  The verdict is _case_passes of the results.
Evaluate(c) ==
    /\ Awaits(c, "evaluating")
    /\ \E v \in {"pass", "fail"} : mem' = [mem EXCEPT ![c].verdict = v]
    /\ Goto(c, "savingResults")
    /\ UNCHANGED <<runVars, kill, exc, diskVars, sinkVars, sumVars, permits>>

SaveResults(c) ==
    /\ Awaits(c, "savingResults")
    /\ Effect(c)
    /\ IF Secondaries # {}
       THEN Goto(c, "mirroringResults") /\ UNCHANGED <<sumVars, permits>>
       ELSE Conclude(c)
    /\ UNCHANGED <<runVars, kill, exc, sinkVars, mem>>

MirrorResults(c) ==
    /\ Awaits(c, "mirroringResults")
    /\ \E F \in SUBSET Secondaries : Mirror("save_evaluation", c, F)
    /\ Conclude(c)
    /\ UNCHANGED <<runVars, kill, exc, diskVars, mem>>

\* `finally`, cleanup(workspace) under suppress(Exception).
Cleanup(c) ==
    /\ Awaits(c, "cleanup")
    /\ Effect(c) \/ ("cleanup" \in Faults /\ UNCHANGED diskVars)
    /\ IF c \in exc THEN Raise(c) ELSE Settle(c) /\ UNCHANGED exc
    /\ UNCHANGED <<runVars, kill, sinkVars, mem>>

-----------------------------------------------------------------------------
(* What takes a cell out of its course.                                     *)

\* Mutant: a secondary sink that raises is not trapped.
RaisingStageWithMirrors ==
    [store |-> {"refusing", "savingTrace", "collecting", "savingResults"},
     workspace |-> {"preparing", "collecting"},
     badresult |-> {"evaluating"},
     sink |-> {"mirroringTrace"}]

\* The awaits of _dispatch that nothing wraps: whose exception leaves the cell.
RaisingStage ==
    [store |-> {"refusing", "savingTrace", "collecting", "savingResults"},
     workspace |-> {"preparing", "collecting"},
     badresult |-> {"evaluating"},
     sink |-> {}]

\* An unwrapped await raises; its effect may have happened all the same.
Fails(c) ==
    /\ c \notin kill
    /\ \E f \in Faults \cap DOMAIN RaisingStage : pc[c] \in RaisingStage[f]
    /\ Effect(c) \/ UNCHANGED diskVars
    /\ Raise(c)
    /\ UNCHANGED <<runVars, kill, sinkVars, mem>>

Mirrors == [mirroringRefusal |-> "save_trace", mirroringTrace |-> "save_trace",
            mirroringArtifact |-> "save_artifact", mirroringResults |-> "save_evaluation"]

\* CancelledError arrives at c's await: it is no Exception, so no handler but
\* `finally` sees it, and the await may have had its effect.
Cancelled(c) ==
    /\ c \in kill
    /\ kill' = kill \ {c}
    /\ IF pc[c] = "queued"
       THEN Goto(c, "raised") /\ UNCHANGED <<exc, sumVars, permits, diskVars, mirrored>>
       ELSE /\ Raise(c)
            /\ Effect(c) \/ UNCHANGED diskVars
            /\ IF pc[c] \in DOMAIN Mirrors
               THEN \E D \in SUBSET Secondaries :
                      mirrored' = mirrored \cup {<<s, Mirrors[pc[c]], c>> : s \in D}
               ELSE UNCHANGED mirrored
    /\ UNCHANGED <<runVars, sinkErrors, mem>>

CellStep(c) ==
    \/ Acquire(c) \/ SaveRefusal(c) \/ MirrorRefusal(c)
    \/ Prepare(c) \/ RunAdapter(c) \/ Enrich(c) \/ SaveTrace(c) \/ MirrorTrace(c)
    \/ Collect(c) \/ MirrorArtifact(c) \/ Evaluate(c) \/ SaveResults(c) \/ MirrorResults(c)
    \/ Cleanup(c) \/ Fails(c) \/ Cancelled(c)

-----------------------------------------------------------------------------
(* run_eval: open, gather, summary, close.                                  *)

Live == {c \in Cells : pc[c] \notin Ended \cup {"unborn"}}

\* One enter_async_context of open(); a secondary sink that fails is noted.
EnterContext ==
    /\ run = "opening" /\ depth < WorkspaceCtx
    /\ depth' = depth + 1
    /\ \E F \in SUBSET Secondaries :
          /\ F # {} => "sink" \in Faults /\ depth' = SinkCtx
          /\ sinkErrors' = sinkErrors \cup {<<s, "open">> : s \in F}
    /\ UNCHANGED <<run, interrupted, summary, cellVars, diskVars, mirrored, sumVars, mem, permits>>

\* Any other context, or trace_store.open, raises: everything entered is exited.
OpenFails ==
    /\ run = "opening" /\ "open" \in Faults
    /\ run' = "unwinding"
    /\ UNCHANGED <<depth, interrupted, summary, cellVars, diskVars, sinkVars, sumVars, mem, permits>>

\* The sinks' open(run_id, run_dir), bind_cells, and the gather of all cells.
Dispatch ==
    /\ run = "opening" /\ depth = WorkspaceCtx
    /\ run' = "dispatching"
    /\ pc' = [c \in Cells |-> "queued"]
    /\ \E F \in SUBSET Secondaries :
          /\ F # {} => "sink" \in Faults
          /\ sinkErrors' = sinkErrors \cup {<<s, "open">> : s \in F}
    /\ UNCHANGED <<depth, interrupted, summary, kill, exc, diskVars, mirrored, sumVars, mem, permits>>

\* Mutant: the gather gives its answer when the first cell is done.
FirstDone == \E c \in Cells : pc[c] = "done"

AllDone == \A c \in Cells : pc[c] = "done"

GatherReturns ==
    /\ run = "dispatching" /\ AllDone
    /\ run' = "saving"
    /\ UNCHANGED <<depth, interrupted, summary, cellVars, diskVars, sinkVars, sumVars, mem, permits>>

\* asyncio.gather without return_exceptions: the first exception of a cell
\* leaves dispatch_all while the other cells go on.
GatherRaises ==
    /\ run = "dispatching" /\ \E c \in Cells : pc[c] = "raised"
    /\ run' = "unwinding"
    /\ UNCHANGED <<depth, interrupted, summary, cellVars, diskVars, sinkVars, sumVars, mem, permits>>

Summary == [saved |-> TRUE, agg |-> agg, errors |-> sinkErrors]

SaveSummary ==
    /\ run = "saving"
    /\ summary' = Summary
    /\ run' = IfMirrored("mirroringSummary", "closing")
    /\ UNCHANGED <<depth, interrupted, cellVars, diskVars, sinkVars, sumVars, mem, permits>>

SaveSummaryFails ==
    /\ run = "saving" /\ "store" \in Faults
    /\ summary' \in {summary, Summary}
    /\ run' = "unwinding"
    /\ UNCHANGED <<depth, interrupted, cellVars, diskVars, sinkVars, sumVars, mem, permits>>

MirrorSummary ==
    /\ run = "mirroringSummary"
    /\ \E F \in SUBSET Secondaries :
          /\ F # {} => "sink" \in Faults
          /\ sinkErrors' = sinkErrors \cup {<<s, "save_summary">> : s \in F}
    /\ run' = "closing"
    /\ UNCHANGED <<depth, interrupted, summary, cellVars, diskVars, mirrored, sumVars, mem, permits>>

\* One __aexit__ of the stack; one that raises makes the run raise, and the
\* stack goes on with the contexts below.
ExitContext ==
    /\ run \in {"closing", "unwinding"} /\ depth > 0
    /\ depth' = depth - 1
    /\ run' \in {run} \cup (IF "close" \in Faults THEN {"unwinding"} ELSE {})
    /\ UNCHANGED <<interrupted, summary, cellVars, diskVars, sinkVars, sumVars, mem, permits>>

\* run_eval is over; asyncio.run cancels the coroutines that are left.
Leave ==
    /\ run \in {"closing", "unwinding"} /\ depth = 0
    /\ run' = IF run = "closing" THEN "returned" ELSE "stopping"
    /\ kill' = Live
    /\ UNCHANGED <<depth, interrupted, summary, pc, exc, diskVars, sinkVars, sumVars, mem, permits>>

Stop ==
    /\ run = "stopping" /\ Live = {}
    /\ run' = "failed"
    /\ UNCHANGED <<depth, interrupted, summary, cellVars, diskVars, sinkVars, sumVars, mem, permits>>

RunStep ==
    \/ EnterContext \/ OpenFails \/ Dispatch \/ GatherReturns \/ GatherRaises
    \/ SaveSummary \/ SaveSummaryFails \/ MirrorSummary \/ ExitContext \/ Leave \/ Stop

\* Ctrl-C cancels run_eval at its await: the gather passes it to the cells,
\* anywhere else it unwinds the run.
Interrupt ==
    /\ "interrupt" \in Faults /\ ~interrupted
    /\ run \in {"opening", "dispatching", "saving", "mirroringSummary"}
    /\ interrupted' = TRUE
    /\ IF run = "dispatching" /\ ~AllDone /\ \A c \in Cells : pc[c] # "raised"
       THEN kill' = Live /\ UNCHANGED run
       ELSE run' = "unwinding" /\ UNCHANGED kill
    /\ summary' \in {summary} \cup (IF run = "saving" THEN {Summary} ELSE {})
    /\ UNCHANGED <<depth, pc, exc, diskVars, sinkVars, sumVars, mem, permits>>

\* The process has exited.
Over == run \in {"returned", "failed"} /\ UNCHANGED vars

Next == RunStep \/ Interrupt \/ (\E c \in Cells : CellStep(c)) \/ Over

\* Every await of a cell and of run_eval completes, or raises, in the end:
\* adapter.run by wait_for, the others by assumption on sinks and evaluators.
Fairness == WF_vars(RunStep) /\ \A c \in Cells : WF_vars(CellStep(c))

Spec == Init /\ [][Next]_vars /\ Fairness

-----------------------------------------------------------------------------
(* Properties.                                                              *)

\* The permits of all semaphores together.
Slots == UNION {{s} \X (1..Cap(s)) : s \in Sems}
Capacity == Cardinality(Slots)

Holders(s) == {c \in Cells : SemOf(VariantOf[c]) = s /\ pc[c] \notin Outside}
SumOver(v, Test(_)) == Cardinality({c \in Cells : VariantOf[c] = v /\ Test(c)})

RunTypeOK ==
    /\ run \in RunStates /\ depth \in 0..WorkspaceCtx /\ interrupted \in BOOLEAN
    /\ summary \in [saved : BOOLEAN, agg : [Variants -> Counters], errors : SUBSET (Secondaries \X SinkOps)]

CellTypeOK ==
    /\ pc \in [Cells -> PCs] /\ kill \subseteq Cells /\ exc \subseteq Cells
    /\ mem \in [Cells -> [trace : Traces, verdict : Verdicts]]
    /\ permits \in [Sems -> Nat]
    /\ total \in Nat /\ agg \in [Variants -> Counters]

SinkTypeOK ==
    /\ dirs \subseteq Cells
    /\ disk \in [Cells -> Traces] /\ results \in [Cells -> Verdicts]
    /\ mirrored \subseteq Secondaries \X SinkOps \X Cells
    /\ sinkErrors \subseteq Secondaries \X SinkOps

\* Every variable keeps its type; no semaphore goes below zero.
TypeOK == RunTypeOK /\ CellTypeOK /\ SinkTypeOK

\* No path out of a cell (a result, a refusal, an exception, a cancellation at
\* any await, even inside `finally`) keeps a permit or gives one back twice.
PermitsConserved ==
    \A s \in Sems : permits[s] + Cardinality(Holders(s)) = Cap(s)

\* The cost guard is soft, but only by what was in flight when the limit was
\* reached: the run never spends more than one cell's cost per permit beyond it.
OvershootBounded ==
    CostLimit # None => total = 0 \/ total < CostLimit + MaxCost * Capacity

\* A verdict is on the canonical sink only beside the trace it judges, and
\* never beside a trace that the cost guard refused.
JudgedAfterRecorded ==
    \A c \in Cells : results[c] # "none" => disk[c].error \notin {"absent", "cost_limit"}

\* The published summary says of every variant exactly what the canonical sink
\* holds: all its cells, those whose results pass, those whose trace has an error.
SummaryAgreesWithSink ==
    summary.saved =>
      \A v \in Variants :
        LET Any(c) == TRUE
            Passes(c) == results[c] = "pass"
            HasError(c) == disk[c].error # "ok"
        IN  summary.agg[v] = [total |-> SumOver(v, Any),
                              passed |-> SumOver(v, Passes),
                              errored |-> SumOver(v, HasError)]

\* A cell's trace that a secondary sink lost is accounted for: the published
\* summary names that sink and save_trace.
SummaryNamesLossySinks ==
    summary.saved =>
      \A s \in Secondaries, c \in Cells :
        <<s, "save_trace", c>> \in mirrored \/ <<s, "save_trace">> \in summary.errors

\* A cell that got its workspace from prepare() and ends by its own outcome or
\* by its own exception, not by a cancellation at its last await, has it removed
\* before it gives back its permit; the one excuse is a cleanup that was called
\* and failed.  (A prepare that raises hands `finally` nothing to clean up.)
UncancelledCellRemovesWorkspace ==
    [][\A c \in Cells \ kill :
          pc[c] \notin Ended \cup {"preparing"} /\ pc'[c] \in Ended =>
            c \notin dirs' \/ (pc[c] = "cleanup" /\ "cleanup" \in Faults)]_vars

\* Whatever fails and whenever Ctrl-C comes, the process ends with no cell left
\* waiting for a permit or suspended in an await.
RunEnds == <>(run \in {"returned", "failed"} /\ Live = {})

\* If only soft failures happen, every run ends with its summary published.
RunPublishes == <>(run = "returned" /\ summary.saved)

-----------------------------------------------------------------------------
(* The inductive strengthening of JudgedAfterRecorded and of the refinement: *)
(* what the sink holds of a cell at each await of its coroutine.             *)

Ran == {"ok", "timeout", "adapter_error"}
Recorded(c) == disk[c].error \in Ran
BeforeRecord == {"unborn", "queued", "refusing", "preparing", "adapter", "enriching", "savingTrace"}
BeforeJudge == {"mirroringTrace", "collecting", "mirroringArtifact", "evaluating", "savingResults"}

CellPhase(c) ==
    /\ pc[c] \in BeforeRecord => disk[c].error = "absent" /\ results[c] = "none"
    /\ pc[c] \in BeforeJudge => Recorded(c) /\ results[c] = "none"
    /\ pc[c] = "mirroringResults" \/ (pc[c] = "cleanup" /\ c \notin exc)
          => Recorded(c) /\ results[c] # "none"
    /\ pc[c] = "mirroringRefusal" => disk[c].error = "cost_limit" /\ results[c] = "none"
    /\ pc[c] = "done" => \/ disk[c].error = "cost_limit"
                        \/ (Recorded(c) /\ results[c] # "none")
    /\ results[c] # "none" => Recorded(c)
    /\ pc[c] \in {"enriching", "savingTrace"} => mem[c].trace.error \in Ran
    /\ pc[c] = "refusing" => mem[c].trace.error = "cost_limit"
    /\ pc[c] = "savingResults" => mem[c].verdict # "none"
    /\ c \in exc => pc[c] = "cleanup"
    /\ c \in kill => pc[c] \notin Ended \cup {"unborn"}

RunPhase ==
    /\ run = "opening" => \A c \in Cells : pc[c] = "unborn"
    /\ run \in {"saving", "mirroringSummary", "closing", "returned"} => AllDone
    /\ run \in {"opening", "dispatching", "saving"} => ~summary.saved

Phases == RunPhase /\ \A c \in Cells : CellPhase(c)

-----------------------------------------------------------------------------
(* The inductive strengthening of the properties of the budget, the summary, *)
(* the secondary sinks and the workspaces: what a coroutine holds in memory, *)
(* and what it has brought about, at each await.                            *)

\* The cells whose cost may still be added to the total.
Spending == {c \in Cells : pc[c] \notin Outside \cup {"refusing", "mirroringRefusal"}}

\* The cell got to the end of _run_one, or to its `finally`, with no exception.
Concluded(c) == pc[c] \in {"mirroringResults", "done"} \/ (pc[c] = "cleanup" /\ c \notin exc)
BeforeAdapter == {"unborn", "queued", "refusing", "mirroringRefusal", "preparing", "adapter"}
BeforeVerdict == BeforeRecord \cup {"mirroringRefusal", "mirroringTrace", "collecting", "mirroringArtifact", "evaluating"}
AfterMirror == {"collecting", "mirroringArtifact", "evaluating", "savingResults"}

\* What the sink holds of a cell is what its coroutine holds, and what it holds
\* is what its awaits have given it so far.
CellBooks(c) ==
    /\ mem[c].trace.cost <= MaxCost
    /\ pc[c] \in BeforeAdapter => mem[c].trace.cost = 0
    /\ pc[c] \in BeforeVerdict => mem[c].verdict = "none"
    /\ pc[c] \in BeforeJudge \cup {"mirroringRefusal"} \/ Concluded(c) => disk[c].error = mem[c].trace.error
    /\ Concluded(c) => results[c] = mem[c].verdict

\* A secondary sink holds the trace of a cell past its mirroring, or is named.
CellMirrored(c) ==
    pc[c] \in AfterMirror \/ Concluded(c) =>
      \A s \in Secondaries : <<s, "save_trace", c>> \in mirrored \/ <<s, "save_trace">> \in sinkErrors

\* The workspace of a cell exists only where `finally` finds it, or too late.
CellWorkspace(c) ==
    /\ pc[c] \in {"preparing", "collecting", "mirroringArtifact", "cleanup"} => HasWorkspace
    /\ c \in dirs => HasWorkspace /\ pc[c] \notin {"unborn", "queued", "refusing", "mirroringRefusal", "preparing"}

DoneOf(v) == {c \in Cells : VariantOf[c] = v /\ pc[c] = "done"}
PassedOf(v) == {c \in DoneOf(v) : mem[c].verdict = "pass"}
ErroredOf(v) == {c \in DoneOf(v) : mem[c].trace.error # "ok"}

Tally ==
    \A v \in Variants :
      agg[v] = [total |-> Cardinality(DoneOf(v)), passed |-> Cardinality(PassedOf(v)),
                errored |-> Cardinality(ErroredOf(v))]

\* Once the summary is saved nothing that it says changes any more.
Published ==
    summary.saved =>
      AllDone /\ summary.agg = agg /\ sinkErrors \subseteq summary.errors \cup (Secondaries \X {"save_summary"})

Books == (\A c \in Cells : CellBooks(c) /\ CellMirrored(c) /\ CellWorkspace(c)) /\ Tally /\ Published

\* Every cell that may still spend is paid for within the bound.
Budget ==
    CostLimit # None =>
        IF CostLimit = 0 THEN total = 0 /\ Spending = {}
        ELSE total + MaxCost * Cardinality(Spending) < CostLimit + MaxCost * Capacity

-----------------------------------------------------------------------------
(* LocalExecutor implements RunContract: the sink's contents are its sets.  *)

WithTrace == {c \in Cells : disk[c].error # "absent"}
WithRefusal == {c \in Cells : disk[c].error = "cost_limit"}
WithVerdict == {c \in Cells : results[c] # "none"}
Counted == {c \in Cells : pc[c] = "done"}

Contract == INSTANCE RunContract WITH
    recorded <- WithTrace, refused <- WithRefusal, judged <- WithVerdict,
    counted <- Counted, published <- summary.saved

\* The order of the promises holds over every interleaving, failure and
\* cancellation of the cells.
ImplementsContract == Contract!Spec
=============================================================================
