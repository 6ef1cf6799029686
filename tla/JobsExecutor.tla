---------------------------- MODULE JobsExecutor ----------------------------
(***************************************************************************)
(* KubernetesJobsExecutor (core/executors/k8s_executor.py) and the pod's   *)
(* entry point (_worker_main.py): one Job and perhaps one ConfigMap per    *)
(* cell, named after the cell, whose pod leaves the outcome in an object   *)
(* store under a key that is named after the cell too.  A later attempt of *)
(* the same run has the same cell ids and so the same names.               *)
(*                                                                         *)
(* A cell's call names the await its coroutine is suspended in.            *)
(***************************************************************************)
EXTENDS Integers, FiniteSets

CONSTANTS
    Cells,        \* the cells of the run
    Large,        \* cells whose payload goes into a ConfigMap
    MaxAttempts,  \* bound: how often the failed cells of the run are run again, plus one
    Interrupted,  \* bound: the attempts in which Ctrl-C may come
    Faults        \* which external failures may happen in this instance

FaultKinds == {"create", "status", "storage", "delete", "pod"}

ASSUME CellsAssumption == IsFiniteSet(Cells) /\ Cells # {} /\ Large \subseteq Cells
ASSUME AttemptAssumption == MaxAttempts \in Nat \ {0} /\ Interrupted \subseteq Nat
ASSUME FaultAssumption == Faults \subseteq FaultKinds

VARIABLES
    attempt,     \* how often the run has been started
    run,         \* where dispatch_all is
    call,        \* the await each cell's coroutine is suspended in
    kill,        \* cells with a CancelledError on its way
    exc,         \* cells that are unwinding an exception through `finally`
    took,        \* the outcome the executor has for each cell
    job,         \* the Job object of each cell
    maps,        \* cells whose ConfigMap object exists
    mayDelete,   \* the API server grants the delete calls of the cleanup
    pod,         \* the pod of each attempt at each cell
    stored       \* what lies under the cell's key in the object store

orchVars == <<attempt, run, call, kill, exc, took>>
clusterVars == <<job, maps, mayDelete, pod, stored>>
vars == <<orchVars, clusterVars>>

Attempts == 1..MaxAttempts
\* An outcome names the attempt whose pod wrote it, 0 if the executor made it up.
Outcomes == [by : 0..MaxAttempts, error : BOOLEAN]
NoOutcome == [by |-> 0, error |-> TRUE]
NoJob == [by |-> 0, status |-> "none"]
JobsOK == [by : 0..MaxAttempts, status : {"none", "running", "complete", "failed"}]
PodStates == {"none", "running", "written", "gone"}

Ended == {"done", "raised"}
\* A submit_cell that has returned its handle is suspended nowhere.
Quiet == Ended \cup {"submitted"}
CallStates == Quiet \cup {"creatingMap", "creatingJob", "polling", "reading", "deletingJob", "deletingMap"}

\* _build_payload_carriers: a small payload rides in the pod's environment.
FirstCall(c) == IF c \in Large THEN "creatingMap" ELSE "creatingJob"

Init ==
    /\ attempt = 1 /\ run = "submitting"
    /\ call = [c \in Cells |-> FirstCall(c)] /\ kill = {} /\ exc = {}
    /\ took = [c \in Cells |-> NoOutcome]
    /\ job = [c \in Cells |-> NoJob] /\ maps = {}
    /\ mayDelete \in BOOLEAN /\ ("delete" \notin Faults => mayDelete)
    /\ pod = [a \in Attempts |-> [c \in Cells |-> "none"]]
    /\ stored = [c \in Cells |-> NoOutcome]

Live == {c \in Cells : call[c] \notin Quiet}
Awaits(c, place) == call[c] = place /\ c \notin kill
Goto(c, place) == call' = [call EXCEPT ![c] = place]

-----------------------------------------------------------------------------
(* submit_cell.                                                             *)

MapCreated(c) == c \notin maps /\ maps' = maps \cup {c} /\ UNCHANGED <<job, mayDelete, pod, stored>>

\* Mutant: a Job that is there already is taken for the cell's own.
JobAdopted(c) ==
    /\ job' = [job EXCEPT ![c] = IF @ = NoJob THEN [by |-> attempt, status |-> "running"] ELSE @]
    /\ pod' = IF job[c] = NoJob THEN [pod EXCEPT ![attempt][c] = "running"] ELSE pod
    /\ UNCHANGED <<maps, mayDelete, stored>>

\* The Job starts its one pod: backoffLimit 0, restartPolicy Never.
JobCreated(c) ==
    /\ job[c] = NoJob
    /\ job' = [job EXCEPT ![c] = [by |-> attempt, status |-> "running"]]
    /\ pod' = [pod EXCEPT ![attempt][c] = "running"]
    /\ UNCHANGED <<maps, mayDelete, stored>>

CreateMap(c) ==
    /\ Awaits(c, "creatingMap")
    /\ MapCreated(c)
    /\ Goto(c, "creatingJob")
    /\ UNCHANGED <<attempt, run, kill, exc, took>>

CreateJob(c) ==
    /\ Awaits(c, "creatingJob")
    /\ JobCreated(c)
    /\ Goto(c, "submitted")
    /\ UNCHANGED <<attempt, run, kill, exc, took>>

\* The name is taken, or the API server fails: nothing undoes what was created.
CreateRaises(c) ==
    /\ \/ Awaits(c, "creatingMap") /\ ("create" \in Faults \/ c \in maps)
       \/ Awaits(c, "creatingJob") /\ ("create" \in Faults \/ job[c] # NoJob)
    /\ Goto(c, "raised")
    /\ UNCHANGED <<attempt, run, kill, exc, took, clusterVars>>

-----------------------------------------------------------------------------
(* await_outcome.                                                           *)

\* Through `finally`, with an outcome or with an exception.
Unwind(c) == Goto(c, "deletingJob")

\* _poll_until_terminal sees a terminal status.
PollTerminal(c) ==
    /\ Awaits(c, "polling")
    /\ job[c].status \in {"complete", "failed"}
    /\ Goto(c, "reading")
    /\ UNCHANGED <<attempt, run, kill, exc, took, clusterVars>>

\* Mutant: the deadline is computed anew in every round of the loop.
NeverTimesOut(c) == FALSE

\* The executor's own deadline: whatever the pod has stored is not looked at.
PollTimesOut(c) ==
    /\ Awaits(c, "polling")
    /\ job[c].status = "running"
    /\ took' = [took EXCEPT ![c] = NoOutcome]
    /\ Unwind(c)
    /\ UNCHANGED <<attempt, run, kill, exc, clusterVars>>

\* _read_outcome_if_present, else an outcome made up by the executor.
ReadOutcome(c) ==
    /\ Awaits(c, "reading")
    /\ took' = [took EXCEPT ![c] = stored[c]]
    /\ Unwind(c)
    /\ UNCHANGED <<attempt, run, kill, exc, clusterVars>>

\* A status call or a storage call raises.
AwaitRaises(c) ==
    /\ exc' = exc \cup {c}
    /\ Unwind(c)
    /\ UNCHANGED <<attempt, run, kill, took, clusterVars>>

PollRaises(c) == "status" \in Faults /\ Awaits(c, "polling") /\ AwaitRaises(c)
ReadRaises(c) == "storage" \in Faults /\ Awaits(c, "reading") /\ AwaitRaises(c)

Finish(c) == Goto(c, IF c \in exc THEN "raised" ELSE "done") /\ exc' = exc \ {c}

\* Mutant: the ConfigMap is left to the garbage collector.
ForgetMap(c) == Finish(c)

\* The Job is gone or its deletion failed: on to the ConfigMap.
AfterJob(c) ==
    IF c \in Large THEN Goto(c, "deletingMap") /\ UNCHANGED exc ELSE Finish(c)

\* A delete call of _cleanup_handle; one that raises is suppressed.
JobDeleted(c) ==
    /\ job' = IF mayDelete THEN [job EXCEPT ![c] = NoJob] ELSE job
    /\ UNCHANGED <<maps, mayDelete, pod, stored>>

MapDeleted(c) ==
    /\ maps' = IF mayDelete THEN maps \ {c} ELSE maps
    /\ UNCHANGED <<job, mayDelete, pod, stored>>

DeleteJob(c) ==
    /\ Awaits(c, "deletingJob")
    /\ JobDeleted(c)
    /\ AfterJob(c)
    /\ UNCHANGED <<attempt, run, kill, took>>

DeleteMap(c) ==
    /\ Awaits(c, "deletingMap")
    /\ MapDeleted(c)
    /\ Finish(c)
    /\ UNCHANGED <<attempt, run, kill, took>>

\* CancelledError: the call in the thread goes on without its coroutine; the
\* cleanup starts if it has not, and ends where it is if it has.
Cancelled(c) ==
    /\ c \in kill /\ kill' = kill \ {c}
    /\ CASE call[c] \in {"polling", "reading"} ->
              /\ Unwind(c) /\ exc' = exc \cup {c}
              /\ UNCHANGED clusterVars
         [] OTHER ->
              /\ Goto(c, "raised") /\ exc' = exc \ {c}
              /\ \/ call[c] = "creatingMap" /\ MapCreated(c)
                 \/ call[c] = "creatingJob" /\ JobCreated(c)
                 \/ call[c] = "deletingJob" /\ JobDeleted(c)
                 \/ call[c] = "deletingMap" /\ MapDeleted(c)
                 \/ UNCHANGED clusterVars
    /\ UNCHANGED <<attempt, run, took>>

\* Every way a coroutine goes on, but for a status call that happens to fail.
CellStep(c) ==
    \/ CreateMap(c) \/ CreateJob(c) \/ CreateRaises(c)
    \/ PollTerminal(c) \/ PollTimesOut(c) \/ ReadOutcome(c) \/ ReadRaises(c)
    \/ DeleteJob(c) \/ DeleteMap(c) \/ Cancelled(c)

-----------------------------------------------------------------------------
(* dispatch_all, and the attempts of a run.                                 *)

\* A cell that an earlier attempt settled stays "done".
StartPolling ==
    /\ run = "submitting" /\ \A c \in Cells : call[c] \in {"submitted", "done"}
    /\ run' = "awaiting"
    /\ call' = [c \in Cells |-> IF call[c] = "submitted" THEN "polling" ELSE call[c]]
    /\ UNCHANGED <<attempt, kill, exc, took, clusterVars>>

\* Mutant: the gather gives its answer when the first cell is done.
FirstDone == \E c \in Cells : call[c] = "done"

AllDone == \A c \in Cells : call[c] = "done"

\* The outcomes are ingested in input order.
Return ==
    /\ run = "awaiting" /\ AllDone
    /\ run' = "returned"
    /\ UNCHANGED <<attempt, call, kill, exc, took, clusterVars>>

\* gather hands on the first exception.  The coroutines that are left are
\* cancelled if the event loop ends, and go on if the program does.
GatherRaises ==
    /\ run \in {"submitting", "awaiting"} /\ \E c \in Cells : call[c] = "raised"
    /\ run' = "failed"
    /\ kill' \in {kill, Live}
    /\ UNCHANGED <<attempt, call, exc, took, clusterVars>>

Interrupt ==
    /\ attempt \in Interrupted
    /\ run \in {"submitting", "awaiting"} /\ kill = {} /\ Live # {}
    /\ \A c \in Cells : call[c] # "raised"
    /\ kill' = Live
    /\ UNCHANGED <<attempt, run, call, exc, took, clusterVars>>

\* The cells without a good outcome are run again, under the same cell ids.
Again ==
    /\ run \in {"returned", "failed"} /\ Live = {}
    /\ attempt < MaxAttempts
    /\ attempt' = attempt + 1
    /\ LET Failed == {c \in Cells : run = "failed" \/ took[c].error} IN
       /\ Failed # {}
       /\ call' = [c \in Cells |-> IF c \in Failed THEN FirstCall(c) ELSE "done"]
       /\ took' = [c \in Cells |-> IF c \in Failed THEN NoOutcome ELSE took[c]]
    /\ run' = "submitting"
    /\ UNCHANGED <<kill, exc, clusterVars>>

-----------------------------------------------------------------------------
(* The cluster and the pods.                                                *)

Owned(a, c) == job[c] = [by |-> a, status |-> "running"]

JobEnds(a, c, status) ==
    job' = IF Owned(a, c) THEN [job EXCEPT ![c].status = status] ELSE job

\* worker_run_cell, then storage.put under EVALH_OUTCOME_KEY.  How a pod
\* ends whose Job is over or deleted shows nowhere.
PodWrites(a, c) ==
    /\ pod[a][c] = "running"
    /\ pod' = [pod EXCEPT ![a][c] = IF Owned(a, c) THEN "written" ELSE "gone"]
    /\ stored' \in {[stored EXCEPT ![c] = [by |-> a, error |-> e]] : e \in BOOLEAN}
    /\ UNCHANGED <<orchVars, job, maps, mayDelete>>

PodExits(a, c) ==
    /\ pod[a][c] = "written"
    /\ pod' = [pod EXCEPT ![a][c] = "gone"]
    /\ JobEnds(a, c, "complete")
    /\ UNCHANGED <<orchVars, maps, mayDelete, stored>>

\* The pod crashes, or is collected because its Job is over or deleted.
PodDies(a, c) ==
    /\ "pod" \in Faults \/ ~Owned(a, c)
    /\ pod[a][c] \in {"running", "written"}
    /\ pod' = [pod EXCEPT ![a][c] = "gone"]
    /\ JobEnds(a, c, "failed")
    /\ UNCHANGED <<orchVars, maps, mayDelete, stored>>

\* activeDeadlineSeconds: FailureTarget is reported while the pod still ends.
JobDeadline(c) ==
    /\ job[c].status = "running"
    /\ job' = [job EXCEPT ![c].status = "failed"]
    /\ UNCHANGED <<orchVars, maps, mayDelete, pod, stored>>

\* ttlSecondsAfterFinished, which counts from the end of the pod, for the Jobs
\* that no one watches any more.
JobExpires(c) ==
    /\ job[c].status \in {"complete", "failed"} /\ pod[job[c].by][c] = "gone"
    /\ call[c] \in Ended \/ (call[c] = "submitted" /\ run = "failed")
    /\ job' = [job EXCEPT ![c] = NoJob]
    /\ UNCHANGED <<orchVars, maps, mayDelete, pod, stored>>

ClusterStep(c) ==
    \/ JobDeadline(c) \/ JobExpires(c)
    \/ \E a \in Attempts : PodWrites(a, c) \/ PodExits(a, c) \/ PodDies(a, c)

-----------------------------------------------------------------------------
RunStep == StartPolling \/ Return \/ GatherRaises

Over == run \in {"returned", "failed"} /\ Live = {} /\ UNCHANGED vars

Next ==
    \/ RunStep \/ Interrupt \/ Again
    \/ \E c \in Cells : CellStep(c) \/ PollRaises(c) \/ ClusterStep(c)
    \/ Over

\* Every API call and storage call answers or raises.  Nothing is assumed of
\* the cluster, nor that a status call ever fails: polling ends by the
\* executor's own timeout.
Fairness == WF_vars(RunStep) /\ \A c \in Cells : WF_vars(CellStep(c))

Spec == Init /\ [][Next]_vars /\ Fairness

-----------------------------------------------------------------------------
(* Properties.                                                              *)

\* Every variable keeps its type; only cells with a large payload have a map.
TypeOK ==
    /\ attempt \in Attempts /\ run \in {"submitting", "awaiting", "returned", "failed"}
    /\ call \in [Cells -> CallStates] /\ kill \subseteq Live /\ exc \subseteq Cells
    /\ took \in [Cells -> Outcomes] /\ stored \in [Cells -> Outcomes]
    /\ job \in [Cells -> JobsOK] /\ maps \subseteq Large /\ mayDelete \in BOOLEAN
    /\ pod \in [Attempts -> [Cells -> PodStates]]

\* When dispatch_all returns, after whatever earlier attempts went wrong, no
\* Job and no ConfigMap of its cells is left, except where deletes are refused.
ReturnedRunIsCleanedUp ==
    run = "returned" /\ mayDelete => \A c \in Cells : job[c] = NoJob /\ c \notin maps

\* The Job that a coroutine polls is there and is the one that its own attempt
\* created, whatever Jobs, pods and cancelled calls earlier attempts left.
WatchedJobIsOwn ==
    \A c \in Cells : call[c] \in {"polling", "reading"} => job[c].by = attempt

\* Every attempt ends, even on a cluster that never runs a pod.
AttemptEnds == <>[](run \in {"returned", "failed"} /\ Live = {})

Obtained == {c \in Cells : call[c] = "done"}
CountedCells == IF run = "returned" THEN Cells ELSE {}

Contract == INSTANCE ExecutorContract WITH
    obtained <- Obtained, counted <- CountedCells, returned <- run = "returned"

\* Each attempt keeps the Executor protocol; the next one starts afresh.
ImplementsExecutor == Contract!Init /\ [][Contract!Next \/ Again]_Contract!vars
=============================================================================
